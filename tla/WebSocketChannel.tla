-------------------------- MODULE WebSocketChannel --------------------------
(* A WebSocket from the upgrade to the end: UvWebSocketChannel on both      *)
(* sides (src/src/protocol.cpp), websocket_client_connect, and the part of  *)
(* Server::Impl::serve that runs a WebSocket route.                         *)
(*                                                                          *)
(* The server is always this library; its client may be another one, which  *)
(* sends fragments, control frames between them and, once, a bad frame.     *)
(* A frame travels in two pieces, so that a read may end inside it.  All    *)
(* operations on one WebSocket are made by one coroutine, as the README     *)
(* asks, which therefore never meets the flag writing_ set.                 *)
EXTENDS Naturals, Sequences, SequencesExt

CONSTANTS
  MaxOps,      \* operations of an application before it leaves
  MaxFrames,   \* frames of a client that is not this library
  MaxFaults    \* bad frames, timeouts of writes, resets, a stop of the server

ASSUME ChannelAssumption == {MaxOps, MaxFrames, MaxFaults} \subseteq Nat

VARIABLES
  foreign,  \* the client is not this library
  wire,     \* per side the pieces on their way to it
  cut,      \* the connection was reset
  ch,       \* per side the channel and the coroutine that uses it
  out,      \* per side the frames it has sent whole
  got,      \* per side what read() has returned
  faults

vars == <<foreign, wire, cut, ch, out, got, faults>>

Ends == {"client", "server"}
Peer(e) == IF e = "client" THEN "server" ELSE "client"
Library(e) == e = "client" => ~foreign

Frame(op, fin, pay, bad) == [op |-> op, fin |-> fin, pay |-> pay, bad |-> bad]
Halves(f) == <<[half |-> 1, frame |-> f], [half |-> 2, frame |-> f]>>
Upgrade(op) == <<[half |-> 0, frame |-> Frame(op, TRUE, 0, "none")]>>

(* conn: connection_->open(); open: open_; frag, active: fragmented_ and    *)
(* fragmented_active_; end: what ended the last read.                       *)
NewChannel(pc) ==
  [pc |-> pc, conn |-> TRUE, open |-> TRUE, buffer |-> <<>>, frag |-> <<>>, active |-> FALSE,
   ops |-> 0, end |-> "none"]

Init ==
  /\ foreign \in BOOLEAN
  /\ wire = [e \in Ends |-> <<>>]
  /\ cut = FALSE
  /\ ch = [e \in Ends |-> NewChannel(IF e = "client" THEN "connect" ELSE "head")]
  /\ out = [e \in Ends |-> <<>>]
  /\ got = [e \in Ends |-> <<>>]
  /\ faults = 0

Fault == faults < MaxFaults /\ faults' = faults + 1

-----------------------------------------------------------------------------
(* Writing                                                                  *)

(* The connection takes the pieces p; another client reads them at once ... *)
Put(e, p) ==
  wire' = IF foreign /\ e = "server" /\ ch["client"].conn THEN wire
          ELSE [wire EXCEPT ![Peer(e)] = @ \o p]

(* ... or nothing leaves, as it is closed or the peer is gone ...           *)
Nothing == UNCHANGED <<wire, out, faults>>
CannotWrite(e) == ~ch[e].conn \/ cut \/ ~ch[Peer(e)].conn

(* send_frame: rest is the channel afterwards, whatever becomes of the      *)
(* frame.  A write that times out closes the connection inside the frame.   *)
SendFrame(e, f, rest) ==
  \/ CannotWrite(e) /\ Nothing /\ ch' = [ch EXCEPT ![e] = rest]
  \/ /\ ch[e].conn /\ ~cut
     /\ Put(e, Halves(f)) /\ out' = [out EXCEPT ![e] = Append(@, f)]
     /\ ch' = [ch EXCEPT ![e] = rest] /\ UNCHANGED faults
  \/ /\ ch[e].conn /\ ~cut /\ Fault
     /\ Put(e, <<Head(Halves(f))>>) /\ UNCHANGED out
     /\ ch' = [ch EXCEPT ![e] = [rest EXCEPT !.conn = FALSE]]

-----------------------------------------------------------------------------
(* Reading: need() asks the connection for more until there is a frame.     *)

Waiting(e) == Library(e) /\ ch[e].pc \in {"head", "upgrade", "read"}
BadHead(b) == b # <<>> /\ b[1].frame.bad \in {"head", "length"}
Complete(b) == b # <<>> /\ (b[1].half = 0 \/ BadHead(b) \/ Len(b) > 1)
Needs(e) == Waiting(e) /\ ~Complete(ch[e].buffer)

(* A channel nobody will read again: what it has buffered is forgotten.     *)
Ended(c, pc, end) == [NewChannel(pc) EXCEPT !.conn = c.conn, !.open = c.open, !.end = end]

(* A read fails: the end of a handshake, which closes the connection, or an *)
(* error for the caller of read(), who will not read again.                 *)
Failed(c, end) ==
  IF c.pc = "read" THEN Ended(c, "leave", end)
  ELSE [Ended(c, "over", end) EXCEPT !.conn = FALSE]

(* The connection delivers any number of pieces.                            *)
Fill(e) ==
  /\ Needs(e) /\ ch[e].conn
  /\ \E n \in 1..Len(wire[e]) :
       /\ ch' = [ch EXCEPT ![e].buffer = @ \o SubSeq(wire[e], 1, n)]
       /\ wire' = [wire EXCEPT ![e] = SubSeq(@, n + 1, Len(@))]
  /\ UNCHANGED <<foreign, cut, out, got, faults>>

(* End of file, also from a connection that is closed: the channel is no    *)
(* longer open, and its connection is as it was.                            *)
Eof(e) ==
  /\ Needs(e)
  /\ ~ch[e].conn \/ (wire[e] = <<>> /\ ~ch[Peer(e)].conn /\ ~cut)
  /\ ch' = [ch EXCEPT ![e] = Failed([@ EXCEPT !.open = FALSE], "eof")]
  /\ UNCHANGED <<foreign, wire, cut, out, got, faults>>

ReadError(e) ==
  /\ Needs(e) /\ ch[e].conn /\ cut
  /\ ch' = [ch EXCEPT ![e] = Failed(@, "error")]
  /\ UNCHANGED <<foreign, wire, cut, out, got, faults>>

(* The connection's timer closes it.                                        *)
ReadTimeout(e) ==
  /\ Needs(e) /\ ch[e].conn
  /\ ch' = [ch EXCEPT ![e] = Failed([@ EXCEPT !.conn = FALSE], "timeout")]
  /\ UNCHANGED <<foreign, wire, cut, out, got, faults>>

-----------------------------------------------------------------------------
(* The upgrade                                                              *)

(* websocket_client_connect up to the request; any step may fail.           *)
Connect ==
  /\ ch["client"].pc = "connect" /\ UNCHANGED <<foreign, cut, out, got>>
  /\ \/ /\ Put("client", Upgrade("request")) /\ UNCHANGED faults
        /\ ch' = [ch EXCEPT !["client"].pc = IF foreign THEN "foreign" ELSE "upgrade"]
     \/ /\ Fault /\ UNCHANGED wire
        /\ ch' = [ch EXCEPT !["client"] = [NewChannel("over") EXCEPT !.conn = FALSE]]

(* Mutant: bytes behind the head of the upgrade are left in its buffer.     *)
ChannelUnbuffered(c) == [NewChannel("run") EXCEPT !.conn = c.conn]

(* make_websocket_channel: what is buffered behind the head goes with it.   *)
Channel(c) == [NewChannel("run") EXCEPT !.conn = c.conn, !.buffer = Tail(c.buffer)]

Refused(c) == [Ended(c, "over", "none") EXCEPT !.conn = FALSE]

(* is_websocket_upgrade, for the head at the front of the buffer.           *)
UpgradeAsked(c) == Complete(c.buffer) /\ c.buffer[1].frame.op = "request"

(* serve() has no route for it ...                                          *)
NoRoute(c) ==
  Put("server", Upgrade("404")) /\ UNCHANGED faults /\ ch' = [ch EXCEPT !["server"] = Refused(c)]

(* ... or answers the handshake, unless the key is bad or the write fails.  *)
ServerHandshake(c) ==
  \/ /\ Put("server", Upgrade("101")) /\ UNCHANGED faults
     /\ ch' = [ch EXCEPT !["server"] = Channel(c)]
  \/ /\ UNCHANGED wire /\ ((CannotWrite("server") /\ UNCHANGED faults) \/ Fault)
     /\ ch' = [ch EXCEPT !["server"] = Refused(c)]

ServerUpgrade ==
  LET c == ch["server"]
  IN  /\ c.pc = "head" /\ UpgradeAsked(c) /\ (NoRoute(c) \/ ServerHandshake(c))
      /\ UNCHANGED <<foreign, cut, out, got>>

(* The client has the head of the response.                                 *)
ClientUpgraded ==
  LET c == ch["client"]
  IN  /\ c.pc = "upgrade" /\ Complete(c.buffer)
      /\ ch' = [ch EXCEPT !["client"] = IF c.buffer[1].frame.op = "101" THEN Channel(c)
                                                                      ELSE Refused(c)]
      /\ UNCHANGED <<foreign, wire, cut, out, got, faults>>

-----------------------------------------------------------------------------
(* read(), for the frame at the front of the buffer                         *)

Event(kind, parts) == [kind |-> kind, parts |-> parts]
Returns(e, event) == got' = [got EXCEPT ![e] = Append(@, event)]

(* What close() leaves, whatever became of its frame.                       *)
ClosedChannel(c) == [c EXCEPT !.open = FALSE, !.conn = FALSE]

(* close(): only the first one does anything.                               *)
CloseWith(e, c, code) ==
  IF c.open THEN SendFrame(e, Frame("close", TRUE, code, "none"), ClosedChannel(c))
            ELSE ch' = [ch EXCEPT ![e] = c] /\ Nothing

(* Reserved bits and a wrong mask close the channel with 1002, a length no  *)
(* frame may have does not.  The frame stays in the buffer.                 *)
BadFrame(e) ==
  /\ ch[e].pc = "read" /\ BadHead(ch[e].buffer)
  /\ LET c == Failed(ch[e], "protocol")
     IN  IF ch[e].buffer[1].frame.bad = "head" THEN CloseWith(e, c, 1002)
         ELSE ch' = [ch EXCEPT ![e] = c] /\ Nothing
  /\ UNCHANGED <<foreign, cut, got>>

(* A whole frame f is taken from the buffer; c is the channel without it.   *)
FrameIs(e, op) ==
  /\ ch[e].pc = "read" /\ Complete(ch[e].buffer) /\ ~BadHead(ch[e].buffer)
  /\ ch[e].buffer[1].frame.op \in op
Taken(e) == [ch[e] EXCEPT !.buffer = SubSeq(@, 3, Len(@))]
Done(c) == [c EXCEPT !.pc = "run"]

(* Mutant: answers a close frame and leaves the connection to its peer.     *)
EchoedKept(c) == [Ended(c, "leave", "closed") EXCEPT !.open = FALSE]

Echoed(c) == [Ended(c, "leave", "closed") EXCEPT !.open = FALSE, !.conn = FALSE]

(* A close frame is answered by its payload, unless this side has closed.   *)
ReadClose(e) ==
  /\ FrameIs(e, {"close"}) /\ UNCHANGED <<foreign, cut>>
  /\ LET f == ch[e].buffer[1].frame
         c == Taken(e)
     IN  IF f.bad # "none"
         THEN ch' = [ch EXCEPT ![e] = Failed(c, "protocol")] /\ Nothing /\ UNCHANGED got
         ELSE /\ Returns(e, Event("close", <<f.pay>>))
              /\ IF c.open THEN SendFrame(e, f, Echoed(c))
                           ELSE ch' = [ch EXCEPT ![e] = Echoed(c)] /\ Nothing

(* A ping is answered and returned, a pong returned.                        *)
ReadControl(e) ==
  /\ FrameIs(e, {"ping", "pong"}) /\ UNCHANGED <<foreign, cut>>
  /\ LET f == ch[e].buffer[1].frame
         c == Done(Taken(e))
     IN  /\ Returns(e, Event(f.op, <<f.pay>>))
         /\ IF f.op = "ping" THEN SendFrame(e, Frame("pong", TRUE, f.pay, "none"), c)
                             ELSE ch' = [ch EXCEPT ![e] = c] /\ Nothing

(* Not a continuation of nothing, a new message inside another or an opcode *)
(* nobody knows.                                                            *)
Fits(c, f) == (f.op = "text" /\ ~c.active) \/ (f.op = "cont" /\ c.active)

(* The whole message, or its next part, or an error.                        *)
ReadData(e) ==
  /\ FrameIs(e, {"text", "cont", "other"}) /\ Nothing /\ UNCHANGED <<foreign, cut>>
  /\ LET f == ch[e].buffer[1].frame
         c == Taken(e)
         parts == (IF f.op = "cont" THEN c.frag ELSE <<>>) \o <<f.pay>>
     IN  IF ~Fits(c, f)
         THEN ch' = [ch EXCEPT ![e] = Failed(c, "protocol")] /\ UNCHANGED got
         ELSE IF ~f.fin
         THEN ch' = [ch EXCEPT ![e] = [c EXCEPT !.frag = parts, !.active = TRUE]] /\ UNCHANGED got
         ELSE LET d == IF f.op = "cont" THEN [c EXCEPT !.active = FALSE] ELSE c
              IN  IF f.bad # "none"
                  THEN ch' = [ch EXCEPT ![e] = Failed(d, "protocol")] /\ UNCHANGED got
                  ELSE /\ ch' = [ch EXCEPT ![e] = Done([d EXCEPT !.frag = <<>>])]
                       /\ Returns(e, Event("data", parts))

-----------------------------------------------------------------------------
(* The application: a handler, or whoever has the client's WebSocket.  It   *)
(* reads until read() fails, as every handler of the repository does.       *)

Idle(e) == Library(e) /\ ch[e].pc = "run" /\ ch[e].ops < MaxOps
Counted(e) == [ch[e] EXCEPT !.ops = @ + 1]
Unread == UNCHANGED <<foreign, cut, got>>

Read(e) ==
  /\ Idle(e) /\ ch' = [ch EXCEPT ![e] = [Counted(e) EXCEPT !.pc = "read"]]
  /\ Nothing /\ Unread

Send(e) ==
  /\ Idle(e) /\ Unread
  /\ IF ch[e].open THEN SendFrame(e, Frame("text", TRUE, Len(out[e]) + 1, "none"), Counted(e))
                   ELSE ch' = [ch EXCEPT ![e] = Counted(e)] /\ Nothing

Ping(e) ==
  /\ Idle(e) /\ Unread
  /\ SendFrame(e, Frame("ping", TRUE, Len(out[e]) + 1, "none"), Counted(e))

(* Mutant: the client waits for the server to close the connection.         *)
CloseWaits(e) ==
  /\ Idle(e) /\ Unread
  /\ IF ch[e].open
     THEN SendFrame(e, Frame("close", TRUE, 1000, "none"),
                    [Counted(e) EXCEPT !.open = FALSE, !.conn = e = "client"])
     ELSE ch' = [ch EXCEPT ![e] = Counted(e)] /\ Nothing

Close(e) == Idle(e) /\ Unread /\ CloseWith(e, Counted(e), 1000)

Leaving(e) == Library(e) /\ ch[e].pc \in {"run", "leave"} /\ Unread

(* What serve() closes with: the handler has returned, or it has thrown.    *)
EndCodes == {1000, 1011}

(* The handler returns or throws: serve() closes a socket that is open().   *)
ServerLeaves ==
  /\ Leaving("server")
  /\ LET c == Ended(ch["server"], "over", ch["server"].end)
     IN  IF c.open /\ c.conn
         THEN \E code \in EndCodes : CloseWith("server", c, code)
         ELSE ch' = [ch EXCEPT !["server"] = c] /\ Nothing

(* Mutant: the client's destructor does not close the connection.           *)
LeavesUnclosed ==
  /\ Leaving("client") /\ Nothing
  /\ ch' = [ch EXCEPT !["client"] = Ended(@, "over", @.end)]

(* The client lets go of its WebSocket: ~UvWebSocketChannel.                *)
ClientLeaves ==
  /\ Leaving("client") /\ Nothing
  /\ ch' = [ch EXCEPT !["client"] = [Ended(@, "over", @.end) EXCEPT !.conn = FALSE]]

-----------------------------------------------------------------------------
(* The rest of the world                                                    *)

Data(f) == f.op \in {"text", "cont"}
InMessage(s) ==
  LET data == SelectSeq(s, Data)
  IN  data # <<>> /\ ~data[Len(data)].fin
HasClosed(s) == s # <<>> /\ s[Len(s)].op = "close"

(* Another client sends a frame ...                                         *)
ForeignSends(f) ==
  /\ ch["client"].pc = "foreign" /\ ch["client"].conn /\ ~cut
  /\ Len(out["client"]) < MaxFrames /\ ~HasClosed(out["client"])
  /\ Put("client", Halves(f)) /\ out' = [out EXCEPT !["client"] = Append(@, f)]
  /\ UNCHANGED <<foreign, cut, ch, got>>

(* ... that may follow the ones before it ...                               *)
ForeignLegal ==
  LET n == Len(out["client"]) + 1
      op == IF InMessage(out["client"]) THEN "cont" ELSE "text"
  IN  /\ UNCHANGED faults
      /\ \/ \E fin \in BOOLEAN : ForeignSends(Frame(op, fin, n, "none"))
         \/ \E c \in {"ping", "close"} : ForeignSends(Frame(c, TRUE, n, "none"))

(* ... or may not: bad in its head, its length or its payload, or out of    *)
(* place.                                                                   *)
ForeignBad ==
  LET n == Len(out["client"]) + 1
      op == IF InMessage(out["client"]) THEN "cont" ELSE "text"
      misplaced == IF InMessage(out["client"]) THEN "text" ELSE "cont"
  IN  /\ Fault
      /\ \/ \E bad \in {"head", "length", "payload"} : ForeignSends(Frame(op, TRUE, n, bad))
         \/ ForeignSends(Frame("close", TRUE, n, "payload"))
         \/ \E o \in {misplaced, "other"} : ForeignSends(Frame(o, TRUE, n, "none"))

(* It closes its connection, with or without a close frame before.          *)
ForeignLeaves ==
  /\ ch["client"].pc = "foreign"
  /\ ch' = [ch EXCEPT !["client"].pc = "over", !["client"].conn = FALSE]
  /\ UNCHANGED <<foreign, wire, cut, out, got, faults>>

(* Pieces that reach a closed connection reset it, and both sides lose what *)
(* they have not read; so does the network.                                 *)
Lost == cut' = TRUE /\ wire' = [e \in Ends |-> <<>>] /\ UNCHANGED <<foreign, ch, out, got>>
Reset ==
  /\ ~cut /\ Lost /\ UNCHANGED faults
  /\ \E e \in Ends : ~ch[e].conn /\ wire[e] # <<>>
NetworkFails == ~cut /\ Fault /\ Lost

(* Server::Impl::stop closes the connection of a session.                   *)
StopCloses ==
  /\ ch["server"].conn /\ Fault
  /\ ch' = [ch EXCEPT !["server"].conn = FALSE]
  /\ UNCHANGED <<foreign, wire, cut, out, got>>

-----------------------------------------------------------------------------
Reading(e) == Fill(e) \/ Eof(e) \/ ReadError(e) \/ BadFrame(e) \/ ReadClose(e)
              \/ ReadControl(e) \/ ReadData(e)
Application(e) == \/ Read(e) \/ Send(e) \/ Ping(e) \/ Close(e)
                  \/ e = "server" /\ ServerLeaves
                  \/ e = "client" /\ ClientLeaves
Handshake == Connect \/ ServerUpgrade \/ ClientUpgraded
Foreign == ForeignLegal \/ ForeignBad \/ ForeignLeaves

Next == \/ Handshake \/ Foreign \/ Reset \/ NetworkFails \/ StopCloses
        \/ \E e \in Ends : Reading(e) \/ ReadTimeout(e) \/ Application(e)

Spec == Init /\ [][Next]_vars

(* What has arrived is read, a handshake goes on, an application leaves in  *)
(* the end.  Nothing is asked of timers or of another client.               *)
FairSpec == /\ Spec /\ WF_vars(Handshake)
            /\ \A e \in Ends : WF_vars(Reading(e)) /\ WF_vars(Application(e))

-----------------------------------------------------------------------------
(* Every variable holds what it can hold.                                   *)
TypeOK ==
  /\ {foreign, cut} \subseteq BOOLEAN /\ faults \in 0..MaxFaults
  /\ \A e \in Ends :
       /\ ch[e].pc \in {"connect", "head", "upgrade", "run", "read", "leave", "over", "foreign"}
       /\ {ch[e].conn, ch[e].open, ch[e].active} \subseteq BOOLEAN
       /\ ch[e].end \in {"none", "eof", "error", "timeout", "protocol", "closed"}

(* What a list of frames says when read as a whole: its messages, each the  *)
(* list of its parts.                                                       *)
Assemble(acc, f) ==
  IF ~Data(f) THEN acc
  ELSE LET parts == (IF f.op = "cont" THEN acc.parts ELSE <<>>) \o <<f.pay>>
       IN  IF f.fin THEN [done |-> Append(acc.done, parts), parts |-> <<>>]
                    ELSE [acc EXCEPT !.parts = parts]
Messages(frames) == FoldLeft(Assemble, [done |-> <<>>, parts |-> <<>>], frames).done

Events(e, kind) ==
  LET evs == SelectSeq(got[e], LAMBDA x : x.kind = kind)
  IN  [i \in DOMAIN evs |-> evs[i].parts]
Sent(e, op) ==
  LET fs == SelectSeq(out[e], LAMBDA f : f.op = op)
  IN  [i \in DOMAIN fs |-> <<fs[i].pay>>]

(* read() returns the peer's messages whole and in order, however they are  *)
(* cut into frames and pieces, whatever control frames come between and     *)
(* however much of them arrived with the upgrade; its pings in order; pongs *)
(* that answer this side's pings in order; and its close code.              *)
DeliveredInOrder ==
  \A e \in Ends :
    /\ IsPrefix(Events(e, "data"), Messages(out[Peer(e)]))
    /\ IsPrefix(Events(e, "ping"), Sent(Peer(e), "ping"))
    /\ IsPrefix(Events(e, "pong"), Sent(e, "ping"))
    /\ IsPrefix(Events(e, "close"), Sent(Peer(e), "close"))

(* A side sends one close frame at most and nothing behind it, though ping  *)
(* and the answers of read() never look at open_.                           *)
CloseFrameLast ==
  \A e \in Ends : Library(e) =>
    \A i \in DOMAIN out[e] : out[e][i].op = "close" => i = Len(out[e])

(* The only way a session leaves its connection open behind it: after an    *)
(* end of file open_ is false and serve() takes the socket for closed.      *)
(* Every other end, by close frames, errors, timeouts and the handler's own *)
(* return or exception, closes it.                                          *)
SessionReleases ==
  ch["server"].pc = "over" /\ ch["server"].conn => ch["server"].end = "eof"

(* A side that waits in read() or for the upgrade is released when the      *)
(* other side is done, without the help of its own timeout.                 *)
ReaderReleased ==
  \A e \in Ends : (Waiting(e) /\ ch[Peer(e)].pc = "over") ~> ~Waiting(e)
=============================================================================
