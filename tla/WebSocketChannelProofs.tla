----------------------- MODULE WebSocketChannelProofs -----------------------
(***************************************************************************)
(* Proofs about WebSocketChannel, for any number of operations, frames and *)
(* faults: its types, that a close frame is the last frame of its side,    *)
(* and that a session which is over has let go of its connection.          *)
(***************************************************************************)
EXTENDS WebSocketChannel, TLAPS

Places == {"connect", "head", "upgrade", "run", "read", "leave", "over", "foreign"}
Outcomes == {"none", "eof", "error", "timeout", "protocol", "closed"}
Opcodes == {"request", "101", "404", "text", "cont", "ping", "pong", "close", "other"}
Faulty == {"none", "head", "length", "payload"}
Frames == [op : Opcodes, fin : BOOLEAN, pay : Nat, bad : Faulty]
Pieces == [half : 0..2, frame : Frames]
Channels ==
  [pc : Places, conn : BOOLEAN, open : BOOLEAN, buffer : Seq(Pieces), frag : Seq(Nat),
   active : BOOLEAN, ops : Nat, end : Outcomes]

(* What TypeOK leaves out is what the steps are made of.                    *)
Types ==
  /\ foreign \in BOOLEAN /\ cut \in BOOLEAN /\ faults \in 0..MaxFaults
  /\ wire \in [Ends -> Seq(Pieces)] /\ out \in [Ends -> Seq(Frames)]
  /\ ch \in [Ends -> Channels]

(* A channel with open_ false has closed its connection, unless an end of   *)
(* file made it false; then nobody reads or writes it again.  One that is   *)
(* over has closed its connection, with the same exception.                 *)
Sound(c) ==
  /\ c.conn /\ ~c.open => c.end = "eof" /\ c.pc \in {"leave", "over"}
  /\ c.pc = "over" /\ c.conn => c.end = "eof"

(* The close frame of a side is its last one, and its connection is closed. *)
ClosedWithFrame(e) ==
  Library(e) => \A i \in DOMAIN out[e] : out[e][i].op = "close" => ~ch[e].conn /\ i = Len(out[e])

Foreigner == ch["client"].pc = "foreign" => foreign

(* The inductive invariant.  CloseFrameLast is not inductive without the    *)
(* state of the connection, since ping() and the answers of read() do not   *)
(* look at open_; SessionReleases is not without open_, which is what       *)
(* serve() asks before it closes.                                           *)
ChannelInv ==
  /\ Types /\ Foreigner
  /\ \A e \in Ends : Sound(ch[e]) /\ ClosedWithFrame(e)

USE DEF vars

-----------------------------------------------------------------------------
(* What the channels made by a step look like.                              *)

(* A new channel, and one that nobody will read again.                      *)
LEMMA FreshChannel ==
  ASSUME NEW pc \in Places
  PROVE  /\ NewChannel(pc) \in Channels /\ NewChannel(pc).pc = pc
         /\ NewChannel(pc).conn = TRUE /\ NewChannel(pc).open = TRUE
         /\ NewChannel(pc).end = "none"
BY DEF NewChannel, Channels, Outcomes

(* A channel nobody will read again keeps its connection and its open_.     *)
LEMMA EndedChannel ==
  ASSUME NEW c \in Channels, NEW pc \in Places, NEW end \in Outcomes
  PROVE  /\ Ended(c, pc, end) \in Channels
         /\ Ended(c, pc, end).pc = pc /\ Ended(c, pc, end).end = end
         /\ Ended(c, pc, end).conn = c.conn /\ Ended(c, pc, end).open = c.open
<1>1. PICK n \in Channels : n = NewChannel(pc) BY FreshChannel
<1>2. n.pc = pc BY <1>1, FreshChannel
<1>3. c.conn \in BOOLEAN /\ c.open \in BOOLEAN BY DEF Channels
<1>4. Ended(c, pc, end) = [n EXCEPT !.conn = c.conn, !.open = c.open, !.end = end]
  BY <1>1 DEF Ended
<1> QED BY <1>2, <1>3, <1>4 DEF Channels

(* Closing the connection of a channel, or the channel.                     *)
LEMMA Unconnected ==
  ASSUME NEW c \in Channels, NEW d, d = [c EXCEPT !.conn = FALSE]
  PROVE  /\ d \in Channels /\ d.conn = FALSE /\ d.open = c.open /\ d.pc = c.pc /\ d.end = c.end
         /\ Sound(d)
BY DEF Channels, Sound

(* open_ becomes false, the connection stays.                               *)
LEMMA NotOpen ==
  ASSUME NEW c \in Channels
  PROVE  [c EXCEPT !.open = FALSE] \in Channels /\ [c EXCEPT !.open = FALSE].conn = c.conn
BY DEF Channels

(* Only the buffer changes.                                                 *)
LEMMA Rebuffered ==
  ASSUME NEW c \in Channels, NEW b \in Seq(Pieces), NEW d, d = [c EXCEPT !.buffer = b]
  PROVE  /\ d \in Channels /\ d.conn = c.conn /\ d.open = c.open /\ d.pc = c.pc
         /\ d.end = c.end /\ d.buffer = b
BY DEF Channels

(* What close() leaves.                                                     *)
LEMMA Unopened ==
  ASSUME NEW c \in Channels
  PROVE  /\ ClosedChannel(c) \in Channels /\ ClosedChannel(c).conn = FALSE
         /\ Sound(ClosedChannel(c)) /\ ClosedChannel(c).pc = c.pc
BY DEF Channels, ClosedChannel, Sound

(* A failed read leaves a channel with the connection it had, or none.      *)
LEMMA FailedChannel ==
  ASSUME NEW c \in Channels, NEW end \in Outcomes, c.conn /\ ~c.open => end = "eof"
  PROVE  /\ Failed(c, end) \in Channels /\ Sound(Failed(c, end))
         /\ Failed(c, end).conn => c.conn
         /\ Failed(c, end).pc \in {"leave", "over"}
         /\ Failed(c, end).open = c.open
<1>1. CASE c.pc = "read"
  <2>1. Failed(c, end) = Ended(c, "leave", end) /\ "leave" \in Places BY <1>1 DEF Failed, Places
  <2> QED BY <2>1, EndedChannel DEF Sound
<1>2. CASE c.pc # "read"
  <2>1. Failed(c, end) = [Ended(c, "over", end) EXCEPT !.conn = FALSE] BY <1>2 DEF Failed
  <2>2. "over" \in Places BY DEF Places
  <2>3. Ended(c, "over", end) \in Channels /\ Ended(c, "over", end).pc = "over"
        /\ Ended(c, "over", end).open = c.open
    BY <2>2, EndedChannel
  <2> QED BY <2>1, <2>3, Unconnected
<1> QED BY <1>1, <1>2

-----------------------------------------------------------------------------
(* What one side may do to its channel and to its frames.                   *)

(* Every change of one side's channel keeps the invariant.                  *)
LEMMA Moves ==
  ASSUME ChannelInv, NEW e \in Ends, NEW d \in Channels, ch' = [ch EXCEPT ![e] = d],
         Sound(d), d.conn => ch[e].conn, d.pc = "foreign" => ch[e].pc = "foreign",
         UNCHANGED foreign,
         \/ out' = out
         \/ /\ ch[e].conn
            /\ \E f \in Frames : /\ out' = [out EXCEPT ![e] = Append(@, f)]
                                 /\ f.op = "close" => ~d.conn
  PROVE  /\ ch' \in [Ends -> Channels] /\ out' \in [Ends -> Seq(Frames)] /\ Foreigner'
         /\ \A x \in Ends : Sound(ch'[x]) /\ ClosedWithFrame(x)'
<1>1. /\ ch \in [Ends -> Channels] /\ out \in [Ends -> Seq(Frames)]
      /\ ch'[e] = d /\ \A x \in Ends \ {e} : ch'[x] = ch[x]
  BY DEF ChannelInv, Types
<1>2. ch' \in [Ends -> Channels] /\ \A x \in Ends : Sound(ch'[x])
  BY <1>1 DEF ChannelInv
<1>3. Foreigner' BY <1>1 DEF ChannelInv, Foreigner, Ends
<1>4. \A x \in Ends : Library(x)' <=> Library(x) BY DEF Library
<1>5. CASE out' = out
  BY <1>1, <1>2, <1>3, <1>4, <1>5 DEF ChannelInv, ClosedWithFrame
<1>6. ASSUME ch[e].conn, NEW f \in Frames, out' = [out EXCEPT ![e] = Append(@, f)],
             f.op = "close" => ~d.conn
      PROVE  out' \in [Ends -> Seq(Frames)] /\ \A x \in Ends : ClosedWithFrame(x)'
  <2>1. out[e] \in Seq(Frames) /\ out'[e] = Append(out[e], f)
        /\ \A x \in Ends \ {e} : out'[x] = out[x]
    BY <1>1, <1>6
  <2>2. /\ DOMAIN out'[e] = 1..(Len(out[e]) + 1) /\ DOMAIN out[e] = 1..Len(out[e])
        /\ Len(out'[e]) = Len(out[e]) + 1 /\ Len(out[e]) \in Nat
        /\ out'[e][Len(out[e]) + 1] = f
        /\ \A i \in 1..Len(out[e]) : out'[e][i] = out[e][i]
    BY <2>1
  <2>3. out' \in [Ends -> Seq(Frames)]
    <3>1. Append(out[e], f) \in Seq(Frames) BY <2>1
    <3>2. out' = [out EXCEPT ![e] = Append(out[e], f)] BY <1>6
    <3> QED BY <1>1, <3>1, <3>2
  <2>4. ClosedWithFrame(e)'
    <3>1. Library(e) => \A i \in 1..Len(out[e]) : out[e][i].op # "close"
      BY <1>6, <2>2 DEF ChannelInv, ClosedWithFrame
    <3>2. \A i \in DOMAIN out'[e] : i = Len(out[e]) + 1 \/ i \in 1..Len(out[e]) BY <2>2
    <3>3. Library(e)' => \A i \in 1..Len(out[e]) : out'[e][i].op # "close" BY <1>4, <2>2, <3>1
    <3>4. f.op = "close" => ~ch'[e].conn BY <1>1, <1>6
    <3> QED BY <2>2, <3>2, <3>3, <3>4 DEF ClosedWithFrame
  <2>5. \A x \in Ends \ {e} : ClosedWithFrame(x)'
    BY <1>1, <1>4, <2>1 DEF ChannelInv, ClosedWithFrame
  <2> QED BY <2>3, <2>4, <2>5
<1> QED BY <1>1, <1>2, <1>3, <1>5, <1>6
(* Side e sends nothing, whatever the network and the counter of faults do. *)
LEMMA Silent ==
  ASSUME ChannelInv, NEW e \in Ends, NEW d \in Channels, ch' = [ch EXCEPT ![e] = d],
         Sound(d), d.conn => ch[e].conn, d.pc = "foreign" => ch[e].pc = "foreign",
         UNCHANGED <<foreign, cut, out>>,
         wire' \in [Ends -> Seq(Pieces)], faults' \in 0..MaxFaults
  PROVE  ChannelInv'
<1>1. /\ ch' \in [Ends -> Channels] /\ out' \in [Ends -> Seq(Frames)] /\ Foreigner'
      /\ \A x \in Ends : Sound(ch'[x]) /\ ClosedWithFrame(x)'
  BY Moves
<1>2. foreign' \in BOOLEAN /\ cut' \in BOOLEAN BY DEF ChannelInv, Types
<1> QED BY <1>1, <1>2 DEF ChannelInv, Types

(* What is put on the wire is pieces, and a fault is counted.               *)
LEMMA PutTyped ==
  ASSUME ChannelInv, NEW e \in Ends, NEW p \in Seq(Pieces), Put(e, p)
  PROVE  wire' \in [Ends -> Seq(Pieces)]
<1>1. wire \in [Ends -> Seq(Pieces)] /\ Peer(e) \in Ends
  BY DEF ChannelInv, Types, Peer, Ends
<1>2. wire[Peer(e)] \o p \in Seq(Pieces) BY <1>1
<1> QED BY <1>1, <1>2 DEF Put

(* A fault is counted within its bound.                                     *)
LEMMA FaultTyped ==
  ASSUME ChannelInv, Fault PROVE faults' \in 0..MaxFaults
BY ChannelAssumption DEF ChannelInv, Types, Fault

(* A frame is two pieces, and a write that times out sends the first.       *)
LEMMA HalvesTyped ==
  ASSUME NEW f \in Frames
  PROVE  Halves(f) \in Seq(Pieces) /\ <<Head(Halves(f))>> \in Seq(Pieces)
<1>1. [half |-> 1, frame |-> f] \in Pieces /\ [half |-> 2, frame |-> f] \in Pieces
  BY DEF Pieces
<1>2. PICK g, h \in Pieces : Halves(f) = <<g, h>> BY <1>1 DEF Halves
<1> QED BY <1>2

(* send_frame keeps the invariant when a close frame goes with the end of   *)
(* the connection.                                                          *)
LEMMA Sends ==
  ASSUME ChannelInv, NEW e \in Ends, NEW f \in Frames, NEW rest \in Channels,
         SendFrame(e, f, rest), UNCHANGED <<foreign, cut>>,
         Sound(rest), rest.conn => ch[e].conn, rest.pc = "foreign" => ch[e].pc = "foreign",
         f.op = "close" => ~rest.conn
  PROVE  ChannelInv'
<1>0. /\ wire \in [Ends -> Seq(Pieces)] /\ faults \in 0..MaxFaults
      /\ foreign' \in BOOLEAN /\ cut' \in BOOLEAN
  BY DEF ChannelInv, Types
<1>1. CASE CannotWrite(e) /\ Nothing /\ ch' = [ch EXCEPT ![e] = rest]
  BY <1>0, <1>1, Silent DEF Nothing
<1>2. CASE /\ ch[e].conn /\ ~cut
           /\ Put(e, Halves(f)) /\ out' = [out EXCEPT ![e] = Append(@, f)]
           /\ ch' = [ch EXCEPT ![e] = rest] /\ UNCHANGED faults
  <2>1. wire' \in [Ends -> Seq(Pieces)] BY <1>2, PutTyped, HalvesTyped
  <2>2. /\ ch' \in [Ends -> Channels] /\ out' \in [Ends -> Seq(Frames)] /\ Foreigner'
        /\ \A x \in Ends : Sound(ch'[x]) /\ ClosedWithFrame(x)'
    BY <1>2, Moves
  <2> QED BY <1>0, <1>2, <2>1, <2>2 DEF ChannelInv, Types
<1>3. CASE /\ ch[e].conn /\ ~cut /\ Fault
           /\ Put(e, <<Head(Halves(f))>>) /\ UNCHANGED out
           /\ ch' = [ch EXCEPT ![e] = [rest EXCEPT !.conn = FALSE]]
  <2>1. wire' \in [Ends -> Seq(Pieces)] BY <1>3, PutTyped, HalvesTyped
  <2>2. faults' \in 0..MaxFaults BY <1>3, FaultTyped
  <2>3. PICK d \in Channels : /\ d = [rest EXCEPT !.conn = FALSE] /\ Sound(d) /\ d.conn = FALSE
                              /\ d.pc = rest.pc
    BY Unconnected
  <2> QED BY <1>3, <2>1, <2>2, <2>3, Silent
<1> QED BY <1>1, <1>2, <1>3 DEF SendFrame

(* What a side sends is a frame.                                            *)
LEMMA FrameTyped ==
  ASSUME NEW op \in Opcodes, NEW fin \in BOOLEAN, NEW pay \in Nat, NEW bad \in Faulty
  PROVE  Frame(op, fin, pay, bad) \in Frames /\ Frame(op, fin, pay, bad).op = op
BY DEF Frame, Frames

(* close() keeps it, and leaves no connection behind it.                    *)
LEMMA Closes ==
  ASSUME ChannelInv, NEW e \in Ends, NEW c \in Channels, NEW code \in Nat,
         CloseWith(e, c, code), UNCHANGED <<foreign, cut>>,
         ~c.open => Sound(c), c.conn => ch[e].conn, c.pc # "foreign"
  PROVE  ChannelInv'
<1>1. CASE c.open
  <2>0. Frame("close", TRUE, code, "none") \in Frames
    <3>1. "close" \in Opcodes /\ "none" \in Faulty BY DEF Opcodes, Faulty
    <3> QED BY <3>1, FrameTyped
  <2>1. PICK f \in Frames : f = Frame("close", TRUE, code, "none") BY <2>0
  <2>2. PICK d \in Channels : /\ d = ClosedChannel(c) /\ Sound(d) /\ d.conn = FALSE /\ d.pc = c.pc
    BY Unopened
  <2>3. SendFrame(e, f, d) BY <1>1, <2>1, <2>2 DEF CloseWith
  <2> QED BY <2>2, <2>3, Sends
<1>2. CASE ~c.open
  <2>1. ch' = [ch EXCEPT ![e] = c] /\ Nothing BY <1>2 DEF CloseWith
  <2>2. wire' \in [Ends -> Seq(Pieces)] /\ faults' \in 0..MaxFaults /\ UNCHANGED out
    BY <2>1 DEF Nothing, ChannelInv, Types
  <2> QED BY <1>2, <2>1, <2>2, Silent
<1> QED BY <1>1, <1>2
-----------------------------------------------------------------------------
(* Every step keeps the invariant.                                          *)

(* The piece at the front of a buffer holds a frame.                        *)
LEMMA FrontTyped ==
  ASSUME NEW b \in Seq(Pieces), b # <<>>
  PROVE  b[1].frame \in Frames /\ Tail(b) \in Seq(Pieces)
<1>1. b[1] \in Pieces /\ Tail(b) \in Seq(Pieces) OBVIOUS
<1> QED BY <1>1 DEF Pieces

(* The connection delivers, ends, fails or times out.                       *)
LEMMA NeedStep ==
  ASSUME ChannelInv, NEW e \in Ends, Fill(e) \/ Eof(e) \/ ReadError(e) \/ ReadTimeout(e)
  PROVE  ChannelInv'
<1>0. /\ wire \in [Ends -> Seq(Pieces)] /\ faults \in 0..MaxFaults
      /\ ch \in [Ends -> Channels] /\ ch[e] \in Channels /\ Sound(ch[e])
  BY DEF ChannelInv, Types
<1>w. ch[e].pc \in {"head", "upgrade", "read"}
  BY DEF Fill, Eof, ReadError, ReadTimeout, Needs, Waiting
<1>1. CASE Fill(e)
  <2>1. PICK n \in 1..Len(wire[e]) :
          /\ ch' = [ch EXCEPT ![e].buffer = @ \o SubSeq(wire[e], 1, n)]
          /\ wire' = [wire EXCEPT ![e] = SubSeq(@, n + 1, Len(@))]
    BY <1>1 DEF Fill
  <2>2. SubSeq(wire[e], 1, n) \in Seq(Pieces) /\ SubSeq(wire[e], n + 1, Len(wire[e])) \in Seq(Pieces)
    <3>1. wire[e] \in Seq(Pieces) BY <1>0
    <3> QED BY <3>1
  <2>3. ch[e].buffer \o SubSeq(wire[e], 1, n) \in Seq(Pieces) BY <1>0, <2>2 DEF Channels
  <2>4. PICK b \in Seq(Pieces) : b = ch[e].buffer \o SubSeq(wire[e], 1, n) BY <2>3
  <2>5. ch' = [ch EXCEPT ![e] = [ch[e] EXCEPT !.buffer = b]] BY <2>1, <2>4
  <2> DEFINE d == [ch[e] EXCEPT !.buffer = b]
  <2>6. /\ d \in Channels /\ d.conn = ch[e].conn /\ d.open = ch[e].open
        /\ d.pc = ch[e].pc /\ d.end = ch[e].end
    BY <1>0, Rebuffered
  <2> HIDE DEF d
  <2>7. Sound(d) BY <1>0, <2>6 DEF Sound
  <2>8. wire' \in [Ends -> Seq(Pieces)] BY <1>0, <2>1, <2>2
  <2>9. UNCHANGED <<foreign, cut, out, faults>> BY <1>1 DEF Fill
  <2>10. ch' = [ch EXCEPT ![e] = d] BY <2>5 DEF d
  <2> QED BY <1>0, <2>6, <2>7, <2>8, <2>9, <2>10, Silent
<1>f. ASSUME NEW c \in Channels, NEW end \in Outcomes, ch' = [ch EXCEPT ![e] = Failed(c, end)],
             c.conn => ch[e].conn, c.conn /\ ~c.open => end = "eof",
             UNCHANGED <<foreign, wire, cut, out, faults>>
      PROVE  ChannelInv'
  <2>1. PICK d \in Channels : /\ d = Failed(c, end) /\ Sound(d) /\ (d.conn => c.conn)
                              /\ d.pc \in {"leave", "over"}
    BY <1>f, FailedChannel
  <2> QED BY <1>0, <1>f, <2>1, Silent
<1>2. CASE Eof(e)
  <2>1. PICK c \in Channels : c = [ch[e] EXCEPT !.open = FALSE] /\ c.conn = ch[e].conn
    BY <1>0, NotOpen
  <2>2. "eof" \in Outcomes BY DEF Outcomes
  <2> QED BY <1>2, <1>f, <2>1, <2>2 DEF Eof
<1>3. CASE ReadError(e)
  <2>1. ~(ch[e].conn /\ ~ch[e].open) BY <1>0, <1>w DEF Sound
  <2>2. "error" \in Outcomes BY DEF Outcomes
  <2> QED BY <1>0, <1>3, <1>f, <2>1, <2>2 DEF ReadError
<1>4. CASE ReadTimeout(e)
  <2>1. PICK c \in Channels : c = [ch[e] EXCEPT !.conn = FALSE] /\ c.conn = FALSE
    BY <1>0, Unconnected
  <2>2. "timeout" \in Outcomes BY DEF Outcomes
  <2> QED BY <1>4, <1>f, <2>1, <2>2 DEF ReadTimeout
<1> QED BY <1>1, <1>2, <1>3, <1>4
(* The buffer without the two pieces of a frame.                            *)
LEMMA RestTyped ==
  ASSUME NEW b \in Seq(Pieces) PROVE SubSeq(b, 3, Len(b)) \in Seq(Pieces)
<1>1. CASE Len(b) < 3
  <2>1. SubSeq(b, 3, Len(b)) = <<>> BY <1>1
  <2> QED BY <2>1
<1>2. CASE Len(b) >= 3 BY <1>2
<1> QED BY <1>1, <1>2

(* A frame is taken from the buffer.                                        *)
LEMMA TakenChannel ==
  ASSUME ChannelInv, NEW e \in Ends, ch[e].pc = "read", Complete(ch[e].buffer)
  PROVE  /\ Taken(e) \in Channels /\ ch[e].buffer[1].frame \in Frames
         /\ Taken(e).conn = ch[e].conn /\ Taken(e).open = ch[e].open
         /\ Taken(e).pc = "read" /\ Taken(e).end = ch[e].end
         /\ ~(Taken(e).conn /\ ~Taken(e).open)
<1>1. ch[e] \in Channels /\ Sound(ch[e]) BY DEF ChannelInv, Types
<1>2. ch[e].buffer \in Seq(Pieces) /\ ch[e].buffer # <<>> BY <1>1 DEF Channels, Complete
<1>3. PICK b \in Seq(Pieces) : b = SubSeq(ch[e].buffer, 3, Len(ch[e].buffer))
  BY <1>2, RestTyped
<1>4. Taken(e) = [ch[e] EXCEPT !.buffer = b] BY <1>3 DEF Taken
<1>5. /\ Taken(e) \in Channels
      /\ Taken(e).conn = ch[e].conn /\ Taken(e).open = ch[e].open
      /\ Taken(e).pc = ch[e].pc /\ Taken(e).end = ch[e].end
  BY <1>1, <1>4, Rebuffered
<1>6. ~(ch[e].conn /\ ~ch[e].open) BY <1>1 DEF Sound
<1> QED BY <1>2, <1>5, <1>6, FrontTyped

(* The reader gives up.                                                     *)
LEMMA GivesUp ==
  ASSUME ChannelInv, NEW e \in Ends, NEW c \in Channels, ch' = [ch EXCEPT ![e] = Failed(c, "protocol")],
         c.conn => ch[e].conn, ~(c.conn /\ ~c.open), Nothing, UNCHANGED <<foreign, cut>>
  PROVE  ChannelInv'
<1>1. "protocol" \in Outcomes BY DEF Outcomes
<1>2. PICK d \in Channels : /\ d = Failed(c, "protocol") /\ Sound(d) /\ (d.conn => c.conn)
                            /\ d.pc \in {"leave", "over"}
  BY <1>1, FailedChannel
<1>3. wire' \in [Ends -> Seq(Pieces)] /\ faults' \in 0..MaxFaults /\ UNCHANGED out
  BY DEF Nothing, ChannelInv, Types
<1> QED BY <1>2, <1>3, Silent

(* Only the channel of side e changes, and it is as connected as before.    *)
LEMMA Quiet ==
  ASSUME ChannelInv, NEW e \in Ends, NEW d \in Channels, ch' = [ch EXCEPT ![e] = d],
         Sound(d), d.conn => ch[e].conn, d.pc # "foreign", Nothing, UNCHANGED <<foreign, cut>>
  PROVE  ChannelInv'
<1>1. wire' \in [Ends -> Seq(Pieces)] /\ faults' \in 0..MaxFaults /\ UNCHANGED out
  BY DEF Nothing, ChannelInv, Types
<1> QED BY <1>1, Silent

(* A frame with a bad head: closed with 1002 or not, and given up.          *)
LEMMA BadFrameStep ==
  ASSUME ChannelInv, NEW e \in Ends, BadFrame(e)
  PROVE  ChannelInv'
<1>1. ch[e] \in Channels /\ Sound(ch[e]) /\ ch[e].pc = "read" /\ UNCHANGED <<foreign, cut>>
  BY DEF ChannelInv, Types, BadFrame
<1>2. ~(ch[e].conn /\ ~ch[e].open) BY <1>1 DEF Sound
<1>3. "protocol" \in Outcomes BY DEF Outcomes
<1>4. PICK d \in Channels : /\ d = Failed(ch[e], "protocol") /\ Sound(d) /\ (d.conn => ch[e].conn)
                            /\ d.pc \in {"leave", "over"}
  BY <1>1, <1>2, <1>3, FailedChannel
<1>5. \/ CloseWith(e, d, 1002)
      \/ ch' = [ch EXCEPT ![e] = d] /\ Nothing
  BY <1>4 DEF BadFrame
<1>6. 1002 \in Nat OBVIOUS
<1> QED BY <1>1, <1>4, <1>5, <1>6, Closes, Quiet

(* The channel a close frame leaves, answered or not.                       *)
LEMMA EchoedChannel ==
  ASSUME NEW c \in Channels
  PROVE  Echoed(c) \in Channels /\ Sound(Echoed(c)) /\ Echoed(c).conn = FALSE
         /\ Echoed(c).pc = "leave"
<1>1. "leave" \in Places /\ "closed" \in Outcomes BY DEF Places, Outcomes
<1>2. PICK d \in Channels : d = Ended(c, "leave", "closed") /\ d.pc = "leave"
  BY <1>1, EndedChannel
<1>3. Echoed(c) = [d EXCEPT !.open = FALSE, !.conn = FALSE] BY <1>2 DEF Echoed
<1> QED BY <1>2, <1>3 DEF Channels, Sound

(* A close frame is echoed, ignored after an own close, or given up.        *)
LEMMA ReadCloseStep ==
  ASSUME ChannelInv, NEW e \in Ends, ReadClose(e)
  PROVE  ChannelInv'
<1>1. ch[e].pc = "read" /\ Complete(ch[e].buffer) /\ UNCHANGED <<foreign, cut>>
  BY DEF ReadClose, FrameIs
<1>2. PICK f \in Frames : f = ch[e].buffer[1].frame BY <1>1, TakenChannel
<1>3. PICK c \in Channels : /\ c = Taken(e) /\ c.conn = ch[e].conn /\ ~(c.conn /\ ~c.open)
  BY <1>1, TakenChannel
<1>4. PICK d \in Channels : /\ d = Echoed(c) /\ Sound(d) /\ d.conn = FALSE /\ d.pc = "leave"
  BY EchoedChannel
<1>5. \/ ch' = [ch EXCEPT ![e] = Failed(c, "protocol")] /\ Nothing
      \/ SendFrame(e, f, d)
      \/ ch' = [ch EXCEPT ![e] = d] /\ Nothing
  BY <1>2, <1>3, <1>4 DEF ReadClose
<1>6. CASE ch' = [ch EXCEPT ![e] = Failed(c, "protocol")] /\ Nothing
  BY <1>1, <1>3, <1>6, GivesUp
<1>7. CASE SendFrame(e, f, d) BY <1>1, <1>4, <1>7, Sends
<1>8. CASE ch' = [ch EXCEPT ![e] = d] /\ Nothing BY <1>1, <1>4, <1>8, Quiet
<1> QED BY <1>5, <1>6, <1>7, <1>8

(* The reader returns to its caller.                                        *)
LEMMA DoneChannel ==
  ASSUME NEW c \in Channels, NEW d, d = Done(c), ~(c.conn /\ ~c.open)
  PROVE  d \in Channels /\ Sound(d) /\ d.conn = c.conn /\ d.pc = "run"
BY DEF Channels, Done, Sound, Places

(* A ping is answered whatever open_ says, a pong returned.                 *)
LEMMA ReadControlStep ==
  ASSUME ChannelInv, NEW e \in Ends, ReadControl(e)
  PROVE  ChannelInv'
<1>1. ch[e].pc = "read" /\ Complete(ch[e].buffer) /\ UNCHANGED <<foreign, cut>>
  BY DEF ReadControl, FrameIs
<1>2. PICK f \in Frames : f = ch[e].buffer[1].frame BY <1>1, TakenChannel
<1>3. PICK c \in Channels : /\ c = Taken(e) /\ c.conn = ch[e].conn /\ ~(c.conn /\ ~c.open)
  BY <1>1, TakenChannel
<1>4. PICK d \in Channels : /\ d = Done(c) /\ Sound(d) /\ d.conn = ch[e].conn /\ d.pc = "run"
  BY <1>3, DoneChannel
<1>5. Frame("pong", TRUE, f.pay, "none") \in Frames /\ Frame("pong", TRUE, f.pay, "none").op = "pong"
  <2>1. f.pay \in Nat BY DEF Frames
  <2>2. "pong" \in Opcodes /\ "none" \in Faulty BY DEF Opcodes, Faulty
  <2> QED BY <2>1, <2>2, FrameTyped
<1>6. PICK g \in Frames : g = Frame("pong", TRUE, f.pay, "none") /\ g.op = "pong" BY <1>5
<1>7. \/ SendFrame(e, g, d)
      \/ ch' = [ch EXCEPT ![e] = d] /\ Nothing
  BY <1>2, <1>3, <1>4, <1>6 DEF ReadControl
<1>8. CASE SendFrame(e, g, d) BY <1>1, <1>4, <1>6, <1>8, Sends
<1>9. CASE ch' = [ch EXCEPT ![e] = d] /\ Nothing BY <1>1, <1>4, <1>9, Quiet
<1> QED BY <1>7, <1>8, <1>9
(* What a data frame does to the message in assembly: it begins or goes     *)
(* on, it ends, and it is handed over.                                      *)
LEMMA PartKept ==
  ASSUME NEW c \in Channels, NEW parts \in Seq(Nat), NEW d,
         d = [c EXCEPT !.frag = parts, !.active = TRUE]
  PROVE  d \in Channels /\ d.conn = c.conn /\ d.open = c.open /\ d.pc = c.pc
BY DEF Channels

(* The message is complete ...                                              *)
LEMMA LastPart ==
  ASSUME NEW c \in Channels, NEW d, d = [c EXCEPT !.active = FALSE]
  PROVE  d \in Channels /\ d.conn = c.conn /\ d.open = c.open /\ d.pc = c.pc
BY DEF Channels

(* ... and its parts are moved out.                                         *)
LEMMA PartsMoved ==
  ASSUME NEW c \in Channels, NEW parts \in Seq(Nat), NEW d, d = [c EXCEPT !.frag = parts]
  PROVE  d \in Channels /\ d.conn = c.conn /\ d.open = c.open
BY DEF Channels

(* A data frame is returned, kept for its message, or given up.             *)
LEMMA ReadDataStep ==
  ASSUME ChannelInv, NEW e \in Ends, ReadData(e)
  PROVE  ChannelInv'
<1>1. /\ ch[e].pc = "read" /\ Complete(ch[e].buffer) /\ UNCHANGED <<foreign, cut>> /\ Nothing
  BY DEF ReadData, FrameIs
<1>2. PICK f \in Frames : f = ch[e].buffer[1].frame BY <1>1, TakenChannel
<1>3. PICK c \in Channels : /\ c = Taken(e) /\ c.conn = ch[e].conn /\ c.pc = "read"
                            /\ ~(c.conn /\ ~c.open)
  BY <1>1, TakenChannel
<1>4. PICK parts \in Seq(Nat) : parts = (IF f.op = "cont" THEN c.frag ELSE <<>>) \o <<f.pay>>
  <2>1. f.pay \in Nat /\ c.frag \in Seq(Nat) BY DEF Frames, Channels
  <2>2. c.frag \o <<f.pay>> \in Seq(Nat) /\ <<>> \o <<f.pay>> \in Seq(Nat) BY <2>1
  <2> QED BY <2>2
<1>5. PICK d \in Channels :
        /\ d = IF f.op = "cont" THEN [c EXCEPT !.active = FALSE] ELSE c
        /\ d.conn = ch[e].conn /\ d.pc = "read" /\ ~(d.conn /\ ~d.open)
  <2>1. CASE f.op = "cont"
    <3>1. PICK d : d = [c EXCEPT !.active = FALSE] OBVIOUS
    <3>2. d \in Channels /\ d.conn = c.conn /\ d.open = c.open /\ d.pc = c.pc
      BY <3>1, LastPart
    <3>3. d = IF f.op = "cont" THEN [c EXCEPT !.active = FALSE] ELSE c BY <2>1, <3>1
    <3>4. d.conn = ch[e].conn /\ d.pc = "read" /\ ~(d.conn /\ ~d.open) BY <1>3, <3>2
    <3> QED BY <3>2, <3>3, <3>4
  <2>2. CASE f.op # "cont"
    <3>1. c = IF f.op = "cont" THEN [c EXCEPT !.active = FALSE] ELSE c BY <2>2
    <3> QED BY <1>3, <3>1
  <2> QED BY <2>1, <2>2
<1>6. PICK g \in Channels :
        /\ g = [c EXCEPT !.frag = parts, !.active = TRUE] /\ g.conn = ch[e].conn /\ g.pc = "read"
        /\ ~(g.conn /\ ~g.open)
  <2>1. PICK g : g = [c EXCEPT !.frag = parts, !.active = TRUE] OBVIOUS
  <2>2. g \in Channels /\ g.conn = c.conn /\ g.open = c.open /\ g.pc = c.pc
    BY <2>1, PartKept
  <2>3. g.conn = ch[e].conn /\ g.pc = "read" /\ ~(g.conn /\ ~g.open) BY <1>3, <2>2
  <2> QED BY <2>1, <2>2, <2>3
<1>7. PICK h \in Channels :
        /\ h = [d EXCEPT !.frag = <<>>] /\ h.conn = ch[e].conn /\ ~(h.conn /\ ~h.open)
  <2>0. <<>> \in Seq(Nat) OBVIOUS
  <2>1. PICK empty \in Seq(Nat) : empty = <<>> BY <2>0
  <2>2. PICK h : h = [d EXCEPT !.frag = empty] OBVIOUS
  <2>3. h \in Channels /\ h.conn = d.conn /\ h.open = d.open BY <2>2, PartsMoved
  <2>4. h.conn = ch[e].conn /\ ~(h.conn /\ ~h.open) BY <1>5, <2>3
  <2> QED BY <2>1, <2>2, <2>3, <2>4
<1>8. PICK r \in Channels : /\ r = Done(h) /\ Sound(r) /\ r.conn = ch[e].conn /\ r.pc = "run"
  BY <1>7, DoneChannel
<1>9. \/ ch' = [ch EXCEPT ![e] = Failed(c, "protocol")]
      \/ ch' = [ch EXCEPT ![e] = Failed(d, "protocol")]
      \/ ch' = [ch EXCEPT ![e] = g]
      \/ ch' = [ch EXCEPT ![e] = r]
  BY <1>2, <1>3, <1>4, <1>5, <1>6, <1>7, <1>8, Zenon DEF ReadData
<1>10. CASE ch' = [ch EXCEPT ![e] = Failed(c, "protocol")] BY <1>1, <1>3, <1>10, GivesUp
<1>11. CASE ch' = [ch EXCEPT ![e] = Failed(d, "protocol")] BY <1>1, <1>5, <1>11, GivesUp
<1>12. CASE ch' = [ch EXCEPT ![e] = g]
  <2>1. Sound(g) BY <1>6 DEF Sound
  <2> QED BY <1>1, <1>6, <1>12, <2>1, Quiet
<1>13. CASE ch' = [ch EXCEPT ![e] = r] BY <1>1, <1>8, <1>13, Quiet
<1> QED BY <1>9, <1>10, <1>11, <1>12, <1>13

-----------------------------------------------------------------------------
(* The application.                                                         *)

(* An operation is counted; read() begins.                                  *)
LEMMA CountedChannel ==
  ASSUME ChannelInv, NEW e \in Ends, ch[e].pc = "run"
  PROVE  /\ Counted(e) \in Channels /\ Sound(Counted(e)) /\ Counted(e).pc = "run"
         /\ Counted(e).conn = ch[e].conn /\ ~(Counted(e).conn /\ ~Counted(e).open)
         /\ [Counted(e) EXCEPT !.pc = "read"] \in Channels
         /\ Sound([Counted(e) EXCEPT !.pc = "read"])
         /\ [Counted(e) EXCEPT !.pc = "read"].conn = ch[e].conn
         /\ [Counted(e) EXCEPT !.pc = "read"].pc = "read"
<1>1. ch[e] \in Channels /\ Sound(ch[e]) BY DEF ChannelInv, Types
<1>2. ~(ch[e].conn /\ ~ch[e].open) BY <1>1 DEF Sound
<1>3. PICK c \in Channels : /\ c = Counted(e) /\ c.pc = "run" /\ c.conn = ch[e].conn
                            /\ c.open = ch[e].open
  <2>1. PICK n \in Nat : n = ch[e].ops + 1 BY <1>1 DEF Channels
  <2>2. PICK c : c = [ch[e] EXCEPT !.ops = n] OBVIOUS
  <2>3. c \in Channels /\ c.pc = "run" /\ c.conn = ch[e].conn /\ c.open = ch[e].open
    BY <1>1, <2>2 DEF Channels
  <2> QED BY <2>1, <2>2, <2>3 DEF Counted
<1>4. PICK d \in Channels : /\ d = [c EXCEPT !.pc = "read"] /\ d.pc = "read" /\ d.conn = c.conn
                            /\ d.open = c.open
  <2>1. PICK d : d = [c EXCEPT !.pc = "read"] OBVIOUS
  <2>2. d \in Channels /\ d.pc = "read" /\ d.conn = c.conn /\ d.open = c.open
    BY <2>1 DEF Channels, Places
  <2> QED BY <2>1, <2>2
<1> QED BY <1>2, <1>3, <1>4 DEF Sound

(* read, send, ping and close keep the invariant.                           *)
LEMMA OperationStep ==
  ASSUME ChannelInv, NEW e \in Ends, Read(e) \/ Send(e) \/ Ping(e) \/ Close(e)
  PROVE  ChannelInv'
<1>1. ch[e].pc = "run" /\ UNCHANGED <<foreign, cut>>
  <2>1. CASE Read(e) BY <2>1 DEF Read, Idle, Unread
  <2>2. CASE Send(e) BY <2>2 DEF Send, Idle, Unread
  <2>3. CASE Ping(e) BY <2>3 DEF Ping, Idle, Unread
  <2>4. CASE Close(e) BY <2>4 DEF Close, Idle, Unread
  <2> QED BY <2>1, <2>2, <2>3, <2>4
<1>2. PICK c \in Channels : /\ c = Counted(e) /\ Sound(c) /\ c.pc = "run" /\ c.conn = ch[e].conn
  BY <1>1, CountedChannel
<1>n. Len(out[e]) + 1 \in Nat
  <2>1. out[e] \in Seq(Frames) BY DEF ChannelInv, Types
  <2> QED BY <2>1
<1>3. CASE Read(e)
  <2>1. PICK d \in Channels : /\ d = [c EXCEPT !.pc = "read"] /\ Sound(d) /\ d.conn = ch[e].conn
                              /\ d.pc = "read"
    BY <1>1, <1>2, CountedChannel
  <2> QED BY <1>1, <1>2, <1>3, <2>1, Quiet DEF Read
<1>4. ASSUME NEW op \in {"text", "ping"},
             SendFrame(e, Frame(op, TRUE, Len(out[e]) + 1, "none"), c)
      PROVE  ChannelInv'
  <2>1. PICK n \in Nat : n = Len(out[e]) + 1 BY <1>n
  <2>2. Frame(op, TRUE, n, "none") \in Frames /\ Frame(op, TRUE, n, "none").op = op
    <3>1. op \in Opcodes /\ "none" \in Faulty BY DEF Opcodes, Faulty
    <3> QED BY <3>1, FrameTyped
  <2>3. PICK f \in Frames : f = Frame(op, TRUE, n, "none") /\ f.op # "close" BY <2>2
  <2> QED BY <1>1, <1>2, <1>4, <2>1, <2>3, Sends
<1>5. CASE Send(e)
  <2>1. \/ SendFrame(e, Frame("text", TRUE, Len(out[e]) + 1, "none"), c)
        \/ ch' = [ch EXCEPT ![e] = c] /\ Nothing
    BY <1>2, <1>5 DEF Send
  <2>2. CASE ch' = [ch EXCEPT ![e] = c] /\ Nothing BY <1>1, <1>2, <2>2, Quiet
  <2> QED BY <1>4, <2>1, <2>2
<1>6. CASE Ping(e) BY <1>2, <1>4, <1>6 DEF Ping
<1>7. CASE Close(e)
  <2>1. CloseWith(e, c, 1000) /\ 1000 \in Nat BY <1>2, <1>7 DEF Close
  <2> QED BY <1>1, <1>2, <2>1, Closes
<1> QED BY <1>3, <1>5, <1>6, <1>7

(* The handler returns, and the client lets go of its WebSocket.            *)
LEMMA LeaveStep ==
  ASSUME ChannelInv, ServerLeaves \/ ClientLeaves
  PROVE  ChannelInv'
<1>0. UNCHANGED <<foreign, cut>> /\ {"client", "server"} = Ends /\ "over" \in Places
  BY DEF ServerLeaves, ClientLeaves, Leaving, Unread, Ends, Places
<1>1. ASSUME NEW e \in Ends
      PROVE \E c \in Channels : /\ c = Ended(ch[e], "over", ch[e].end) /\ c.pc = "over"
                                /\ c.end = ch[e].end /\ c.conn = ch[e].conn /\ c.open = ch[e].open
  <2>1. ch[e] \in Channels /\ ch[e].end \in Outcomes BY DEF ChannelInv, Types, Channels
  <2> QED BY <1>0, <2>1, EndedChannel
<1>2. CASE ServerLeaves
  <2> DEFINE e == "server"
  <2>1. e \in Ends /\ Sound(ch[e]) BY <1>0 DEF ChannelInv
  <2>2. PICK c \in Channels : /\ c = Ended(ch[e], "over", ch[e].end) /\ c.pc = "over"
                              /\ c.end = ch[e].end /\ c.conn = ch[e].conn /\ c.open = ch[e].open
    BY <1>1, <2>1
  <2>3. CASE c.open /\ c.conn
    <3>0. /\ Ended(ch[e], "over", ch[e].end).open /\ Ended(ch[e], "over", ch[e].end).conn
          /\ Ended(ch[e], "over", ch[e].end) = c
      BY <2>2, <2>3
    <3>1. \E code \in EndCodes : CloseWith(e, Ended(ch[e], "over", ch[e].end), code)
      BY <1>2, <3>0 DEF ServerLeaves
    <3>2. PICK code \in EndCodes : CloseWith(e, c, code) BY <3>0, <3>1
    <3>3. code \in Nat BY DEF EndCodes
    <3>4. e \in Ends /\ UNCHANGED <<foreign, cut>> /\ c.conn = ch[e].conn /\ c.pc # "foreign" /\ c.open
      BY <1>0, <2>1, <2>2, <2>3
    <3> HIDE DEF e
    <3> QED BY <3>2, <3>3, <3>4, Closes
  <2>4. CASE ~(c.open /\ c.conn)
    <3>1. ch' = [ch EXCEPT ![e] = c] /\ Nothing BY <1>2, <2>2, <2>4 DEF ServerLeaves
    <3>2. Sound(c) BY <2>1, <2>2, <2>4 DEF Sound
    <3> QED BY <1>0, <2>1, <2>2, <3>1, <3>2, Quiet
  <2> QED BY <2>3, <2>4
<1>3. CASE ClientLeaves
  <2> DEFINE e == "client"
  <2>1. e \in Ends BY <1>0
  <2>2. PICK c \in Channels : c = Ended(ch[e], "over", ch[e].end) /\ c.pc = "over"
    BY <1>1, <2>1
  <2>3. PICK d \in Channels : /\ d = [c EXCEPT !.conn = FALSE] /\ Sound(d) /\ d.conn = FALSE
                              /\ d.pc = "over"
    <3>1. PICK d : d = [c EXCEPT !.conn = FALSE] OBVIOUS
    <3>2. d \in Channels /\ Sound(d) /\ d.conn = FALSE /\ d.pc = c.pc BY <3>1, Unconnected
    <3> QED BY <2>2, <3>1, <3>2
  <2>4. ch' = [ch EXCEPT ![e] = d] /\ Nothing BY <1>3, <2>2, <2>3 DEF ClientLeaves
  <2> QED BY <1>0, <2>1, <2>3, <2>4, Quiet
<1> QED BY <1>2, <1>3
-----------------------------------------------------------------------------
(* The upgrade, the other client and the network.                           *)

(* The head of a request or of a response is one piece.                     *)
LEMMA HeadTyped ==
  ASSUME NEW op \in Opcodes
  PROVE  Upgrade(op) \in Seq(Pieces)
<1>1. "none" \in Faulty BY DEF Faulty
<1>2. Frame(op, TRUE, 0, "none") \in Frames BY <1>1, FrameTyped
<1>3. PICK f \in Frames : f = Frame(op, TRUE, 0, "none") BY <1>2
<1>4. [half |-> 0, frame |-> f] \in Pieces BY DEF Pieces
<1> QED BY <1>3, <1>4 DEF Upgrade

(* make_websocket_channel and a refusal.                                    *)
LEMMA UpgradedChannel ==
  ASSUME NEW c \in Channels, c.buffer # <<>>
  PROVE  /\ Channel(c) \in Channels /\ Sound(Channel(c)) /\ Channel(c).conn = c.conn
         /\ Channel(c).pc = "run"
<1>1. PICK b \in Seq(Pieces) : b = Tail(c.buffer)
  <2>1. c.buffer \in Seq(Pieces) BY DEF Channels
  <2> QED BY <2>1, FrontTyped
<1>2. c.conn \in BOOLEAN /\ "run" \in Places BY DEF Channels, Places
<1>3. PICK n \in Channels : n = NewChannel("run") /\ n.pc = "run" /\ n.open = TRUE
  BY <1>2, FreshChannel
<1>4. Channel(c) = [n EXCEPT !.conn = c.conn, !.buffer = b] BY <1>1, <1>3 DEF Channel
<1> QED BY <1>2, <1>3, <1>4 DEF Channels, Sound

(* A refused upgrade closes the connection.                                 *)
LEMMA RefusedChannel ==
  ASSUME NEW c \in Channels
  PROVE  /\ Refused(c) \in Channels /\ Sound(Refused(c)) /\ Refused(c).conn = FALSE
         /\ Refused(c).pc = "over"
<1>1. "over" \in Places /\ "none" \in Outcomes BY DEF Places, Outcomes
<1>2. PICK d \in Channels : d = Ended(c, "over", "none") /\ d.pc = "over"
  BY <1>1, EndedChannel
<1>3. Refused(c) = [d EXCEPT !.conn = FALSE] BY <1>2 DEF Refused
<1> QED BY <1>2, <1>3, Unconnected

(* The upgrade keeps the invariant on either side.                          *)
LEMMA HandshakeStep ==
  ASSUME ChannelInv, Handshake
  PROVE  ChannelInv'
<1>0. /\ wire \in [Ends -> Seq(Pieces)] /\ faults \in 0..MaxFaults /\ ch \in [Ends -> Channels]
      /\ "client" \in Ends /\ "server" \in Ends
      /\ UNCHANGED <<foreign, cut, out>>
  BY DEF ChannelInv, Types, Ends, Handshake, Connect, ServerUpgrade, ClientUpgraded
<1>1. CASE Connect
  <2>1. CASE /\ Put("client", Upgrade("request")) /\ UNCHANGED faults
             /\ ch' = [ch EXCEPT !["client"].pc = IF foreign THEN "foreign" ELSE "upgrade"]
    <3>1. ch["client"] \in Channels /\ Sound(ch["client"]) /\ ch["client"].pc = "connect"
      BY <1>0, <1>1 DEF ChannelInv, Connect
    <3>2. PICK q \in Places : /\ q = IF foreign THEN "foreign" ELSE "upgrade"
                              /\ q \in {"foreign", "upgrade"} /\ (q = "foreign" => foreign)
      BY <1>0 DEF Places, ChannelInv, Types
    <3>3. PICK d : d = [ch["client"] EXCEPT !.pc = q] OBVIOUS
    <3>4. /\ d \in Channels /\ d.pc = q /\ d.conn = ch["client"].conn
          /\ d.open = ch["client"].open
      BY <3>1, <3>3 DEF Channels
    <3>5. ch' = [ch EXCEPT !["client"] = d] BY <2>1, <3>2, <3>3
    <3>6. Sound(d) BY <3>1, <3>2, <3>4 DEF Sound
    <3>7. wire' \in [Ends -> Seq(Pieces)]
      <4>1. "request" \in Opcodes BY DEF Opcodes
      <4> QED BY <1>0, <2>1, <4>1, HeadTyped, PutTyped
    <3>8. ch'["client"] = d /\ ch'["server"] = ch["server"] /\ ch' \in [Ends -> Channels]
      BY <1>0, <3>4, <3>5 DEF Ends
    <3>9. Foreigner' BY <1>0, <3>2, <3>4, <3>8 DEF Foreigner
    <3>10. \A e \in Ends : Sound(ch'[e]) BY <3>6, <3>8 DEF ChannelInv, Ends
    <3>11. \A e \in Ends : ch'[e].conn = ch[e].conn BY <3>4, <3>8 DEF Ends
    <3>12. \A e \in Ends : ClosedWithFrame(e)'
      BY <1>0, <3>11 DEF ChannelInv, ClosedWithFrame, Library
    <3>13. Types' BY <1>0, <2>1, <3>7, <3>8 DEF ChannelInv, Types
    <3> QED BY <3>9, <3>10, <3>12, <3>13 DEF ChannelInv
  <2>2. CASE /\ Fault /\ UNCHANGED wire
             /\ ch' = [ch EXCEPT !["client"] = [NewChannel("over") EXCEPT !.conn = FALSE]]
    <3>1. "over" \in Places BY DEF Places
    <3>2. PICK n \in Channels : n = NewChannel("over") /\ n.pc = "over" BY <3>1, FreshChannel
    <3>3. PICK d : d = [n EXCEPT !.conn = FALSE] OBVIOUS
    <3>4. d \in Channels /\ Sound(d) /\ d.conn = FALSE /\ d.pc = "over"
      BY <3>2, <3>3, Unconnected
    <3>5. faults' \in 0..MaxFaults BY <2>2, FaultTyped
    <3> QED BY <1>0, <2>2, <3>2, <3>3, <3>4, <3>5, Silent
  <2> QED BY <1>1, <2>1, <2>2 DEF Connect
<1>2. CASE ServerUpgrade
  <2>1. PICK c \in Channels : c = ch["server"] BY <1>0
  <2>2. c.buffer # <<>> BY <1>2, <2>1 DEF ServerUpgrade, UpgradeAsked, Complete
  <2>3. PICK r : r = Refused(c) OBVIOUS
  <2>4. PICK d : d = Channel(c) OBVIOUS
  <2>5. r \in Channels /\ Sound(r) /\ r.conn = FALSE /\ r.pc = "over" BY <2>3, RefusedChannel
  <2>6. d \in Channels /\ Sound(d) /\ d.conn = c.conn /\ d.pc = "run"
    BY <2>2, <2>4, UpgradedChannel
  <2>7. \/ ch' = [ch EXCEPT !["server"] = r]
        \/ ch' = [ch EXCEPT !["server"] = d]
    BY <1>2, <2>1, <2>3, <2>4 DEF ServerUpgrade, NoRoute, ServerHandshake
  <2>8. wire' \in [Ends -> Seq(Pieces)] /\ faults' \in 0..MaxFaults
    <3>1. "404" \in Opcodes /\ "101" \in Opcodes BY DEF Opcodes
    <3>2. Upgrade("404") \in Seq(Pieces) /\ Upgrade("101") \in Seq(Pieces) BY <3>1, HeadTyped
    <3>3. \/ Put("server", Upgrade("404"))
          \/ Put("server", Upgrade("101"))
          \/ wire' = wire
      BY <1>2 DEF ServerUpgrade, NoRoute, ServerHandshake
    <3>4. faults' = faults \/ Fault
      BY <1>2 DEF ServerUpgrade, NoRoute, ServerHandshake
    <3> QED BY <1>0, <3>2, <3>3, <3>4, PutTyped, FaultTyped
  <2> QED BY <1>0, <2>1, <2>5, <2>6, <2>7, <2>8, Silent
<1>3. CASE ClientUpgraded
  <2>1. PICK c \in Channels : c = ch["client"] BY <1>0
  <2>2. c.buffer # <<>> BY <1>3, <2>1 DEF ClientUpgraded, Complete
  <2>3. PICK r : r = Refused(c) OBVIOUS
  <2>4. PICK d : d = Channel(c) OBVIOUS
  <2>5. r \in Channels /\ Sound(r) /\ r.conn = FALSE /\ r.pc = "over" BY <2>3, RefusedChannel
  <2>6. d \in Channels /\ Sound(d) /\ d.conn = c.conn /\ d.pc = "run"
    BY <2>2, <2>4, UpgradedChannel
  <2>7. \/ ch' = [ch EXCEPT !["client"] = r]
        \/ ch' = [ch EXCEPT !["client"] = d]
    BY <1>3, <2>1, <2>3, <2>4 DEF ClientUpgraded
  <2>8. UNCHANGED <<wire, faults>> BY <1>3 DEF ClientUpgraded
  <2> QED BY <1>0, <2>1, <2>5, <2>6, <2>7, <2>8, Silent
<1> QED BY <1>1, <1>2, <1>3 DEF Handshake
(* What another client sends says nothing of this library's close frames.   *)
LEMMA ForeignStep ==
  ASSUME ChannelInv, Foreign
  PROVE  ChannelInv'
<1>0. /\ out \in [Ends -> Seq(Frames)] /\ "client" \in Ends /\ wire \in [Ends -> Seq(Pieces)]
      /\ ch \in [Ends -> Channels] /\ faults \in 0..MaxFaults
  BY DEF ChannelInv, Types, Ends
<1>1. ASSUME NEW f \in Frames, ForeignSends(f), faults' \in 0..MaxFaults
      PROVE  ChannelInv'
  <2>1. foreign BY <1>1 DEF ForeignSends, ChannelInv, Foreigner
  <2>2. wire' \in [Ends -> Seq(Pieces)] BY <1>0, <1>1, PutTyped, HalvesTyped DEF ForeignSends
  <2>3. out' = [out EXCEPT !["client"] = Append(@, f)] /\ UNCHANGED <<foreign, cut, ch>>
    BY <1>1 DEF ForeignSends
  <2>4. Append(out["client"], f) \in Seq(Frames) BY <1>0
  <2>5. out' \in [Ends -> Seq(Frames)] /\ out'["server"] = out["server"]
    BY <1>0, <2>3, <2>4 DEF Ends
  <2>6. \A e \in Ends : ClosedWithFrame(e)'
    BY <2>1, <2>3, <2>5 DEF ChannelInv, ClosedWithFrame, Library, Ends
  <2>7. Types' BY <1>1, <2>2, <2>3, <2>5 DEF ChannelInv, Types
  <2> QED BY <2>3, <2>6, <2>7 DEF ChannelInv, Foreigner
<1>2. PICK n \in Nat : n = Len(out["client"]) + 1
  <2>1. out["client"] \in Seq(Frames) BY <1>0
  <2> QED BY <2>1
<1>3. ASSUME NEW op \in Opcodes, NEW fin \in BOOLEAN, NEW bad \in Faulty,
             ForeignSends(Frame(op, fin, n, bad)), faults' \in 0..MaxFaults
      PROVE  ChannelInv'
  <2>1. Frame(op, fin, n, bad) \in Frames BY FrameTyped
  <2>2. PICK f \in Frames : f = Frame(op, fin, n, bad) BY <2>1
  <2> QED BY <1>1, <1>3, <2>2
<1>4. CASE ForeignLegal
  <2>1. faults' \in 0..MaxFaults BY <1>0, <1>4 DEF ForeignLegal
  <2>2. \E op \in {"cont", "text", "ping", "close"}, fin \in BOOLEAN :
          ForeignSends(Frame(op, fin, n, "none"))
    BY <1>2, <1>4 DEF ForeignLegal
  <2>3. "none" \in Faulty /\ \A op \in {"cont", "text", "ping", "close"} : op \in Opcodes
    BY DEF Faulty, Opcodes
  <2> QED BY <1>3, <2>1, <2>2, <2>3
<1>5. CASE ForeignBad
  <2>1. faults' \in 0..MaxFaults BY <1>5, FaultTyped DEF ForeignBad
  <2>2. \E op \in {"cont", "text", "close", "other"}, fin \in {TRUE},
           bad \in {"head", "length", "payload", "none"} : ForeignSends(Frame(op, fin, n, bad))
    BY <1>2, <1>5 DEF ForeignBad
  <2>3. /\ \A bad \in {"head", "length", "payload", "none"} : bad \in Faulty
        /\ \A op \in {"cont", "text", "close", "other"} : op \in Opcodes
    BY DEF Faulty, Opcodes
  <2> QED BY <1>3, <2>1, <2>2, <2>3
<1>6. CASE ForeignLeaves
  <2>1. ch["client"] \in Channels BY <1>0
  <2>2. PICK d : d = [ch["client"] EXCEPT !.pc = "over", !.conn = FALSE] OBVIOUS
  <2>3. d \in Channels /\ Sound(d) /\ d.conn = FALSE /\ d.pc = "over"
    BY <2>1, <2>2 DEF Channels, Sound, Places
  <2>4. ch' = [ch EXCEPT !["client"] = d]
    BY <1>0, <1>6, <2>2 DEF ForeignLeaves
  <2>5. UNCHANGED <<foreign, cut, out, wire, faults>> BY <1>6 DEF ForeignLeaves
  <2> QED BY <1>0, <2>3, <2>4, <2>5, Silent
<1> QED BY <1>4, <1>5, <1>6 DEF Foreign

(* A reset, a network failure and Server::Impl::stop keep it.               *)
LEMMA NetworkStep ==
  ASSUME ChannelInv, Reset \/ NetworkFails \/ StopCloses
  PROVE  ChannelInv'
<1>1. CASE Reset \/ NetworkFails
  <2>1. /\ cut' = TRUE /\ wire' = [e \in Ends |-> <<>>] /\ UNCHANGED <<foreign, ch, out>>
        /\ faults' = faults \/ Fault
    BY <1>1 DEF Reset, NetworkFails, Lost
  <2>2. faults' \in 0..MaxFaults BY <2>1, FaultTyped DEF ChannelInv, Types
  <2>3. wire' \in [Ends -> Seq(Pieces)] /\ cut' \in BOOLEAN BY <2>1
  <2>4. Types' BY <2>1, <2>2, <2>3 DEF ChannelInv, Types
  <2> QED BY <2>1, <2>4 DEF ChannelInv, Foreigner, ClosedWithFrame, Library
<1>2. CASE StopCloses
  <2>1. ch \in [Ends -> Channels] /\ "server" \in Ends /\ wire \in [Ends -> Seq(Pieces)]
    BY DEF ChannelInv, Types, Ends
  <2>2. PICK d : d = [ch["server"] EXCEPT !.conn = FALSE] OBVIOUS
  <2>3. d \in Channels /\ Sound(d) /\ d.conn = FALSE /\ d.pc = ch["server"].pc
    BY <2>1, <2>2, Unconnected
  <2>4. ch' = [ch EXCEPT !["server"] = d] /\ UNCHANGED <<foreign, cut, out, wire>>
    BY <1>2, <2>2 DEF StopCloses
  <2>5. faults' \in 0..MaxFaults BY <1>2, FaultTyped DEF StopCloses
  <2> QED BY <2>1, <2>3, <2>4, <2>5, Silent
<1> QED BY <1>1, <1>2

(* The invariant is inductive ...                                           *)
LEMMA ChannelStep == ChannelInv /\ [Next]_vars => ChannelInv'
<1> SUFFICES ASSUME ChannelInv, [Next]_vars PROVE ChannelInv'
  OBVIOUS
<1>1. CASE UNCHANGED vars
  BY <1>1 DEF ChannelInv, Types, Foreigner, ClosedWithFrame, Library
<1>2. CASE Handshake BY <1>2, HandshakeStep
<1>3. CASE Foreign BY <1>3, ForeignStep
<1>4. CASE Reset \/ NetworkFails \/ StopCloses BY <1>4, NetworkStep
<1>5. ASSUME NEW e \in Ends, Reading(e) \/ ReadTimeout(e) PROVE ChannelInv'
  BY <1>5, NeedStep, BadFrameStep, ReadCloseStep, ReadControlStep, ReadDataStep DEF Reading
<1>6. ASSUME NEW e \in Ends, Application(e) PROVE ChannelInv'
  BY <1>6, OperationStep, LeaveStep DEF Application
<1> QED BY <1>1, <1>2, <1>3, <1>4, <1>5, <1>6 DEF Next

(* ... and holds before the client connects.                                *)
LEMMA ChannelStart == Init => ChannelInv
<1> SUFFICES ASSUME Init PROVE ChannelInv
  OBVIOUS
<1>1. "connect" \in Places /\ "head" \in Places BY DEF Places
<1>2. PICK n \in Channels : n = NewChannel("connect") /\ n.pc = "connect" /\ n.open = TRUE
  BY <1>1, FreshChannel
<1>3. PICK m \in Channels : m = NewChannel("head") /\ m.pc = "head" /\ m.open = TRUE
  BY <1>1, FreshChannel
<1>4. ch \in [Ends -> Channels] /\ ch["client"] = n /\ ch["server"] = m
  BY <1>2, <1>3 DEF Init, Ends
<1>5. Types
  <2>1. wire \in [Ends -> Seq(Pieces)] /\ out \in [Ends -> Seq(Frames)] BY DEF Init
  <2>2. foreign \in BOOLEAN /\ cut \in BOOLEAN BY DEF Init
  <2>3. MaxFaults \in Nat BY ChannelAssumption
  <2>4. faults \in 0..MaxFaults BY <2>3 DEF Init
  <2> QED BY <1>4, <2>1, <2>2, <2>4 DEF Types
<1>6. Foreigner BY <1>2, <1>4 DEF Foreigner
<1>7. Sound(n) /\ Sound(m) BY <1>2, <1>3 DEF Sound
<1>8. \A e \in Ends : Sound(ch[e]) BY <1>4, <1>7 DEF Ends
<1>9. \A e \in Ends : ClosedWithFrame(e) BY DEF Init, ClosedWithFrame
<1> QED BY <1>5, <1>6, <1>8, <1>9 DEF ChannelInv

-----------------------------------------------------------------------------
(* The theorems                                                             *)

(* The inductive invariant holds in every state of every behaviour.         *)
THEOREM ChannelInvariant == Spec => []ChannelInv
BY ChannelStart, ChannelStep, PTL DEF Spec

(* The state of both channels and of their coroutines stays well formed.    *)
THEOREM ChannelTypeCorrect == Spec => []TypeOK
<1>1. ChannelInv => TypeOK BY DEF ChannelInv, Types, TypeOK, Channels, Places, Outcomes
<1> QED BY <1>1, ChannelInvariant, PTL

(* However many operations an application makes and whatever comes in, a    *)
(* side of this library sends nothing behind its close frame: close(), the  *)
(* echo in read() and the refusal of a bad frame all close the connection   *)
(* in the step that sends it, and send_frame writes to no closed one.       *)
THEOREM NothingBehindClose == Spec => []CloseFrameLast
<1>1. ChannelInv => CloseFrameLast BY DEF ChannelInv, CloseFrameLast, ClosedWithFrame
<1> QED BY <1>1, ChannelInvariant, PTL

(* A session whose handler is over holds an open connection only after an   *)
(* end of file: the one case in which serve() finds open() false and does   *)
(* not close.                                                               *)
THEOREM SessionsRelease == Spec => []SessionReleases
<1>1. ChannelInv => SessionReleases BY DEF ChannelInv, SessionReleases, Sound, Ends
<1> QED BY <1>1, ChannelInvariant, PTL
=============================================================================
