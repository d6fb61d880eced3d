----------------------------- MODULE EventStream -----------------------------
(***************************************************************************)
(* One response of SseClient::Impl::connect (src/src/sse.cpp): the body    *)
(* reader cuts the transport's bytes into blocks, on_data feeds them to    *)
(* the event parser and lets its errors and stop() cancel the transfer,    *)
(* and the id to resume from is taken from the parser when it is over.     *)
(***************************************************************************)
EXTENDS BodyReader, SseParser

CONSTANTS
  Messages, \* [framing, total, wire]: bodies as they arrive
  Ids,      \* SseClient::Impl::last_id when the request is sent
  Tokens

ASSUME MessageAssumption ==
  \A m \in Messages : /\ m.framing \in {"chunked", "length", "eof", "none"} /\ m.total \in Nat
                      /\ m.wire \in Seq(Tokens)

VARIABLES
  wire,     \* the bytes after the head
  total,    \* the declared length
  sentId,   \* the Last-Event-ID the request carried
  fed,      \* feed() has been called with the current block
  resumeId  \* SseClient::Impl::last_id after the response; Open until then

streamVars == <<wire, total, sentId, fed, resumeId>>
vars == <<readerVars, parserVars, streamVars>>

Open == <<"open">>

(* Lines never outgrow their limit, what was delivered never the body's.    *)
TypeOK ==
  /\ ReaderTypes(Tokens) /\ ParserTypes(Tokens) /\ fed \in BOOLEAN
  /\ received = Len(body) /\ (at = "done" <=> outcome # "none")

Init ==
  /\ \E m \in Messages : /\ framing = m.framing /\ left = m.total
                         /\ wire = m.wire /\ total = m.total
  /\ \E k \in 0..Len(wire) : buffer = SubSeq(wire, 1, k) /\ unread = From(wire, k + 1)
  /\ at = "start" /\ received = 0 /\ trailers = 0 /\ out = <<>> /\ body = <<>>
  /\ outcome = "none"
  /\ sentId \in Ids /\ ParserInit(sentId) /\ fed = FALSE /\ resumeId = Open

-----------------------------------------------------------------------------
(* on_data: parser.feed ...                                                 *)
OnData ==
  /\ at = "deliver" /\ ~fed /\ Feed(out) /\ fed' = TRUE
  /\ UNCHANGED <<readerVars, wire, total, sentId, resumeId>>

Parse == FeedStep /\ UNCHANGED <<readerVars, streamVars>>

(* ... and its answer: go on unless the parser failed or stop() was called. *)
Answer ==
  /\ fed /\ bytes = <<>> /\ fed' = FALSE
  /\ (failed = "none" /\ Accepted) \/ Refused
  /\ UNCHANGED <<parserVars, wire, total, sentId, resumeId>>

(* After the request: finish(), unless stop() has been called, and the id   *)
(* to resume from.                                                          *)
Over ==
  /\ at = "done" /\ resumeId = Open
  /\ Finish \/ UNCHANGED parserVars
  /\ resumeId' = lastId
  /\ UNCHANGED <<readerVars, wire, total, sentId, fed>>

Ended == resumeId # Open /\ UNCHANGED vars

Next == \/ ReaderStep /\ UNCHANGED <<parserVars, streamVars>>
        \/ OnData \/ Parse \/ Answer \/ Over \/ Ended

Spec == Init /\ [][Next]_vars

-----------------------------------------------------------------------------
(* Reference: what a whole wire and a whole stream mean.                    *)

Ordered(S, n) == SelectSeq([i \in 1..n |-> i], LAMBDA i : i \in S)

(* The chunked body at the start of w: its bytes, where the trailers begin  *)
(* and what follows the message; next = 0 if there is none.  A line ends    *)
(* with CRLF; a strict one has no LF before that.                           *)
Decode(w, strict) ==
  LET LineEnd(i) ==
        LET e == SelectInSubSeq([j \in 1..Len(w) |-> j < Len(w) /\ w[j] = "CR" /\ w[j + 1] = "LF"],
                                i, Len(w), LAMBDA hit : hit)
        IN  IF strict /\ \E j \in i..(e - 1) : w[j] = "LF" THEN 0 ELSE e
      after[i \in 1..(Len(w) + 1)] ==
        LET e == LineEnd(i)
        IN  IF e = 0 THEN 0 ELSE IF e = i THEN i + 2
            ELSE IF ValidTrailer(SubSeq(w, i, e - 1)) THEN after[e + 2] ELSE 0
      none == [payload |-> <<>>, tail |-> 1, next |-> 0, long |-> FALSE]
      chunks[i \in 1..(Len(w) + 1)] ==
        LET e == LineEnd(i)
            c == SizeOf(SubSeq(w, i, e - 1))
            d == e + 2 + c.size
            more == chunks[d + 2]
        IN  IF e = 0 \/ ~c.valid THEN none
            ELSE IF c.size = 0
            THEN [payload |-> <<>>, tail |-> e + 2, next |-> after[e + 2],
                  long |-> e - i > MaxSizeLine]
            ELSE IF d + 1 > Len(w) \/ w[d] # "CR" \/ w[d + 1] # "LF" THEN none
            ELSE [more EXCEPT !.payload = SubSeq(w, e + 2, d - 1) \o @,
                              !.long = @ \/ e - i > MaxSizeLine]
  IN  chunks[1]

WithinBounds(d) ==
  Len(d.payload) <= MaxBody /\ ~d.long /\ d.next - d.tail <= MaxHeader

(* Lines of an event stream, by the position of the break that ends them.   *)
Ends(p) == {i \in DOMAIN p : p[i] = "CR" \/ (p[i] = "LF" /\ ~(i > 1 /\ p[i - 1] = "CR"))}
LineStart(p, i) ==
  LET before == {j \in Ends(p) : j < i}
      j == Max(before)
  IN  IF before = {} THEN 1 ELSE IF p[j] = "CR" /\ p[j + 1] = "LF" THEN j + 2 ELSE j + 1
Text(p, i) ==
  LET s == LineStart(p, i)
  IN  SubSeq(p, IF s = 1 /\ i > 1 /\ p[1] = "BOM" THEN 2 ELSE s, i - 1)
Named(p, i, name) == Text(p, i) # <<>> /\ FieldName(Text(p, i)) = name
Blank(p) == {i \in Ends(p) : Text(p, i) = <<>>}

(* The lines of the event that line i belongs to, up to i.                  *)
Block(p, i) == {j \in Ends(p) : j <= i /\ \A b \in Blank(p) : ~(j <= b /\ b < i)}

LastOf(p, S, default) == IF S = {} THEN default ELSE Value(Text(p, Max(S)))
DataAt(p, i) == {j \in Block(p, i) : Named(p, j, "data:")}
TypeAt(p, i) == LastOf(p, {j \in Block(p, i) : Named(p, j, "event:")}, <<>>)
IdAt(p, i) == LastOf(p, {j \in Ends(p) : /\ j <= i /\ Named(p, j, "id:")
                                         /\ ~Contains(Text(p, j), "NUL")}, sentId)
RetryAt(p, i) == LET R == {j \in Block(p, i) : Named(p, j, "retry:") /\ IsDelay(Value(Text(p, j)))}
                 IN  IF R = {} THEN NoRetry ELSE Delay(Value(Text(p, Max(R))))
Joined(p, i) == FlattenSeq([k \in 1..Cardinality(DataAt(p, i)) |->
                  Value(Text(p, Ordered(DataAt(p, i), i)[k])) \o <<"LF">>])

EventAt(p, i) == [data |-> SubSeq(Joined(p, i), 1, Len(Joined(p, i)) - 1), id |-> IdAt(p, i),
                  retry |-> RetryAt(p, i),
                  type |-> IF TypeAt(p, i) = <<>> THEN <<"message">> ELSE TypeAt(p, i)]

(* Every blank line that ends a block with data is an event.                *)
EventEnds(p) == {i \in Blank(p) : DataAt(p, i) # {}}
EventsOf(p) == [k \in 1..Cardinality(EventEnds(p)) |-> EventAt(p, Ordered(EventEnds(p), Len(p))[k])]

(* A line, finished or not, or the fields of an event outgrow their limit,  *)
(* or a handler throws.                                                     *)
Overlong(p) ==
  \/ \E i \in Ends(p) : i - LineStart(p, i) > MaxLine
  \/ Len(p) + 1 - LineStart(p \o <<"CR">>, Len(p) + 1) > MaxLine /\ Ends(p \o <<"CR">>) # Ends(p)
  \/ \E i \in Ends(p) \ Blank(p) :
       Len(Joined(p, i)) + Len(TypeAt(p, i)) + Len(IdAt(p, i)) > MaxEvent
FailsOn(p) == Overlong(p) \/ \E i \in EventEnds(p) : EventAt(p, i).data \in Throwing

-----------------------------------------------------------------------------
(* The parser has seen everything the reader delivered.                     *)
Settled == bytes = <<>> /\ (at = "deliver" => fed)

(* A body that is accepted is the one the wire encodes, and what stays in   *)
(* the buffer and the transport is exactly what follows the message, which  *)
(* a pipelined or kept-alive connection reads next, however the bytes were  *)
(* cut.                                                                     *)
BodyExact ==
  outcome = "ok" =>
    LET rest == buffer \o unread
        d == Decode(wire, FALSE)
    IN  CASE framing = "chunked" -> d.next # 0 /\ body = d.payload /\ rest = From(wire, d.next)
          [] framing = "length" -> body = SubSeq(wire, 1, total) /\ Len(body) = total
                                   /\ rest = From(wire, total + 1)
          [] framing = "eof" -> body = wire
          [] framing = "none" -> body = <<>> /\ rest = wire

(* A well-formed chunked body within the limits is never refused, wherever  *)
(* a fragment ends: between CR and LF, at a line of exactly the limit,      *)
(* inside a trailer.                                                        *)
NoFalseReject ==
  framing = "chunked" =>
    LET d == Decode(wire, TRUE)
    IN  d.next # 0 /\ WithinBounds(d) =>
          outcome \notin {"protocol", "too_large"} /\ IsPrefix(body, d.payload)

(* The events dispatched are those of the whole stream read at once: data   *)
(* lines joined, the block's type, the last id, no event without data, and  *)
(* CR, LF and CRLF each one line break also when cut in two.                *)
EventsMatch ==
  Settled => IF failed # "none" THEN IsPrefix(events, EventsOf(body))
             ELSE events = EventsOf(body)

(* When the server ends or cuts a response, the reconnecting client asks    *)
(* for what follows the last event that was complete: it sends the id in    *)
(* force at the last blank line, which is where an event stream commits it, *)
(* and not the id of an event that finish() dropped.                        *)
ResumesAfterComplete ==
  resumeId # Open /\ outcome \in {"ok", "protocol"} /\ failed = "none" =>
    LET B == Blank(body)
    IN  resumeId = IF B = {} THEN sentId ELSE IdAt(body, Max(B))

(* The parser fails exactly when a line or the data, type and id of one     *)
(* event together exceed their limit or a handler throws: the limits apply  *)
(* across fragments and replaced fields are not counted twice.              *)
FailsExactly == Settled => (failed # "none" <=> FailsOn(body))
=============================================================================
