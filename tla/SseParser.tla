------------------------------ MODULE SseParser ------------------------------
(***************************************************************************)
(* SseParser::Impl (src/src/sse.cpp): an incremental parser of event       *)
(* streams.  feed() is called with chunks cut anywhere and keeps a partial *)
(* line, a partial event and a pending LF between two calls.               *)
(*                                                                         *)
(* Bytes are tokens; a field name with its colon is one token ("data:"),   *)
(* a line that is a name alone has a token too ("data"), and ":" begins a  *)
(* comment.  Limits count tokens.                                          *)
(***************************************************************************)
EXTENDS Naturals, Sequences, SequencesExt

CONSTANTS
  MaxLine,   \* SseParserOptions::max_line_size
  MaxEvent,  \* SseParserOptions::max_event_size
  Throwing   \* data of the events on which the user's handler throws

ASSUME ParserAssumption == MaxLine \in Nat /\ MaxEvent \in Nat

VARIABLES
  bytes,      \* what feed() has still to look at
  line,       \* the partial line
  data, type, \* the partial event
  lastId,     \* last_id
  retry, eventRetry, \* retry_delay, event_retry: a delay or NoRetry
  firstLine, skipLf,
  failed,     \* the error feed() keeps returning
  events      \* what the handlers were given

parserVars == <<bytes, line, data, type, lastId, retry, eventRetry, firstLine,
                skipLf, failed, events>>

NoRetry == <<"none">>
Breaks  == {"CR", "LF"}
Digits  == {"0", "1", "2", "3", "4", "5", "6"}

ParserTypes(Tokens) ==
  /\ {bytes, line, data, type, lastId} \subseteq Seq(Tokens)
  /\ Len(line) <= MaxLine
  /\ retry \in Seq(Digits) \cup {NoRetry} /\ eventRetry \in {retry, NoRetry}
  /\ firstLine \in BOOLEAN /\ skipLf \in BOOLEAN
  /\ failed \in {"none", "too_large", "internal"}

ParserInit(id) ==
  /\ bytes = <<>> /\ line = <<>> /\ data = <<>> /\ type = <<>> /\ lastId = id
  /\ retry = NoRetry /\ eventRetry = NoRetry
  /\ firstLine = TRUE /\ skipLf = FALSE /\ failed = "none" /\ events = <<>>

-----------------------------------------------------------------------------
Rest(s, i) == SubSeq(s, i, Len(s))

(* A name without a colon is a field with an empty value.                   *)
NamedBy == [data |-> "data:", event |-> "event:", id |-> "id:", retry |-> "retry:"]
FieldName(text) == IF Len(text) = 1 /\ Head(text) \in DOMAIN NamedBy
                   THEN NamedBy[Head(text)] ELSE Head(text)

(* The value of a field: one leading space is not part of it.               *)
Value(text) == IF Len(text) > 1 /\ text[2] = " " THEN Rest(text, 3) ELSE Tail(text)

(* std::from_chars over the whole value: leading zeros do not count.        *)
Delay(v) == Rest(v, SelectInSeq(v \o <<"1">>, LAMBDA d : d # "0"))
IsDelay(v) == v # <<>> /\ ToSet(v) \subseteq Digits

(* Mutant: an event of exactly the limit is refused.                        *)
FitsStrict(d, t, i) == d + t + i < MaxEvent

(* exceeds_event_limit, negated: data, type and id share one limit.         *)
Fits(d, t, i) == d + t + i <= MaxEvent

(* Only an event with data is dispatched.                                   *)
HasData == data # <<>>

(* A blank line: dispatch the event and start the next one.                 *)
Dispatch ==
  /\ type' = <<>> /\ eventRetry' = NoRetry /\ data' = <<>>
  /\ IF HasData
     THEN LET text == SubSeq(data, 1, Len(data) - 1)
          IN  /\ events' = Append(events,
                   [data |-> text, id |-> lastId, retry |-> eventRetry,
                    type |-> IF type = <<>> THEN <<"message">> ELSE type])
              /\ failed' = IF text \in Throwing THEN "internal" ELSE failed
     ELSE UNCHANGED <<events, failed>>
  /\ UNCHANGED <<lastId, retry>>

(* A field that would take the event beyond its limit fails the stream.     *)
Store(fits, assignment) ==
  \/ fits /\ assignment /\ UNCHANGED failed
  \/ ~fits /\ failed' = "too_large" /\ UNCHANGED <<data, type, lastId>>

Field(name, v) ==
  \/ /\ name = "data:"
     /\ Store(Fits(Len(data) + Len(v) + 1, Len(type), Len(lastId)),
              data' = data \o v \o <<"LF">> /\ UNCHANGED <<type, lastId>>)
     /\ UNCHANGED <<retry, eventRetry>>
  \/ /\ name = "event:"
     /\ Store(Fits(Len(data), Len(v), Len(lastId)),
              type' = v /\ UNCHANGED <<data, lastId>>)
     /\ UNCHANGED <<retry, eventRetry>>
  \/ /\ name = "id:" /\ ~Contains(v, "NUL")
     /\ Store(Fits(Len(data), Len(type), Len(v)),
              lastId' = v /\ UNCHANGED <<data, type>>)
     /\ UNCHANGED <<retry, eventRetry>>
  \/ /\ name = "retry:" /\ IsDelay(v)
     /\ retry' = Delay(v) /\ eventRetry' = Delay(v)
     /\ UNCHANGED <<data, type, lastId, failed>>
  \/ /\ \/ name \notin {"data:", "event:", "id:", "retry:"}
        \/ name = "id:" /\ Contains(v, "NUL")
        \/ name = "retry:" /\ ~IsDelay(v)
     /\ UNCHANGED <<data, type, lastId, retry, eventRetry, failed>>

(* process_line: a byte order mark may precede the first line.              *)
ProcessLine(whole) ==
  LET text == IF firstLine /\ whole # <<>> /\ Head(whole) = "BOM" THEN Tail(whole) ELSE whole
  IN  /\ firstLine' = FALSE
      /\ \/ text = <<>> /\ Dispatch
         \/ text # <<>> /\ Field(FieldName(text), Value(text)) /\ UNCHANGED events

(* Mutant: the LF of a line break cut in two counts as a line of its own.   *)
SkipNothing == bytes

(* The LF of a CRLF whose CR ended the last line.                           *)
Skipped == IF skipLf /\ Head(bytes) = "LF" THEN Tail(bytes) ELSE bytes

(* The limit of a line counts what earlier chunks left of it.               *)
LineFits(count) == Len(line) + count <= MaxLine

(* One turn of feed()'s loop: up to the next line break, or to the end of   *)
(* the chunk.                                                               *)
FeedStep ==
  /\ bytes # <<>>
  /\ LET b == Skipped
         end == SelectInSeq(b, LAMBDA t : t \in Breaks)
         count == IF end = 0 THEN Len(b) ELSE end - 1
         whole == line \o SubSeq(b, 1, count)
     IN  \/ /\ b = <<>> /\ bytes' = <<>> /\ skipLf' = FALSE
            /\ UNCHANGED <<line, data, type, lastId, retry, eventRetry, firstLine,
                           failed, events>>
         \/ /\ b # <<>> /\ ~LineFits(count)
            /\ failed' = "too_large" /\ bytes' = <<>> /\ skipLf' = FALSE
            /\ UNCHANGED <<line, data, type, lastId, retry, eventRetry, firstLine, events>>
         \/ /\ b # <<>> /\ LineFits(count) /\ end = 0
            /\ line' = whole /\ bytes' = <<>> /\ skipLf' = FALSE
            /\ UNCHANGED <<data, type, lastId, retry, eventRetry, firstLine, failed, events>>
         \/ /\ end # 0 /\ LineFits(count)
            /\ ProcessLine(whole)
            /\ \/ /\ failed' = "none" /\ line' = <<>>
                  /\ skipLf' = (b[end] = "CR") /\ bytes' = Rest(b, end + 1)
               \/ /\ failed' # "none" /\ line' = (IF line = <<>> THEN <<>> ELSE whole)
                  /\ skipLf' = FALSE /\ bytes' = <<>>

(* feed(): refused once the parser has failed.                              *)
Feed(chunk) ==
  /\ bytes = <<>> /\ failed = "none" /\ bytes' = chunk
  /\ UNCHANGED <<line, data, type, lastId, retry, eventRetry, firstLine, skipLf,
                 failed, events>>

(* finish(): the end of the stream discards the partial line and event, but *)
(* not the id and the delay that came with them.                            *)
Finish ==
  /\ bytes = <<>>
  /\ IF failed = "none"
     THEN /\ line' = <<>> /\ data' = <<>> /\ type' = <<>>
          /\ eventRetry' = NoRetry /\ skipLf' = FALSE
     ELSE UNCHANGED <<line, data, type, eventRetry, skipLf>>
  /\ UNCHANGED <<bytes, lastId, retry, firstLine, failed, events>>
=============================================================================
