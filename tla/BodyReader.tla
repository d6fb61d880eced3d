----------------------------- MODULE BodyReader -----------------------------
(***************************************************************************)
(* read_body and read_line (src/src/protocol.cpp): the body of an HTTP     *)
(* message, framed by chunks, by its length or by the end of the stream,   *)
(* read from a transport that cuts the bytes anywhere, and delivered block *)
(* by block to a consumer that may refuse one.                             *)
(*                                                                         *)
(* Bytes are tokens: "CR" and "LF", the digits, ":" and ";", and others    *)
(* that stand for themselves.  Limits count tokens.  Tokens of several     *)
(* bytes stand only in bodies.                                             *)
(***************************************************************************)
EXTENDS Naturals, Sequences, SequencesExt

CONSTANTS
  MaxSizeLine, \* the 16 KiB a chunk size line may have
  MaxHeader,   \* HttpReadOptions::max_header_size, for the trailers
  MaxBody      \* HttpReadOptions::max_body_size

ASSUME ReaderAssumption == MaxSizeLine \in Nat /\ MaxHeader \in Nat /\ MaxBody \in Nat

VARIABLES
  framing,   \* ParsedHead::chunked, content_length, body_until_eof, or none
  unread,    \* bytes the transport has still to give, then end of file
  buffer,    \* ReadBuffer: bytes read and not consumed
  at,        \* where the coroutine stands
  left,      \* remaining bytes of the chunk or of the body
  received,  \* bytes delivered so far
  trailers,  \* trailer_bytes
  out,       \* the block the consumer is working on
  body,      \* everything the consumer was given
  outcome    \* how read_body ended

readerVars == <<framing, unread, buffer, at, left, received, trailers, out, body, outcome>>

Outcomes == {"none", "ok", "protocol", "too_large", "cancelled", "failed"}

ReaderTypes(Tokens) ==
  /\ framing \in {"chunked", "length", "eof", "none"}
  /\ {unread, buffer, out, body} \subseteq Seq(Tokens)
  /\ at \in {"start", "size", "trailer", "data", "crlf", "fixed", "stream", "deliver",
             "done"}
  /\ left \in Nat /\ received \in 0..MaxBody /\ trailers \in 0..MaxHeader
  /\ outcome \in Outcomes

-----------------------------------------------------------------------------
(* Where "\r\n" begins in s, or 0.                                          *)
CrlfAt(s) ==
  SelectInSubSeq([i \in 1..Len(s) |-> i < Len(s) /\ s[i] = "CR" /\ s[i + 1] = "LF"],
                 1, Len(s), LAMBDA hit : hit)

(* Mutant: a line of exactly the limit whose CR is the last byte is refused.*)
LineStateStrict(s, max) ==
  IF CrlfAt(s) # 0 THEN IF CrlfAt(s) - 1 > max THEN "bad" ELSE "line"
  ELSE IF Contains(s, "LF") \/ Len(s) > max THEN "bad" ELSE "more"

(* read_line's loop on what is buffered: a line, an error, or more to read. *)
LineState(s, max) ==
  IF CrlfAt(s) # 0 THEN IF CrlfAt(s) - 1 > max THEN "bad" ELSE "line"
  ELSE IF Contains(s, "LF") THEN "bad"
  ELSE IF Len(s) > max /\ (Len(s) - max # 1 \/ Last(s) # "CR") THEN "bad" ELSE "more"

Line(s) == SubSeq(s, 1, CrlfAt(s) - 1)
From(s, i) == SubSeq(s, i, Len(s))

Digit == [d \in {"0", "1", "2", "3", "4", "5", "6"} |->
            CHOOSE n \in 0..6 : <<"0", "1", "2", "3", "4", "5", "6">>[n + 1] = d]

(* std::from_chars over the whole of s.                                     *)
IsNumeral(s) == s # <<>> /\ ToSet(s) \subseteq DOMAIN Digit
Numeral(base, s) == FoldLeft(LAMBDA n, d : n * base + Digit[d], 0, s)

(* valid_header_value, valid_header_name and trim: control bytes are not    *)
(* part of a value, yet trim drops them at its ends like any white space.   *)
ValidValue(s) == ToSet(s) \cap {"CR", "LF", "NUL"} = {}
ValidName(s) == s # <<>> /\ ValidValue(s) /\ ToSet(s) \cap {";", ":", " ", "BOM"} = {}
Trim(s) ==
  LET text == {i \in DOMAIN s : s[i] \notin {"CR", "LF", " "}}
  IN  IF text = {} THEN <<>> ELSE SubSeq(s, Min(text), Max(text))

(* A field that may not appear in a trailer (forbidden_trailers).           *)
Forbidden(name) == name = <<"F">>

(* The chunk size of a size line, its extension checked.                    *)
SizeOf(line) ==
  LET semi == SelectInSeq(line, LAMBDA t : t = ";")
      digits == IF semi = 0 THEN line ELSE SubSeq(line, 1, semi - 1)
      ext == From(line, semi + 1)
  IN  [valid |-> /\ semi # 0 => ext # <<>> /\ ValidValue(ext)
                 /\ IsNumeral(digits),
       size |-> IF IsNumeral(digits) THEN Numeral(16, digits) ELSE 0]

(* The checks a trailer line must pass.                                     *)
ValidTrailer(line) ==
  LET colon == SelectInSeq(line, LAMBDA t : t = ":")
      name == SubSeq(line, 1, colon - 1)
  IN  /\ colon # 0 /\ ValidName(name) /\ ValidValue(Trim(From(line, colon + 1)))
      /\ ~Forbidden(name)

-----------------------------------------------------------------------------
End(o) == at' = "done" /\ outcome' = o

(* The head is known: choose the framing, or refuse a length beyond the     *)
(* limit.  What was read beyond the head is already buffered.               *)
Begin ==
  /\ at = "start"
  /\ \/ framing = "chunked" /\ at' = "size" /\ UNCHANGED outcome
     \/ framing = "length" /\ left > MaxBody /\ End("too_large")
     \/ framing = "length" /\ left <= MaxBody /\ at' = "fixed" /\ UNCHANGED outcome
     \/ framing = "eof" /\ at' = "stream" /\ UNCHANGED outcome
     \/ framing = "none" /\ End("ok")
  /\ UNCHANGED <<framing, unread, buffer, left, received, trailers, out, body>>

(* timed_read: the coroutine is suspended until the transport gives bytes.  *)
Wants ==
  CASE at = "size"    -> LineState(buffer, MaxSizeLine) = "more"
    [] at = "trailer" -> LineState(buffer, MaxHeader) = "more"
    [] at \in {"data", "fixed"} -> buffer = <<>> /\ left # 0
    [] at = "stream"  -> buffer = <<>>
    [] at = "crlf"    -> Len(buffer) < 2
    [] OTHER          -> FALSE

(* n bytes arrive.  That a block read while nothing is buffered goes to the *)
(* consumer without being copied makes no difference here.                  *)
Read(n) ==
  /\ Wants /\ n \in 1..Len(unread)
  /\ buffer' = buffer \o SubSeq(unread, 1, n) /\ unread' = From(unread, n + 1)
  /\ UNCHANGED <<framing, at, left, received, trailers, out, body, outcome>>

(* End of file ends a body framed by it, and truncates any other.           *)
EofEnds == End(IF at = "stream" THEN "ok" ELSE "protocol")

ReadEof ==
  /\ Wants /\ unread = <<>> /\ EofEnds
  /\ UNCHANGED <<framing, unread, buffer, left, received, trailers, out, body>>

(* A timeout, a deadline, a cancellation or a transport error.              *)
ReadFails ==
  /\ Wants /\ End("failed")
  /\ UNCHANGED <<framing, unread, buffer, left, received, trailers, out, body>>

(* The size line of a chunk.  (What is left in the buffer after an error is *)
(* never read: the connection is closed.)                                   *)
ChunkSize ==
  /\ at = "size" /\ ~Wants
  /\ LET chunk == SizeOf(Line(buffer))
     IN  \/ /\ LineState(buffer, MaxSizeLine) = "bad" \/ ~chunk.valid
            /\ End("protocol") /\ UNCHANGED <<buffer, left>>
         \/ /\ LineState(buffer, MaxSizeLine) = "line" /\ chunk.valid
            /\ buffer' = From(buffer, CrlfAt(buffer) + 2)
            /\ \/ /\ chunk.size = 0 /\ at' = "trailer" /\ UNCHANGED <<left, outcome>>
               \/ /\ chunk.size + received > MaxBody /\ End("too_large") /\ UNCHANGED left
               \/ /\ chunk.size # 0 /\ chunk.size + received <= MaxBody
                  /\ left' = chunk.size /\ at' = "data" /\ UNCHANGED outcome
  /\ UNCHANGED <<framing, unread, received, trailers, out, body>>

(* Trailer lines up to the empty one.                                       *)
Trailer ==
  /\ at = "trailer" /\ ~Wants
  /\ LET line == Line(buffer)
         total == trailers + Len(line) + 2
     IN  \/ /\ \/ LineState(buffer, MaxHeader) = "bad" \/ total > MaxHeader
               \/ line # <<>> /\ ~ValidTrailer(line)
            /\ End("protocol") /\ UNCHANGED <<buffer, trailers>>
         \/ /\ LineState(buffer, MaxHeader) = "line" /\ total <= MaxHeader
            /\ buffer' = From(buffer, CrlfAt(buffer) + 2) /\ trailers' = total
            /\ \/ line = <<>> /\ End("ok")
               \/ ValidTrailer(line) /\ UNCHANGED <<at, outcome>>
  /\ UNCHANGED <<framing, unread, left, received, out, body>>

(* A block is what is buffered, up to the end of the chunk or of the body.  *)
BlockSize == IF at = "stream" \/ Len(buffer) < left THEN Len(buffer) ELSE left

(* deliver: cancellation and deadline, the limit, then the consumer's turn. *)
Deliver ==
  /\ at \in {"data", "fixed", "stream"} /\ buffer # <<>> /\ (at = "stream" \/ left # 0)
  /\ \/ /\ End("failed") \/ (received + BlockSize > MaxBody /\ End("too_large"))
        /\ UNCHANGED <<buffer, left, received, out, body>>
     \/ /\ received + BlockSize <= MaxBody /\ at' = "deliver" /\ UNCHANGED outcome
        /\ out' = SubSeq(buffer, 1, BlockSize) /\ body' = body \o out'
        /\ buffer' = From(buffer, BlockSize + 1)
        /\ received' = received + BlockSize
        /\ left' = IF at = "stream" THEN left ELSE left - BlockSize
  /\ UNCHANGED <<framing, unread, trailers>>

(* The consumer, or a progress callback, has accepted the block.            *)
Accepted ==
  /\ at = "deliver" /\ out' = <<>>
  /\ at' = CASE framing = "chunked" -> IF left = 0 THEN "crlf" ELSE "data"
             [] framing = "length" -> "fixed"
             [] framing = "eof" -> "stream"
  /\ UNCHANGED <<framing, unread, buffer, left, received, trailers, body, outcome>>

(* It has refused it or thrown, or the deadline has passed meanwhile.       *)
Refused ==
  /\ at = "deliver" /\ out' = <<>> /\ (End("cancelled") \/ End("failed"))
  /\ UNCHANGED <<framing, unread, buffer, left, received, trailers, body>>

(* Mutant: does not look at the two bytes after a chunk.                    *)
CrlfAssumed == TRUE

(* The two bytes after a chunk.                                             *)
CrlfFound == buffer[1] = "CR" /\ buffer[2] = "LF"

ChunkEnd ==
  /\ at = "crlf" /\ ~Wants
  /\ \/ CrlfFound /\ at' = "size" /\ buffer' = From(buffer, 3) /\ UNCHANGED outcome
     \/ ~CrlfFound /\ End("protocol") /\ UNCHANGED buffer
  /\ UNCHANGED <<framing, unread, left, received, trailers, out, body>>

(* A body of known length is complete.                                      *)
LengthEnd ==
  /\ at = "fixed" /\ left = 0 /\ End("ok")
  /\ UNCHANGED <<framing, unread, buffer, left, received, trailers, out, body>>

ReaderStep == \/ Begin \/ ReadEof \/ ReadFails \/ ChunkSize \/ Trailer \/ Deliver
              \/ ChunkEnd \/ LengthEnd \/ \E n \in 1..Len(unread) : Read(n)
=============================================================================
