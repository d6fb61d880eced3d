--------------------------- MODULE MCEventStream ---------------------------
(* Event streams of a few tokens, whole or in chunks, and every chunked     *)
(* message that differs from a well-formed one in one token.                *)
EXTENDS EventStream

MCTokens == {"CR", "LF", "0", "1", "2", "3", "4", "5", "6", ":", ";", " ", "v", "F",
             "BOM", "NUL", "data:", "event:", "id:", "retry:", "data", "id"}

Crlf == <<"CR", "LF">>

(* Ways to cut s in non-empty pieces.                                       *)
Cuts(s) == {[k \in 1..(Cardinality(C) + 1) |->
               LET c == <<0>> \o Ordered(C, Len(s)) \o <<Len(s)>> IN SubSeq(s, c[k] + 1, c[k + 1])] :
              C \in SUBSET (1..(Len(s) - 1))}
Size(n) == CHOOSE d \in DOMAIN Digit : Digit[d] = n
Chunks(pieces) == FlattenSeq([k \in DOMAIN pieces |->
                    <<Size(Len(pieces[k]))>> \o Crlf \o pieces[k] \o Crlf])
Chunked(w) == [framing |-> "chunked", total |-> 0, wire |-> w]

Event == <<"data:", "v", "CR", "LF", "CR", "LF">>
(* ... and two chunks that together meet or exceed the limit of a body.     *)
Encoded == {Chunks(c) \o <<"0">> \o Crlf \o Crlf :
              c \in Cuts(Event) \cup {<<Event, Tail(Event)>>, <<Event, Event>>}}

(* Extension, trailer and the bytes of a next message.                      *)
Small == {<<"2", ";", "v">> \o Crlf \o <<"v", "LF">> \o Crlf \o <<"0">> \o Crlf
            \o <<"v", ":", "v">> \o Crlf \o Crlf \o <<"v">>,
          <<"1">> \o Crlf \o <<"LF">> \o Crlf \o <<"0">> \o Crlf
            \o <<"v", ":">> \o Crlf \o <<"v", ":", " ">> \o Crlf \o Crlf}
Edits(w) == {RemoveAt(w, i) : i \in DOMAIN w} \cup
            {[w EXCEPT ![i] = t] : i \in DOMAIN w, t \in {"CR", "LF", "0", "3", ":", ";", "F"}}
Edited == UNION {Edits(w) : w \in Small}

Plain == BoundedSeq({"CR", "LF", "data:", "v"}, 5) \cup
         BoundedSeq({"LF", "data:", "event:", "id:", "v"}, 5)
Lines == {f \o <<"LF">> : f \in {<<"data:", " ", "v">>, <<"id:", "v", "v">>, <<"id:", "NUL">>,
            <<"retry:", "0", "6">>, <<"retry:", "v">>, <<"event:", "v", "v">>, <<":", "v">>, <<"BOM">>,
            <<"BOM", "data:">>, <<"BOM", "data">>, <<"data">>, <<"id">>, <<>>}}
Blocks == {a \o b \o c : a, b, c \in Lines}

MCMessages ==
  {Chunked(w) : w \in Encoded \cup Small \cup Edited} \cup
  {[framing |-> "eof", total |-> 0, wire |-> w] : w \in Plain \cup Blocks} \cup
  {[framing |-> "length", total |-> n, wire |-> Event] : n \in 0..12} \cup
  {[framing |-> "none", total |-> 0, wire |-> Event]}

MCIds == {<<"F">>}
MCThrowing == {<<"v", "v">>}
=============================================================================
