--------------------------- MODULE MCHttpExchange ---------------------------
(* Two requests of one client; the body limit of the server is one unit.    *)
EXTENDS HttpExchange

Ask(method, version, body, size, keep, expect) ==
  [method |-> method, version |-> version, body |-> body, size |-> size, keep |-> keep,
   expect |-> expect]
Reply(kind, status, size) == [kind |-> kind, status |-> status, size |-> size]

MCRequests == {
  Ask("GET", 11, "buffered", 0, TRUE, FALSE),
  Ask("HEAD", 11, "buffered", 0, TRUE, FALSE),
  Ask("HEAD", 11, "buffered", 2, TRUE, FALSE),
  Ask("GET", 10, "buffered", 0, TRUE, FALSE),
  Ask("POST", 11, "buffered", 2, TRUE, FALSE),
  Ask("POST", 11, "length", 1, TRUE, TRUE),
  Ask("POST", 11, "chunked", 0, TRUE, FALSE),
  Ask("POST", 10, "chunked", 0, FALSE, FALSE)}

MCAnswers == {
  Reply("buffered", 200, 0), Reply("buffered", 200, 1), Reply("buffered", 204, 1),
  Reply("stream", 200, 1), Reply("file", 200, 1), Reply("missing", 200, 1)}
=============================================================================
