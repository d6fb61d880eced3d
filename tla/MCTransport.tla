----------------------------- MODULE MCTransport -----------------------------
(* One coroutine that connects and a second one that shares the connection. *)
EXTENDS Transport

CONSTANTS c1, c2
=============================================================================
