------------------------- MODULE MCWebSocketChannel -------------------------
(* WebSocketChannel with the bounds of WebSocket.cfg.                       *)
EXTENDS WebSocketChannel
=============================================================================
