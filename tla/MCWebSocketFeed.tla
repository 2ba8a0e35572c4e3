--------------------------- MODULE MCWebSocketFeed ---------------------------
(* Instance of WebSocketFeed for TLC.                                      *)
EXTENDS WebSocketFeed
=============================================================================
