-------------------------- MODULE MCWebSocketHandle -------------------------
(* WebSocketHandle on small instances.                                     *)
EXTENDS WebSocketHandle

=============================================================================
