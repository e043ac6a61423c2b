-------------------------- MODULE MCWebSocketGateway --------------------------
(* WebSocketGateway on small instances, with its mutants.                    *)
EXTENDS WebSocketGateway
=============================================================================
