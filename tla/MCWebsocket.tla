---------------------------- MODULE MCWebsocket ----------------------------
(***************************************************************************)
(* Instances of the websocket server.                                      *)
(***************************************************************************)
EXTENDS Websocket
=============================================================================
