------------------------------ MODULE MCWsHub ------------------------------
(***************************************************************************)
(* WsHub on small instances.                                               *)
(***************************************************************************)
EXTENDS WsHub
=============================================================================
