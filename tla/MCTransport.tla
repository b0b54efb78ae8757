---------------------------- MODULE MCTransport ----------------------------
(* Transport for TLC: its constants are numbers, which the configuration gives. *)
EXTENDS Transport
=============================================================================
