------------------------------- MODULE MCPeer -------------------------------
(***************************************************************************)
(* A terminal and a telnet client, with input of up to twice what termkey  *)
(* can buffer.                                                             *)
(***************************************************************************)
EXTENDS Peer

MCIOs == {"ecma48", "telnet"}
MCTelnet == {"telnet"}
=============================================================================
