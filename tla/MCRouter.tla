-------------------------------- MODULE MCRouter -------------------------------
(***************************************************************************)
(* Two connections and two descriptors: both clients are there at once, or *)
(* the second is given the descriptor of the first after a reset.  One     *)
(* kind of object can be configured.                                       *)
(***************************************************************************)
EXTENDS Router

MCConns == {1, 2}
MCFds == {4, 5}
MCObjects == {"link"}
=============================================================================
