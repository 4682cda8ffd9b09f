------------------------------ MODULE MCTunnel ------------------------------
(***************************************************************************)
(* A headless viewer and another client of the same link, in either order. *)
(***************************************************************************)
EXTENDS Tunnel

CONSTANTS h1, o1

MCTokenOf == [v \in Viewers |-> "minted"]
=============================================================================
