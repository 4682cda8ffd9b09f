------------------------------ MODULE MCStats ------------------------------
(* Two visitors and a session, over three relay processes. *)
EXTENDS Stats

CONSTANTS v1, v2, a1

MCUsage == [a \in Agents |-> [calls |-> 2, blocks |-> 1]]
=============================================================================
