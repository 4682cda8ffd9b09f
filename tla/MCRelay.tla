------------------------------ MODULE MCRelay ------------------------------
(***************************************************************************)
(* Small instances of Relay.  One tunnel used twice by each role is where  *)
(* sides overlap, leave and are replaced; two tunnels under MAX_TUNNELS 1  *)
(* is where capacity matters.                                              *)
(***************************************************************************)
EXTENDS Relay, TLC

CONSTANTS a1, a2, v1, v2, t1, t2

\* Two agents and two viewers of one tunnel.
OneTunnelConns  == {a1, a2, v1, v2}
OneTunnelIdOf   == [c \in OneTunnelConns |-> t1]
OneTunnelRoleOf == [c \in OneTunnelConns |-> IF c \in {a1, a2} THEN "agent" ELSE "viewer"]

\* An agent and two viewers on one tunnel, another agent on a second tunnel.
TwoTunnelConns  == {a1, a2, v1, v2}
TwoTunnelIdOf   == [c \in TwoTunnelConns |-> IF c = a2 THEN t2 ELSE t1]
TwoTunnelRoleOf == OneTunnelRoleOf

\* Sockets with the same id and role are interchangeable.
OneTunnelSymmetry == Permutations({a1, a2}) \cup Permutations({v1, v2})

=============================================================================
