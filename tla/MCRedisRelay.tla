---------------------------- MODULE MCRedisRelay ---------------------------
(***************************************************************************)
(* Small instances of RedisRelay, side by side in one run: of six sockets  *)
(* on two processes, which cast comes is decided by who comes first.       *)
(***************************************************************************)
EXTENDS RedisRelay

CONSTANTS a1, a2, a3, v1,   \* of t1: a1 and a2 on r1, a3 and v1 on r2
          a4, v4,           \* of t2, both on r1
          r1, r2, t1, t2

MCConns  == {a1, a2, a3, v1, a4, v4}
MCIdOf   == [c \in MCConns |-> IF c \in {a4, v4} THEN t2 ELSE t1]
MCRoleOf == [c \in MCConns |-> IF c \in {v1, v4} THEN "viewer" ELSE "agent"]
MCInstOf == [c \in MCConns |-> IF c \in {a3, v1} THEN r2 ELSE r1]

Cast(who, frames, dies) == [who |-> who, frames |-> frames, dies |-> dies]

\* An agent and its successor, with their viewer elsewhere or a third agent there,
\* on a process that may die; agent and viewer on two processes, and next to each
\* other; and agents of two tunnels on a process with room for one.
MCCasts == {Cast({a1, a2, v1}, 0, {r1}), Cast({a1, a2, a3}, 0, {r1}),
            Cast({a1, v1}, 2, {}), Cast({a4, v4}, 2, {}), Cast({a1, a4}, 0, {})}
=============================================================================
