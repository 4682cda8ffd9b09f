----------------------------- MODULE MCSession -----------------------------
(***************************************************************************)
(* A small session: one tool in scope and one out of it, a scope that also *)
(* names a tool the child does not have, a TTL of one second at two ticks  *)
(* a second, so that the second boundary falls anywhere between the start  *)
(* and the timer.                                                          *)
(***************************************************************************)
EXTENDS Session

CONSTANTS listed, secret, ghost

MCChildTools == {listed, secret}
MCNames      == {listed, secret, ghost}
MCScope      == {listed, ghost}
=============================================================================
