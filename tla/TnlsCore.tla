----------------------------- MODULE TnlsCore ------------------------------
(***************************************************************************)
(* The pure rules of tnls-core: what a token proves (token.rs) and what a  *)
(* verified holder may do (scope.rs).  Signatures are perfect: a token is  *)
(* told apart only by whether it decodes and which secret signed it.       *)
(***************************************************************************)
EXTENDS Integers

\* "minted": signed by this session's secret; "forged": decodes, but signed by
\* another; "malformed": no dot, or a half that is not base64url.
TokenKinds == {"minted", "forged", "malformed"}

\* verify: decode, then the signature, then the expiry.  A minted payload
\* always parses back into the claims it was minted from.
Verify(token, claims, now) ==
  CASE token = "malformed" -> "malformed"
    [] token = "forged"    -> "bad_signature"
    [] token = "minted"    -> IF claims.exp <= now THEN "expired" ELSE "ok"

Allows(claims, tool) == tool \in claims.scope

\* Mutants: the whole scope is listed, or everything the child has.
FilterToolsScope(all, scope) == scope
FilterToolsAll(all, scope)   == all

\* filter_tools: the advertised tools whose name is in scope.
FilterTools(all, scope) == {t \in all : t \in scope}

\* decide_call: the expiry is looked at before the scope.
DecideCall(claims, now, tool) ==
  IF now >= claims.exp THEN "expired"
  ELSE IF ~Allows(claims, tool) THEN "out_of_scope"
  ELSE "forward"
=============================================================================
