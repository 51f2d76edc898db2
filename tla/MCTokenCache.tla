----------------------------- MODULE MCTokenCache -----------------------------
(* The smallest times under which a call can take a while, a token can be  *)
(* old when it comes, and a cache can be found fresh, stale and half       *)
(* written: SKEW is exactly what the assumption asks for.                  *)
EXTENDS TokenCache, TLC

CONSTANTS c1, c2, c3

Calls == {c1, c2, c3}
Symmetry == Permutations(Calls)
=============================================================================
