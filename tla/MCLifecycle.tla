------------------------------ MODULE MCLifecycle ------------------------------
(* Three calls of any kind; the longest outlives the grace, as the deadline  *)
(* of ten seconds outlives the five of GRACE_S.                            *)
EXTENDS Lifecycle

Calls == {"c1", "c2", "c3"}
=============================================================================
