------------------------------ MODULE MCKeyCache ------------------------------
(* Instances of KeyCache: two clients that may share a key or not.         *)
EXTENDS KeyCache

Tasks == {"t1", "t2"}
Kids  == {"k1", "k2"}
=============================================================================
