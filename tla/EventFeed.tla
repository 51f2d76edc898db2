------------------------------ MODULE EventFeed ------------------------------
(***************************************************************************)
(* What the live streams promise a client (app/routers/stream.py,          *)
(* "Resuming"): the log of the core's events, read in order, each event    *)
(* once and none left out, from the cursor the client started with.        *)
(***************************************************************************)
EXTENDS Naturals

VARIABLES
    log,    \* how many events the core's log holds; their ids are 1 .. log
    seen,   \* the last one the client has processed; 0 when it has no cursor
    got     \* how many it has processed

vars == <<log, seen, got>>

Init == log \in Nat /\ seen \in 0 .. log /\ got = 0

Publish == log' = log + 1 /\ UNCHANGED <<seen, got>>

(* Without a cursor the feed starts where the core chooses; from then on   *)
(* the next event is the only one that may come.                           *)
Read ==
    /\ IF seen = 0 THEN seen' \in 1 .. log ELSE seen < log /\ seen' = seen + 1
    /\ got' = got + 1
    /\ UNCHANGED log

Next == Publish \/ Read

Spec == Init /\ [][Next]_vars
=============================================================================
