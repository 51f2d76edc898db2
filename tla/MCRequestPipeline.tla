-------------------------- MODULE MCRequestPipeline --------------------------
(* Small instances of RequestPipeline over the real table of use cases.    *)
EXTENDS RequestPipeline, Ports

(* Every use case, one request at a time, every status of the core. *)
AllOps     == DOMAIN AllCases
AllTable   == AllCases
AnyRequest ==
    { q \in RequestRecord : q.surface \in AllCases[q.op].surfaces }
AnyError   == StatusCode \ {"OK"}

(* Two requests of two people at once, the core's memberships moving: a    *)
(* case of every kind of gate, and one of every kind of plan.              *)
RaceOps      == {"create_invite", "accept_invite"}
RaceTable    == [op \in RaceOps |-> AllCases[op]]
RaceRequests ==
    { q \in RequestRecord :
        /\ q.cred \in User /\ q.body = "ok"
        /\ q.surface = "grpc" }
RaceErrors   == {"NOT_FOUND"}

(* Requests and people are interchangeable in every definition above. *)
Symmetric == Permutations(Request) \cup Permutations(User)
=============================================================================
