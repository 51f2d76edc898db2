------------------------------- MODULE Lifecycle -------------------------------
(***************************************************************************)
(* The life of the process: main.py's lifespan around the channel to the   *)
(* core (CoreClient.start, channel, stop), the gRPC port (GrpcServer.start *)
(* and stop with its grace) and the tracing, with requests of both ports   *)
(* in flight all along.                                                    *)
(*                                                                         *)
(* uvicorn and grpc.aio are external.  uvicorn serves HTTP between the two *)
(* halves of lifespan: at the signal it takes no more requests, lets those *)
(* in flight end, however long that takes, and then resumes lifespan;      *)
(* sse-starlette ends its responses at the signal.  grpc.aio's stop(grace) *)
(* takes no more calls, waits for those in flight, and cancels at the end  *)
(* of the grace the ones that are left.                                    *)
(***************************************************************************)
EXTENDS Naturals

CONSTANTS
    Call,     \* the requests and calls that may come
    GRACE_S,  \* GrpcServer's grace, in ticks
    Limit     \* bound: the longest a unary call may take, in ticks

ASSUME GraceAssumption == GRACE_S \in Nat /\ Limit \in Nat \ {0}

(* A unary call is over when its deadlines are; a stream when somebody     *)
(* ends it.                                                                *)
Unary   == {"rest", "grpc"}
Streams == {"sse", "watch"}
Http    == {"rest", "sse"}

VARIABLES
    phase,         \* where lifespan is
    grpc_enabled,  \* settings.grpc_enabled
    channel,       \* core._channel: "none", "open", and "closed" but not None
    server,        \* grpc_server: "none", "listening", "stopping", "stopped"
    waited,        \* how long stop has been waiting
    pc,            \* where each call is
    kind,          \* what it is
    left           \* what its deadlines leave to a unary call

vars == <<phase, grpc_enabled, channel, server, waited, pc, kind, left>>

CallVars == <<pc, kind, left>>

Busy(c) == pc[c] \in {"handling", "calling", "broken"}

Init ==
    /\ phase = "boot"
    /\ grpc_enabled \in BOOLEAN
    /\ channel = "none" /\ server = "none" /\ waited = 0
    /\ pc = [c \in Call |-> "none"]
    /\ kind = [c \in Call |-> "rest"]
    /\ left = [c \in Call |-> 0]

-----------------------------------------------------------------------------
(* tracing.setup: an unknown backend, or OTLP without an endpoint, is a    *)
(* boot error.                                                             *)
Setup ==
    /\ phase = "boot"
    /\ phase' \in {"traced", "failed"}
    /\ UNCHANGED <<grpc_enabled, channel, server, waited, CallVars>>

(* CoreClient.start creates the channel; it connects nothing yet.          *)
CoreStart ==
    /\ phase = "traced"
    /\ channel' = "open" /\ phase' = "connected"
    /\ UNCHANGED <<grpc_enabled, server, waited, CallVars>>

(* Mutant: the port comes up before the channel. *)
GrpcStart_Early ==
    /\ phase \in {"traced", "connected"}
    /\ \/ phase' = "serving" /\ server' = IF grpc_enabled THEN "listening" ELSE "none"
       \/ grpc_enabled /\ phase' = "failed" /\ UNCHANGED server
    /\ UNCHANGED <<grpc_enabled, channel, waited, CallVars>>

(* GrpcServer.start, and the `yield`.  A port that cannot be had is a      *)
(* RuntimeError: nobody closes the channel, the process is going down.     *)
GrpcStart ==
    /\ phase = "connected"
    /\ \/ phase' = "serving" /\ server' = IF grpc_enabled THEN "listening" ELSE "none"
       \/ grpc_enabled /\ phase' = "failed" /\ UNCHANGED server
    /\ UNCHANGED <<grpc_enabled, channel, waited, CallVars>>

(* External: a call is accepted.  The gRPC port knows nothing of uvicorn's *)
(* signal and takes calls until stop.                                      *)
Accept(c, k) ==
    /\ pc[c] = "none"
    /\ IF k \in Http THEN phase = "serving" ELSE server = "listening"
    /\ pc' = [pc EXCEPT ![c] = "handling"]
    /\ kind' = [kind EXCEPT ![c] = k]
    /\ \E n \in IF k \in Unary THEN 1 .. Limit ELSE {0} : left' = [left EXCEPT ![c] = n]
    /\ UNCHANGED <<phase, grpc_enabled, channel, server, waited>>

(* The handler asks a stub of core.channel: None is a RuntimeError, and a  *)
(* closed channel refuses the call.                                        *)
CallCore(c) ==
    /\ pc[c] = "handling"
    /\ pc' = [pc EXCEPT ![c] = IF channel = "open" THEN "calling" ELSE "broken"]
    /\ UNCHANGED <<phase, grpc_enabled, channel, server, waited, kind, left>>

CoreAnswers(c) ==
    /\ pc[c] = "calling"
    /\ pc' = [pc EXCEPT ![c] = "handling"]
    /\ UNCHANGED <<phase, grpc_enabled, channel, server, waited, kind, left>>

(* The call ends: its answer, its deadline, a client that goes away; and   *)
(* sse-starlette's end of a response once the signal has come.             *)
Answer(c) ==
    /\ Busy(c)
    /\ pc' = [pc EXCEPT ![c] = "answered"]
    /\ UNCHANGED <<phase, grpc_enabled, channel, server, waited, kind, left>>

-----------------------------------------------------------------------------
(* External: uvicorn gets SIGTERM.                                         *)
Signal ==
    /\ phase = "serving"
    /\ phase' = "draining"
    /\ UNCHANGED <<grpc_enabled, channel, server, waited, CallVars>>

(* Mutant: the channel goes first. *)
Resume_ChannelFirst ==
    /\ phase = "draining"
    /\ \A c \in Call : Busy(c) => kind[c] \notin Http
    /\ IF server = "listening"
       THEN server' = "stopping" /\ phase' = "stopping"
       ELSE UNCHANGED server /\ phase' = "closing"
    /\ channel' = "closed"
    /\ UNCHANGED <<grpc_enabled, waited, CallVars>>

(* No HTTP request is left: lifespan goes on after its `yield`, and awaits *)
(* grpc_server.stop().                                                     *)
Resume ==
    /\ phase = "draining"
    /\ \A c \in Call : Busy(c) => kind[c] \notin Http
    /\ IF server = "listening"
       THEN server' = "stopping" /\ phase' = "stopping"
       ELSE UNCHANGED server /\ phase' = "closing"
    /\ UNCHANGED <<grpc_enabled, channel, waited, CallVars>>

(* stop() returns early: everything in flight has ended.                   *)
Stopped ==
    /\ server = "stopping"
    /\ \A c \in Call : ~Busy(c)
    /\ server' = "stopped" /\ phase' = "closing"
    /\ UNCHANGED <<grpc_enabled, channel, waited, CallVars>>

(* Mutant: stop(0), as the tests call it. *)
GraceOver_AtOnce ==
    /\ server = "stopping"
    /\ \E c \in Call : Busy(c)
    /\ pc' = [c \in Call |-> IF Busy(c) THEN "cut" ELSE pc[c]]
    /\ server' = "stopped" /\ phase' = "closing"
    /\ UNCHANGED <<grpc_enabled, channel, waited, kind, left>>

(* Mutant: no grace at all to the wait. *)
GraceOver_Never == FALSE /\ UNCHANGED vars

(* The grace is over, and what is still in flight is cancelled.            *)
GraceOver ==
    /\ server = "stopping" /\ waited = GRACE_S
    /\ \E c \in Call : Busy(c)
    /\ pc' = [c \in Call |-> IF Busy(c) THEN "cut" ELSE pc[c]]
    /\ server' = "stopped" /\ phase' = "closing"
    /\ UNCHANGED <<grpc_enabled, channel, waited, kind, left>>

(* core.stop() closes the channel; the attribute keeps it.                 *)
CoreStop ==
    /\ phase = "closing"
    /\ channel' = "closed" /\ phase' = "closed"
    /\ UNCHANGED <<grpc_enabled, server, waited, CallVars>>

(* tracing.shutdown() sends off the last spans.                            *)
Shutdown ==
    /\ phase = "closed"
    /\ phase' = "stopped"
    /\ UNCHANGED <<grpc_enabled, channel, server, waited, CallVars>>

(* Time passes for the calls, and for stop's wait, which ends on time.     *)
Tick ==
    /\ \A c \in Call : Busy(c) /\ kind[c] \in Unary => left[c] > 0
    /\ server = "stopping" => waited < GRACE_S
    /\ waited' = IF server = "stopping" THEN waited + 1 ELSE waited
    /\ left' = [c \in Call |-> IF Busy(c) /\ kind[c] \in Unary THEN left[c] - 1 ELSE left[c]]
    /\ UNCHANGED <<phase, grpc_enabled, channel, server, pc, kind>>

Lifespan ==
    Setup \/ CoreStart \/ GrpcStart \/ Resume \/ Stopped \/ GraceOver \/ CoreStop \/ Shutdown

Next ==
    \/ Lifespan \/ Signal \/ Tick
    \/ \E c \in Call :
          \/ CallCore(c) \/ CoreAnswers(c) \/ Answer(c)
          \/ \E k \in Unary \cup Streams : Accept(c, k)

Spec == Init /\ [][Next]_vars

(* The process runs, time passes, a unary call ends by its deadline and an *)
(* SSE response at the signal.  Nothing ends a gRPC stream but the server. *)
EndsByItself(c) ==
    /\ \/ kind[c] \in Unary
       \/ kind[c] = "sse" /\ phase = "draining"
    /\ Answer(c)

FairSpec ==
    /\ Spec
    /\ WF_vars(Lifespan) /\ WF_vars(Tick)
    /\ \A c \in Call : WF_vars(EndsByItself(c))

-----------------------------------------------------------------------------
Phase == { "boot", "traced", "connected", "serving", "draining", "stopping", "closing",
           "closed", "stopped", "failed" }

TypeOK ==
    /\ phase \in Phase /\ grpc_enabled \in BOOLEAN
    /\ channel \in {"none", "open", "closed"}
    /\ server \in {"none", "listening", "stopping", "stopped"}
    /\ waited \in 0 .. GRACE_S
    /\ pc \in [Call -> {"none", "handling", "calling", "broken", "answered", "cut"}]
    /\ kind \in [Call -> Unary \cup Streams]
    /\ left \in [Call -> 0 .. Limit]

(* "The gRPC port comes up AFTER the channel to the core and goes down     *)
(* BEFORE it": a handler of either port that is at work always finds the   *)
(* channel open, from the first call accepted to the last one cancelled.   *)
ChannelIsThere == \A c \in Call : Busy(c) => channel = "open"

(* What the grace is worth: a gRPC call whose deadlines end before the     *)
(* grace does gets its answer, though the process is going down.           *)
ShortCallsFinish ==
    \A c \in Call :
        (server = "stopping" /\ Busy(c) /\ kind[c] = "grpc" /\ waited + left[c] < GRACE_S)
            ~> pc[c] = "answered"

(* The process goes down in the end, though a gRPC client may watch events *)
(* for ever and calls are still accepted while uvicorn drains.             *)
StopCompletes == phase = "draining" ~> phase = "stopped"

-----------------------------------------------------------------------------
(* The order of the steps, as the proof needs it.                          *)
LifespanOrder ==
    /\ phase \in {"boot", "traced"} => channel = "none"
    /\ phase \in {"connected", "serving", "draining", "stopping", "closing"} => channel = "open"
    /\ server = "listening" => phase \in {"serving", "draining"}
    /\ server = "stopping" <=> phase = "stopping"
    /\ \A c \in Call :
        Busy(c) => \/ kind[c] \in Http /\ phase \in {"serving", "draining"}
                   \/ kind[c] \notin Http /\ server \in {"listening", "stopping"}

LifeInv == TypeOK /\ LifespanOrder /\ ChannelIsThere
=============================================================================
