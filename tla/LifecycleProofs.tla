---------------------------- MODULE LifecycleProofs ----------------------------
(* The channel outlives every handler, for any number of calls, any grace  *)
(* and any deadlines.  ChannelIsThere is not inductive by itself: what     *)
(* carries it is LifespanOrder, which ties the channel and the gRPC port   *)
(* to where lifespan is, and says which calls can still be at work there.  *)
EXTENDS Lifecycle, TLAPS

USE GraceAssumption

LEMMA LifeInit == Init => LifeInv
BY DEF Init, LifeInv, TypeOK, LifespanOrder, ChannelIsThere, Busy, Phase, Unary, Streams

(* The steps of lifespan that leave the calls where they are.              *)
LEMMA QuietStepsKeep ==
  ASSUME LifeInv,
         Setup \/ CoreStart \/ GrpcStart \/ Resume \/ Stopped \/ CoreStop \/ Shutdown \/ Signal
  PROVE  LifeInv'
<1> USE DEF LifeInv, CallVars
<1>1. CASE Setup
  BY <1>1 DEF Setup, TypeOK, LifespanOrder, ChannelIsThere, Busy, Phase
<1>2. CASE CoreStart
  BY <1>2 DEF CoreStart, TypeOK, LifespanOrder, ChannelIsThere, Busy, Phase
<1>3. CASE GrpcStart
  BY <1>3 DEF GrpcStart, TypeOK, LifespanOrder, ChannelIsThere, Busy, Phase
<1>4. CASE Resume
  BY <1>4 DEF Resume, TypeOK, LifespanOrder, ChannelIsThere, Busy, Phase
<1>5. CASE Stopped
  BY <1>5 DEF Stopped, TypeOK, LifespanOrder, ChannelIsThere, Busy, Phase
<1>6. CASE CoreStop
  BY <1>6 DEF CoreStop, TypeOK, LifespanOrder, ChannelIsThere, Busy, Phase
<1>7. CASE Shutdown
  BY <1>7 DEF Shutdown, TypeOK, LifespanOrder, ChannelIsThere, Busy, Phase
<1>8. CASE Signal
  BY <1>8 DEF Signal, TypeOK, LifespanOrder, ChannelIsThere, Busy, Phase
<1> QED  BY <1>1, <1>2, <1>3, <1>4, <1>5, <1>6, <1>7, <1>8

(* A call comes only where the port that takes it is up.                   *)
LEMMA AcceptKeeps ==
  ASSUME LifeInv, NEW c \in Call, NEW k \in Unary \cup Streams, Accept(c, k)
  PROVE  LifeInv'
<1>1. PICK n \in IF k \in Unary THEN 1 .. Limit ELSE {0} : left' = [left EXCEPT ![c] = n]
  BY DEF Accept
<1>2. TypeOK'
  <2>1. n \in 0 .. Limit
    BY <1>1
  <2> QED  BY <1>1, <2>1 DEF LifeInv, TypeOK, Accept
<1>3. \A d \in Call : d # c => pc'[d] = pc[d] /\ kind'[d] = kind[d]
  BY DEF LifeInv, TypeOK, Accept
<1>4. kind'[c] = k
  BY DEF LifeInv, TypeOK, Accept
<1>5. /\ phase \in {"serving", "draining"}
      /\ IF k \in Http THEN phase = "serving" ELSE server = "listening"
  BY DEF LifeInv, LifespanOrder, Accept
<1>6. LifespanOrder' /\ ChannelIsThere'
  BY <1>3, <1>4, <1>5 DEF LifeInv, LifespanOrder, ChannelIsThere, Accept, Busy
<1> QED  BY <1>2, <1>6 DEF LifeInv

(* A call that is at work goes on, or is over.                             *)
LEMMA HandlerKeeps ==
  ASSUME LifeInv, NEW c \in Call, CallCore(c) \/ CoreAnswers(c) \/ Answer(c)
  PROVE  LifeInv'
<1>1. TypeOK'
  BY DEF LifeInv, TypeOK, CallCore, CoreAnswers, Answer
<1>2. \A d \in Call : Busy(d)' => Busy(d)
  BY DEF LifeInv, TypeOK, CallCore, CoreAnswers, Answer, Busy
<1>3. UNCHANGED <<phase, channel, server, kind>>
  BY DEF CallCore, CoreAnswers, Answer
<1>4. LifespanOrder' /\ ChannelIsThere'
  BY <1>2, <1>3 DEF LifeInv, LifespanOrder, ChannelIsThere
<1> QED  BY <1>1, <1>4 DEF LifeInv

LEMMA GraceOverKeeps ==
  ASSUME LifeInv, GraceOver
  PROVE  LifeInv'
<1>1. TypeOK'
  BY DEF LifeInv, TypeOK, GraceOver, Phase
<1>2. \A d \in Call : ~Busy(d)'
  BY DEF LifeInv, TypeOK, GraceOver, Busy
<1>3. LifespanOrder' /\ ChannelIsThere'
  BY <1>2 DEF LifeInv, LifespanOrder, ChannelIsThere, GraceOver
<1> QED  BY <1>1, <1>3 DEF LifeInv

LEMMA TickKeeps ==
  ASSUME LifeInv, Tick
  PROVE  LifeInv'
<1>1. waited' \in 0 .. GRACE_S
  BY DEF LifeInv, TypeOK, Tick
<1>2. left' \in [Call -> 0 .. Limit]
  <2>1. \A c \in Call : (IF Busy(c) /\ kind[c] \in Unary THEN left[c] - 1 ELSE left[c])
                            \in 0 .. Limit
    <3> TAKE c \in Call
    <3>1. left[c] \in 0 .. Limit
      BY DEF LifeInv, TypeOK
    <3>2. CASE Busy(c) /\ kind[c] \in Unary
      BY <3>1, <3>2 DEF Tick
    <3>3. CASE ~(Busy(c) /\ kind[c] \in Unary)
      BY <3>1, <3>3
    <3> QED  BY <3>2, <3>3
  <2> QED  BY <2>1 DEF Tick
<1>3. TypeOK'
  BY <1>1, <1>2 DEF LifeInv, TypeOK, Tick
<1>4. LifespanOrder' /\ ChannelIsThere'
  BY DEF LifeInv, LifespanOrder, ChannelIsThere, Tick, Busy
<1> QED  BY <1>3, <1>4 DEF LifeInv

LEMMA LifeStep == LifeInv /\ [Next]_vars => LifeInv'
<1> SUFFICES ASSUME LifeInv, [Next]_vars PROVE LifeInv'
  OBVIOUS
<1>1. CASE Lifespan \/ Signal
  BY <1>1, QuietStepsKeep, GraceOverKeeps DEF Lifespan
<1>2. CASE Tick
  BY <1>2, TickKeeps
<1>3. ASSUME NEW c \in Call, CallCore(c) \/ CoreAnswers(c) \/ Answer(c)
      PROVE  LifeInv'
  BY <1>3, HandlerKeeps
<1>4. ASSUME NEW c \in Call, NEW k \in Unary \cup Streams, Accept(c, k)
      PROVE  LifeInv'
  BY <1>4, AcceptKeeps
<1>5. CASE UNCHANGED vars
  BY <1>5 DEF vars, LifeInv, TypeOK, LifespanOrder, ChannelIsThere, Busy
<1> QED  BY <1>1, <1>2, <1>3, <1>4, <1>5 DEF Next

(* The channel, the gRPC port and the calls keep to lifespan's order.      *)
THEOREM LifeInvariance == Spec => []LifeInv
<1>1. Init => LifeInv
  BY LifeInit
<1>2. LifeInv /\ [Next]_vars => LifeInv'
  BY LifeStep
<1> QED  BY <1>1, <1>2, PTL DEF Spec

(* No handler ever finds the channel to the core missing or closed.        *)
THEOREM HandlersHaveTheirChannel == Spec => []ChannelIsThere
<1>1. LifeInv => ChannelIsThere
  BY DEF LifeInv
<1> QED  BY <1>1, LifeInvariance, PTL
=============================================================================
