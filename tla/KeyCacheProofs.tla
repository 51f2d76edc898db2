---------------------------- MODULE KeyCacheProofs ----------------------------
(* The bounded staleness of the certificates' cache, for any number of     *)
(* verifications and keys, any brake and any bound on a GET.               *)
EXTENDS KeyCache, TLAPS

LEMMA InitEstablishes == Init => IInv
BY AgeAssumption DEF Init, IInv, TypeOK, AgeInv, Horizon, Outcome, InFlight

(* A verification that starts, or whose fetch fails, touches neither the   *)
(* cache nor an answer under way.                                          *)
LEMMA BeginKeeps ==
  ASSUME IInv, NEW t \in Task, Begin(t)
  PROVE  IInv'
<1>1. TypeOK'
  BY DEF IInv, TypeOK, Begin, provider, Outcome, InFlight
<1>2. \A u \in Task : pc'[u] \in {"answered", "closing"} => pc'[u] = pc[u]
  BY DEF IInv, TypeOK, Begin
<1>3. AgeInv'
  BY <1>2 DEF IInv, TypeOK, AgeInv, Begin, provider
<1> QED  BY <1>1, <1>3 DEF IInv

(* The answer holds every key of its moment.                               *)
LEMMA ServeKeeps ==
  ASSUME IInv, NEW t \in Task, Serve(t)
  PROVE  IInv'
<1>1. TypeOK'
  BY DEF IInv, TypeOK, Serve, provider, Outcome, InFlight
<1>2. resp'[t] = published /\ \A u \in Task : u # t => resp'[u] = resp[u] /\ pc'[u] = pc[u]
  BY DEF IInv, TypeOK, Serve
<1>3. \A u \in Task : pc'[u] = "answered" => \A k \in published \ resp'[u] : up[k] <= lag[u]
  BY <1>2 DEF IInv, AgeInv
<1>4. \A u \in Task : pc'[u] = "closing" => age = 0
  BY <1>2 DEF IInv, TypeOK, AgeInv, Serve
<1>5. AgeInv'
  BY <1>3, <1>4 DEF IInv, AgeInv, Serve, provider
<1> QED  BY <1>1, <1>5 DEF IInv

LEMMA FailKeeps ==
  ASSUME IInv, NEW t \in Task, Fail(t)
  PROVE  IInv'
<1>1. TypeOK'
  BY AgeAssumption DEF IInv, TypeOK, Fail, provider, Outcome, InFlight
<1>2. \A u \in Task : pc'[u] \in {"answered", "closing"} => pc'[u] = pc[u] /\ lag'[u] = lag[u]
  BY DEF IInv, TypeOK, Fail
<1>3. AgeInv'
  BY <1>2 DEF IInv, TypeOK, AgeInv, Fail, provider
<1> QED  BY <1>1, <1>3 DEF IInv

(* The cache inherits what is known of the answer: its GET took MaxFetch   *)
(* at most.                                                                *)
LEMMA ApplyKeeps ==
  ASSUME IInv, NEW t \in Task, Apply(t)
  PROVE  IInv'
<1>1. TypeOK'
  BY AgeAssumption DEF IInv, TypeOK, Apply, provider, Outcome, InFlight
<1>2. \A u \in Task : pc'[u] = "answered" =>
          pc[u] = "answered" /\ lag'[u] = lag[u] /\ resp'[u] = resp[u]
  BY DEF IInv, TypeOK, Apply
<1>3. \A k \in published \ resp[t] : up[k] <= 0 + MaxFetch
  <2>1. \A k \in published \ resp[t] : up[k] <= lag[t]
    BY DEF IInv, AgeInv, Apply
  <2> QED  BY <2>1, AgeAssumption DEF IInv, TypeOK, Horizon
<1>4. AgeInv'
  BY <1>2, <1>3 DEF IInv, AgeInv, Apply, provider
<1> QED  BY <1>1, <1>4 DEF IInv

LEMMA LookupKeeps ==
  ASSUME IInv, NEW t \in Task, Lookup(t)
  PROVE  IInv'
<1>1. TypeOK'
  BY DEF IInv, TypeOK, Lookup, provider, Outcome, InFlight
<1>2. \A u \in Task : pc'[u] \in {"answered", "closing"} => pc'[u] = pc[u]
  BY DEF IInv, TypeOK, Lookup
<1>3. AgeInv'
  BY <1>2 DEF IInv, TypeOK, AgeInv, Lookup, provider
<1> QED  BY <1>1, <1>3 DEF IInv

(* A key that has just come up is as young as anything.                    *)
LEMMA RotateKeeps ==
  ASSUME IInv, NEW j \in Kid, Rotate(j)
  PROVE  IInv'
<1>1. TypeOK'
  BY AgeAssumption DEF IInv, TypeOK, Rotate, Horizon
<1>2. \A k \in published' : k = j \/ (k \in published /\ up'[k] = up[k])
  BY DEF IInv, TypeOK, Rotate
<1>3. up'[j] = 0
  BY DEF IInv, TypeOK, Rotate
<1>4. \A u \in Task : pc[u] = "answered" => \A k \in published' \ resp[u] : up'[k] <= lag[u]
  BY <1>2, <1>3 DEF IInv, TypeOK, AgeInv
<1>5. age < Brake => \A k \in published' \ keys : up'[k] <= age + MaxFetch
  BY <1>2, <1>3, AgeAssumption DEF IInv, TypeOK, AgeInv
<1>6. AgeInv'
  BY <1>4, <1>5 DEF IInv, AgeInv, Rotate
<1> QED  BY <1>1, <1>6 DEF IInv

(* Everything ages together.                                               *)
LEMMA TickKeeps ==
  ASSUME IInv, Tick
  PROVE  IInv'
<1>1. TypeOK'
  <2>1. age' \in 0 .. Brake
    BY AgeAssumption DEF IInv, TypeOK, Tick, Older
  <2>2. up' \in [Kid -> 0 .. Horizon]
    BY AgeAssumption DEF IInv, TypeOK, Tick, Older, Horizon
  <2>3. lag' \in [Task -> 0 .. MaxFetch]
    BY AgeAssumption DEF IInv, TypeOK, Tick
  <2> QED  BY <2>1, <2>2, <2>3 DEF IInv, TypeOK, Tick
<1>2. \A k \in Kid : up'[k] <= up[k] + 1
  BY AgeAssumption DEF IInv, TypeOK, Tick, Older, Horizon
<1>3. \A u \in Task : pc[u] = "answered" => \A k \in published \ resp[u] : up'[k] <= lag'[u]
  <2> SUFFICES ASSUME NEW u \in Task, pc[u] = "answered", NEW k \in published \ resp[u]
               PROVE  up'[k] <= lag'[u]
    OBVIOUS
  <2>1. lag'[u] = lag[u] + 1 /\ up[k] <= lag[u]
    BY DEF IInv, TypeOK, AgeInv, Tick, InFlight
  <2>2. k \in Kid /\ up[k] \in Nat /\ lag[u] \in Nat /\ up'[k] \in Nat
    BY <1>1, AgeAssumption DEF IInv, TypeOK, Horizon
  <2> QED  BY <1>2, <2>1, <2>2
<1>4. age' < Brake => \A k \in published \ keys : up'[k] <= age' + MaxFetch
  <2> SUFFICES ASSUME age' < Brake, NEW k \in published \ keys
               PROVE  up'[k] <= age' + MaxFetch
    OBVIOUS
  <2>1. age < Brake /\ age' = age + 1
    BY AgeAssumption DEF IInv, TypeOK, Tick, Older
  <2>2. up[k] <= age + MaxFetch
    BY <2>1 DEF IInv, AgeInv
  <2>3. k \in Kid /\ up[k] \in Nat /\ up'[k] \in Nat /\ age \in Nat
    BY <1>1, AgeAssumption DEF IInv, TypeOK, Horizon
  <2> QED  BY <1>2, <2>1, <2>2, <2>3, AgeAssumption
<1>5. AgeInv'
  BY <1>3, <1>4 DEF IInv, AgeInv, Tick
<1> QED  BY <1>1, <1>5 DEF IInv

LEMMA StepKeeps == IInv /\ [Next]_vars => IInv'
<1> SUFFICES ASSUME IInv, [Next]_vars PROVE IInv'
  OBVIOUS
<1>1. CASE UNCHANGED vars
  BY <1>1 DEF vars, IInv, TypeOK, AgeInv
<1>2. CASE Next
  BY <1>2, BeginKeeps, ServeKeeps, FailKeeps, ApplyKeeps, LookupKeeps, RotateKeeps, TickKeeps
     DEF Next
<1> QED  BY <1>1, <1>2

(* The ages bound each other in every reachable state: what the cache, or  *)
(* an answer under way, does not hold has not been published for long.     *)
THEOREM CacheInvariance == Spec => []IInv
BY InitEstablishes, StepKeeps, PTL DEF Spec

(* A refusal is made by the brake or by the lookup after a fetch; in both  *)
(* the cache is younger than the brake, and the invariant says how long    *)
(* the missing key can have been out.                                      *)
THEOREM RefusalsAreRecent == Spec => RefusalIsRecent
<1> DEFINE Refuses(t) == pc[t] # "refused" /\ pc'[t] = "refused"
<1>1. ASSUME IInv, [Next]_vars, NEW t \in Task, Refuses(t), kid[t] \in published
      PROVE  up[kid[t]] < Horizon
  <2>1. Begin(t) \/ Lookup(t)
    <3>1. ASSUME NEW u \in Task, Begin(u) \/ Serve(u) \/ Fail(u) \/ Apply(u) \/ Lookup(u)
          PROVE  u = t /\ (Begin(t) \/ Lookup(t))
      BY <1>1, <3>1 DEF IInv, TypeOK, Begin, Serve, Fail, Apply, Lookup
    <3>2. \E u \in Task : Begin(u) \/ Serve(u) \/ Fail(u) \/ Apply(u) \/ Lookup(u)
      BY <1>1 DEF Next, vars, Rotate, Tick
    <3> QED  BY <3>1, <3>2
  <2>2. kid[t] \notin keys /\ age < Brake
    <3>1. CASE Begin(t)
      BY <1>1, <3>1 DEF IInv, TypeOK, Begin
    <3>2. CASE Lookup(t)
      BY <1>1, <3>2, AgeAssumption DEF IInv, TypeOK, AgeInv, Lookup
    <3> QED  BY <2>1, <3>1, <3>2
  <2>3. up[kid[t]] <= age + MaxFetch
    BY <1>1, <2>2 DEF IInv, AgeInv
  <2>4. up[kid[t]] \in Nat /\ age \in Nat
    BY <1>1, AgeAssumption DEF IInv, TypeOK, Horizon
  <2> QED  BY <2>2, <2>3, <2>4, AgeAssumption DEF Horizon
<1>2. IInv /\ [Next]_vars =>
        [\A t \in Task : (Refuses(t) /\ kid[t] \in published) => up[kid[t]] < Horizon]_vars
  BY <1>1
<1> QED  BY <1>2, CacheInvariance, PTL DEF Spec, RefusalIsRecent
=============================================================================
