------------------------------- MODULE KeyCache -------------------------------
(***************************************************************************)
(* The certificates of the identity provider as FirebaseVerifier caches    *)
(* them: _public_key and _fetch_certificates, run by many verifications at *)
(* a time.  RequestPipeline's Verify only knows the three outcomes; here   *)
(* is where they come from.                                                *)
(*                                                                         *)
(* Nothing stops two verifications from fetching at once, an answer takes  *)
(* its time, and a later answer may be applied before an earlier one.      *)
(*                                                                         *)
(* Time is kept as ages, each saturated where it stops to matter.          *)
(***************************************************************************)
EXTENDS Naturals

CONSTANTS
    Task,      \* clients, each presenting one token again and again
    Kid,       \* the key ids
    Brake,     \* seconds during which no fetch follows a fetch (30)
    MaxFetch   \* the longest a GET lasts (httpx: ten seconds per phase)

ASSUME AgeAssumption == Brake \in Nat \ {0} /\ MaxFetch \in Nat

Horizon == Brake + MaxFetch

VARIABLES
    published,  \* the provider's: the keys it publishes
    up,         \* history: how long each has been published without a break
    keys,       \* _keys, by their ids
    age,        \* time.time() - _keys_fetched_at, as far as the brake cares
    kid,        \* the kid of each task's token
    pc,         \* where the task is
    lag,        \* how long its GET has been under way
    resp        \* the certificates of the answer under way

vars == <<published, up, keys, age, kid, pc, lag, resp>>

InFlight == {"fetching", "answered"}
Outcome  == {"idle", "accepted", "refused", "failed"}

Older(x, cap) == IF x < cap THEN x + 1 ELSE cap

(* _keys_fetched_at = 0.0 is long ago: nothing brakes the first fetch.     *)
Init ==
    /\ published \in SUBSET Kid
    /\ up = [k \in Kid |-> 0]
    /\ keys = {} /\ age = Brake
    /\ kid \in [Task -> Kid]
    /\ pc = [t \in Task |-> "idle"]
    /\ lag = [t \in Task |-> 0]
    /\ resp = [t \in Task |-> {}]

provider == <<published, up>>

(* A request arrives with a token: the cached key, the brake, or a GET.    *)
(* The brake returns without an error, and the lookup then finds nothing:  *)
(* "unknown signing key".                                                  *)
Begin(t) ==
    /\ pc[t] \in Outcome
    /\ pc' = [pc EXCEPT ![t] = IF kid[t] \in keys THEN "accepted"
                               ELSE IF age < Brake THEN "refused" ELSE "fetching"]
    /\ UNCHANGED <<provider, keys, age, kid, lag, resp>>

(* External: the provider answers, with what it publishes at that moment.  *)
Serve(t) ==
    /\ pc[t] = "fetching"
    /\ pc' = [pc EXCEPT ![t] = "answered"]
    /\ resp' = [resp EXCEPT ![t] = published]
    /\ UNCHANGED <<provider, keys, age, kid, lag>>

(* Mutant: the time of the fetch noted although the fetch failed. *)
Fail_Brakes(t) ==
    /\ pc[t] = "fetching"
    /\ pc' = [pc EXCEPT ![t] = "failed"]
    /\ age' = 0
    /\ lag' = [lag EXCEPT ![t] = 0]
    /\ UNCHANGED <<provider, keys, kid, resp>>

(* A timeout, a broken connection, raise_for_status: the exception leaves  *)
(* the verifier, and the cache is as it was.                               *)
Fail(t) ==
    /\ pc[t] = "fetching"
    /\ pc' = [pc EXCEPT ![t] = "failed"]
    /\ lag' = [lag EXCEPT ![t] = 0]
    /\ UNCHANGED <<provider, keys, age, kid, resp>>

(* Mutants: a cache that is only ever filled once; a fetch not noted.      *)
Apply_Once(t) ==
    /\ pc[t] = "answered"
    /\ keys' = IF keys = {} THEN resp[t] ELSE keys
    /\ age' = 0
    /\ pc' = [pc EXCEPT ![t] = "closing"]
    /\ lag' = [lag EXCEPT ![t] = 0] /\ resp' = [resp EXCEPT ![t] = {}]
    /\ UNCHANGED <<provider, kid>>

Apply_NotNoted(t) ==
    /\ pc[t] = "answered"
    /\ keys' = resp[t]
    /\ pc' = [pc EXCEPT ![t] = "closing"]
    /\ lag' = [lag EXCEPT ![t] = 0] /\ resp' = [resp EXCEPT ![t] = {}]
    /\ UNCHANGED <<provider, age, kid>>

(* The answer replaces the cache, whatever came in between; leaving the    *)
(* `async with` awaits the client's close.                                 *)
Apply(t) ==
    /\ pc[t] = "answered"
    /\ keys' = resp[t]
    /\ age' = 0
    /\ pc' = [pc EXCEPT ![t] = "closing"]
    /\ lag' = [lag EXCEPT ![t] = 0] /\ resp' = [resp EXCEPT ![t] = {}]
    /\ UNCHANGED <<provider, kid>>

(* Back in _public_key: the cache is read again, not the answer.           *)
Lookup(t) ==
    /\ pc[t] = "closing"
    /\ pc' = [pc EXCEPT ![t] = IF kid[t] \in keys THEN "accepted" ELSE "refused"]
    /\ UNCHANGED <<provider, keys, age, kid, lag, resp>>

(* External: the provider rotates its keys.                                *)
Rotate(k) ==
    /\ published' = IF k \in published THEN published \ {k} ELSE published \cup {k}
    /\ up' = [up EXCEPT ![k] = 0]
    /\ UNCHANGED <<keys, age, kid, pc, lag, resp>>

(* A second passes; closing a client takes none, a GET MaxFetch at most.   *)
Tick ==
    /\ \A t \in Task : pc[t] # "closing" /\ (pc[t] \in InFlight => lag[t] < MaxFetch)
    /\ age' = Older(age, Brake)
    /\ up' = [k \in Kid |-> Older(up[k], Horizon)]
    /\ lag' = [t \in Task |-> IF pc[t] \in InFlight THEN lag[t] + 1 ELSE lag[t]]
    /\ UNCHANGED <<published, keys, kid, pc, resp>>

Next ==
    \/ \E t \in Task : Begin(t) \/ Serve(t) \/ Fail(t) \/ Apply(t) \/ Lookup(t)
    \/ \E k \in Kid : Rotate(k)
    \/ Tick

Spec == Init /\ [][Next]_vars

(* The clients keep coming, the event loop runs what is ready, time goes   *)
(* on, and the provider does not fail for ever.                            *)
FairSpec ==
    /\ Spec
    /\ \A t \in Task :
            WF_vars(Begin(t)) /\ SF_vars(Serve(t)) /\ WF_vars(Apply(t)) /\ WF_vars(Lookup(t))
    /\ WF_vars(Tick)

-----------------------------------------------------------------------------
TypeOK ==
    /\ published \subseteq Kid /\ keys \subseteq Kid
    /\ up \in [Kid -> 0 .. Horizon]
    /\ age \in 0 .. Brake
    /\ kid \in [Task -> Kid]
    /\ pc \in [Task -> InFlight \cup Outcome \cup {"closing"}]
    /\ lag \in [Task -> 0 .. MaxFetch]
    /\ resp \in [Task -> SUBSET Kid]

(* A key that an answer under way lacks came up after the answer was made, *)
(* so within the time of the GET; one that the cache lacks, within a GET   *)
(* and the time since.                                                     *)
AgeInv ==
    /\ \A t \in Task : pc[t] = "answered" =>
            \A k \in published \ resp[t] : up[k] <= lag[t]
    /\ \A t \in Task : pc[t] = "closing" => age = 0
    /\ age < Brake => \A k \in published \ keys : up[k] <= age + MaxFetch

IInv == TypeOK /\ AgeInv

(* A token is refused for its key only if, within the brake and one GET,   *)
(* there was a moment at which the key was not published: however many     *)
(* verifications fetch at once, and in whatever order their answers are    *)
(* applied, a key that has been out for that long is never "unknown".      *)
RefusalIsRecent ==
    [][\A t \in Task :
         (pc[t] # "refused" /\ pc'[t] = "refused" /\ kid[t] \in published)
             => up[kid[t]] < Horizon]_vars

(* A token under a key that stays published is accepted again and again,   *)
(* even if an older answer has just overwritten a newer one.               *)
PublishedIsAccepted ==
    \A t \in Task :
        <>[](kid[t] \in published) => []<>(pc[t] = "accepted")
=============================================================================
