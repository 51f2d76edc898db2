------------------------------ MODULE TokenCache ------------------------------
(***************************************************************************)
(* The two caches of a token of the metadata server: the service identity  *)
(* that rides on every call to the core (coreclient/client.py,             *)
(* _ServiceIdentity) and the access token that mints verification links    *)
(* (platform/security/firebase_admin.py, FirebaseAdmin).                   *)
(*                                                                         *)
(* grpc runs the first from threads of its own, with no lock: another      *)
(* thread may run between any two of its reads and writes, and the token   *)
(* and its expiry are written one after the other.  The second runs on the *)
(* event loop, and is alone but for its awaits.                            *)
(*                                                                         *)
(* A token is the instant at which it really expires; 0 is the empty       *)
(* string.                                                                 *)
(***************************************************************************)
EXTENDS Naturals

CONSTANTS
    Caller,    \* the calls that ask for a token
    Life,      \* what the edge takes a service token to live (3600)
    SKEW,      \* _SKEW: how early a token is renewed (300)
    Age,       \* external: how old a service token may be when handed out
    Delay,     \* how long one call takes at most, its timeouts included
    MaxClock   \* bound: the last instant

ASSUME TimesAssumption ==
    /\ {Life, SKEW, Age, Delay, MaxClock} \subseteq Nat
    /\ Age + 2 * Delay <= SKEW    \* what SKEW is for
    /\ SKEW < Life

VARIABLES
    kind,          \* which of the two caches this is
    clock,         \* time.time()
    token,         \* self._token
    expires_at,    \* self._expires_at
    pc,            \* where each call is
    now,           \* its local `now`
    answer,        \* the metadata server's answer to it
    out            \* the token handed out last, and when

vars == <<kind, clock, token, expires_at, pc, now, answer, out>>

None == [token |-> 0, expires_in |-> 0]

Init ==
    /\ kind \in {"service_identity", "firebase_admin"}
    /\ clock = 0
    /\ token = 0 /\ expires_at = 0
    /\ pc = [c \in Caller |-> "idle"]
    /\ now = [c \in Caller |-> 0]
    /\ answer = [c \in Caller |-> None]
    /\ out = [token |-> 0, at |-> 0]

Goto(c, at) == pc' = [pc EXCEPT ![c] = at] /\ UNCHANGED <<kind, clock>>
Hand(tok)   == out' = [token |-> tok, at |-> clock]

(* A call is over, and its locals with it.                                 *)
Leave(c) ==
    /\ Goto(c, "idle")
    /\ now' = [now EXCEPT ![c] = 0]
    /\ answer' = [answer EXCEPT ![c] = None]

-----------------------------------------------------------------------------
(* Mutant: renewed at the expiry and not before. *)
Fresh_NoSkew(at) == token # 0 /\ at < expires_at

(* `self._token and now < self._expires_at - _SKEW`                        *)
Fresh(at) == token # 0 /\ at + SKEW < expires_at

(* _fresh_token reads the clock ...                                        *)
FreshToken(c) ==
    /\ kind = "service_identity" /\ pc[c] = "idle"
    /\ now' = [now EXCEPT ![c] = clock]
    /\ Goto(c, "check")
    /\ UNCHANGED <<token, expires_at, answer, out>>

(* ... compares the expiry ...                                             *)
Check(c) ==
    /\ pc[c] = "check"
    /\ Goto(c, IF Fresh(now[c]) THEN "return" ELSE "fetching")
    /\ UNCHANGED <<token, expires_at, now, answer, out>>

(* ... and reads the token once more to return it.                         *)
Return(c) ==
    /\ pc[c] = "return"
    /\ Hand(token)
    /\ Leave(c)
    /\ UNCHANGED <<token, expires_at>>

(* External: a service token has Life to live, less its age; an access     *)
(* token has what expires_in says.  It outlives the call that fetched it.  *)
Serve(c) ==
    /\ pc[c] = "fetching"
    /\ \E left \in IF kind = "service_identity" THEN (Life - Age) .. Life
                                                 ELSE (Delay + 1) .. Life :
            answer' = [answer EXCEPT ![c] = [token |-> clock + left, expires_in |-> left]]
    /\ Goto(c, "fetched")
    /\ UNCHANGED <<token, expires_at, now, out>>

(* A timeout, or raise_for_status: an exception, and the cache as it was.  *)
Fail(c) ==
    /\ pc[c] = "fetching"
    /\ Leave(c)
    /\ UNCHANGED <<token, expires_at, out>>

StoreToken(c) ==
    /\ kind = "service_identity" /\ pc[c] = "fetched"
    /\ token' = answer[c].token
    /\ Goto(c, "stored")
    /\ UNCHANGED <<expires_at, now, answer, out>>

StoreExpiry(c) ==
    /\ pc[c] = "stored"
    /\ expires_at' = now[c] + Life
    /\ Goto(c, "return")
    /\ UNCHANGED <<token, now, answer, out>>

-----------------------------------------------------------------------------
(* _access_token: no await up to the fetch, and none after it.  A fresh    *)
(* token is handed out at once.                                            *)
AccessToken(c) ==
    /\ kind = "firebase_admin" /\ pc[c] = "idle"
    /\ IF Fresh(clock)
       THEN Hand(token) /\ Leave(c)
       ELSE /\ now' = [now EXCEPT ![c] = clock]
            /\ Goto(c, "fetching")
            /\ UNCHANGED <<answer, out>>
    /\ UNCHANGED <<token, expires_at>>

(* Mutant: an hour, whatever the answer says. *)
Renew_Hour(c) ==
    /\ kind = "firebase_admin" /\ pc[c] = "fetched"
    /\ token' = answer[c].token
    /\ expires_at' = now[c] + Life
    /\ Hand(answer[c].token)
    /\ Leave(c)

Renew(c) ==
    /\ kind = "firebase_admin" /\ pc[c] = "fetched"
    /\ token' = answer[c].token
    /\ expires_at' = now[c] + answer[c].expires_in
    /\ Hand(answer[c].token)
    /\ Leave(c)

(* Time passes, and no call outlasts its timeouts.                         *)
Tick ==
    /\ clock < MaxClock
    /\ \A c \in Caller : pc[c] # "idle" => clock < now[c] + Delay
    /\ clock' = clock + 1
    /\ UNCHANGED <<kind, token, expires_at, pc, now, answer, out>>

Next ==
    \/ Tick
    \/ \E c \in Caller :
          \/ FreshToken(c) \/ Check(c) \/ Return(c) \/ StoreToken(c) \/ StoreExpiry(c)
          \/ AccessToken(c) \/ Renew(c)
          \/ Serve(c) \/ Fail(c)

Spec == Init /\ [][Next]_vars

-----------------------------------------------------------------------------
Step == {"idle", "check", "fetching", "fetched", "stored", "return"}

TypeOK ==
    /\ kind \in {"service_identity", "firebase_admin"}
    /\ clock \in Nat /\ token \in Nat /\ expires_at \in Nat
    /\ pc \in [Caller -> Step]
    /\ kind = "firebase_admin" => pc \in [Caller -> {"idle", "fetching", "fetched"}]
    /\ now \in [Caller -> Nat]
    /\ answer \in [Caller -> [token : Nat, expires_in : Nat]]
    /\ out \in [token : Nat, at : Nat]

(* A token the edge sends is alive: whatever another call wrote between    *)
(* _fresh_token's check and its return, and though the token of one call   *)
(* may stand beside the expiry of another, nobody is handed a dead one.    *)
TokenIsAlive == out.token # 0 => out.at < out.token

(* What the calls keep between them.                                       *)
Timely == \A c \in Caller : /\ now[c] <= clock
                            /\ pc[c] # "idle" => clock <= now[c] + Delay

(* The cache may promise more than the token has left, but never by more   *)
(* than the age of a token and the length of one call.                     *)
PairIsClose ==
    /\ expires_at <= clock + Life
    /\ token # 0 => expires_at <= token + Age + Delay

(* A call that stored its token and not yet its expiry: the token there,   *)
(* its own or a later writer's, bears the expiry it is about to write.     *)
HalfStored ==
    \A c \in Caller : pc[c] = "stored" => now[c] + Life <= token + Age + Delay

AnswerIsLong ==
    \A c \in Caller : pc[c] = "fetched" =>
        IF kind = "service_identity"
        THEN now[c] + Life <= answer[c].token + Age
        ELSE /\ now[c] + answer[c].expires_in <= answer[c].token
             /\ Delay < answer[c].expires_in /\ answer[c].expires_in <= Life

ReturnIsLong ==
    \A c \in Caller : pc[c] = "return" => now[c] + Delay < token

IInv ==
    /\ TypeOK
    /\ Timely
    /\ PairIsClose
    /\ HalfStored
    /\ AnswerIsLong
    /\ ReturnIsLong
    /\ TokenIsAlive
=============================================================================
