--------------------------- MODULE TokenCacheProofs ---------------------------
(* No dead token is handed out, for any number of calls and any times that *)
(* satisfy TimesAssumption.  Each action keeps the whole of IInv; the      *)
(* arithmetic is all in StoreTokenKeeps and StoreExpiryKeeps, where a call *)
(* writes half of the pair under the feet of the others.                   *)
EXTENDS TokenCache, TLAPS

USE TimesAssumption

LEMMA InitEstablishes == Init => IInv
BY DEF Init, IInv, TypeOK, Timely, PairIsClose, HalfStored, AnswerIsLong, ReturnIsLong,
       TokenIsAlive, None, Step

(* The calls that only move on leave the cache alone.                      *)
LEMMA FreshTokenKeeps ==
  ASSUME IInv, NEW c \in Caller, FreshToken(c)
  PROVE  IInv'
<1>1. TypeOK'
  BY DEF IInv, TypeOK, FreshToken, Goto, Step
<1>2. \A d \in Caller : d # c => now'[d] = now[d] /\ pc'[d] = pc[d]
  BY DEF IInv, TypeOK, FreshToken, Goto
<1>3. now'[c] = clock /\ pc'[c] = "check" /\ clock \in Nat
  BY DEF IInv, TypeOK, FreshToken, Goto
<1>4. Timely'
  BY <1>2, <1>3 DEF IInv, TypeOK, Timely, FreshToken, Goto
<1>5. PairIsClose' /\ TokenIsAlive'
  BY DEF IInv, PairIsClose, TokenIsAlive, FreshToken, Goto
<1>6. HalfStored' /\ AnswerIsLong' /\ ReturnIsLong'
  BY <1>2, <1>3 DEF IInv, HalfStored, AnswerIsLong, ReturnIsLong, FreshToken, Goto
<1> QED  BY <1>1, <1>4, <1>5, <1>6 DEF IInv

(* What is fresh outlives the call: SKEW pays for the pair's gap and for   *)
(* the way to the return.                                                  *)
LEMMA FreshIsLong ==
  ASSUME IInv, NEW t \in Nat, Fresh(t)
  PROVE  t + Delay < token
BY DEF IInv, TypeOK, PairIsClose, Fresh

LEMMA CheckKeeps ==
  ASSUME IInv, NEW c \in Caller, Check(c)
  PROVE  IInv'
<1>1. TypeOK'
  BY DEF IInv, TypeOK, Check, Goto, Step
<1>2. \A d \in Caller : d # c => pc'[d] = pc[d]
  BY DEF IInv, TypeOK, Check, Goto
<1>3. /\ pc[c] = "check" /\ pc'[c] \in {"return", "fetching"}
      /\ pc'[c] = "return" => now[c] + Delay < token
  BY FreshIsLong DEF IInv, TypeOK, Check, Goto
<1>4. Timely'
  BY <1>2, <1>3 DEF IInv, Timely, Check, Goto
<1>5. PairIsClose' /\ TokenIsAlive'
  BY DEF IInv, PairIsClose, TokenIsAlive, Check, Goto
<1>6. HalfStored' /\ AnswerIsLong' /\ ReturnIsLong'
  BY <1>2, <1>3 DEF IInv, HalfStored, AnswerIsLong, ReturnIsLong, Check, Goto
<1> QED  BY <1>1, <1>4, <1>5, <1>6 DEF IInv

(* A call that leaves disturbs nobody else.                                *)
LEMMA LeaveKeeps ==
  ASSUME IInv, NEW c \in Caller, Leave(c), UNCHANGED token
  PROVE  /\ pc' \in [Caller -> Step] /\ now' \in [Caller -> Nat]
         /\ kind = "firebase_admin" => pc' \in [Caller -> {"idle", "fetching", "fetched"}]
         /\ answer' \in [Caller -> [token : Nat, expires_in : Nat]]
         /\ Timely' /\ HalfStored' /\ AnswerIsLong' /\ ReturnIsLong'
<1>1. \A d \in Caller : d # c => now'[d] = now[d] /\ pc'[d] = pc[d] /\ answer'[d] = answer[d]
  BY DEF IInv, TypeOK, Leave, Goto
<1>2. now'[c] = 0 /\ pc'[c] = "idle" /\ clock \in Nat
  BY DEF IInv, TypeOK, Leave, Goto
<1>3. Timely' /\ HalfStored' /\ ReturnIsLong'
  BY <1>1, <1>2 DEF IInv, TypeOK, Timely, HalfStored, ReturnIsLong, Leave, Goto
<1>4. AnswerIsLong'
  BY <1>1, <1>2 DEF IInv, AnswerIsLong, Leave, Goto
<1>5. /\ pc' \in [Caller -> Step] /\ now' \in [Caller -> Nat]
      /\ kind = "firebase_admin" => pc' \in [Caller -> {"idle", "fetching", "fetched"}]
      /\ answer' \in [Caller -> [token : Nat, expires_in : Nat]]
  BY DEF IInv, TypeOK, Leave, Goto, Step, None
<1> QED  BY <1>3, <1>4, <1>5

LEMMA ReturnKeeps ==
  ASSUME IInv, NEW c \in Caller, Return(c)
  PROVE  IInv'
<1>1. /\ pc' \in [Caller -> Step] /\ now' \in [Caller -> Nat]
      /\ kind = "firebase_admin" => pc' \in [Caller -> {"idle", "fetching", "fetched"}]
      /\ answer' \in [Caller -> [token : Nat, expires_in : Nat]]
      /\ Timely' /\ HalfStored' /\ AnswerIsLong' /\ ReturnIsLong'
  BY LeaveKeeps DEF Return
<1>2. clock < token
  BY DEF IInv, TypeOK, Timely, ReturnIsLong, Return
<1>3. TokenIsAlive' /\ out' \in [token : Nat, at : Nat]
  BY <1>2 DEF IInv, TypeOK, TokenIsAlive, Return, Hand
<1>4. TypeOK'
  BY <1>1, <1>3 DEF IInv, TypeOK, Return, Leave, Goto
<1>5. PairIsClose'
  BY DEF IInv, PairIsClose, Return, Leave, Goto
<1> QED  BY <1>1, <1>3, <1>4, <1>5 DEF IInv

LEMMA FailKeeps ==
  ASSUME IInv, NEW c \in Caller, Fail(c)
  PROVE  IInv'
<1>1. /\ pc' \in [Caller -> Step] /\ now' \in [Caller -> Nat]
      /\ kind = "firebase_admin" => pc' \in [Caller -> {"idle", "fetching", "fetched"}]
      /\ answer' \in [Caller -> [token : Nat, expires_in : Nat]]
      /\ Timely' /\ HalfStored' /\ AnswerIsLong' /\ ReturnIsLong'
  BY LeaveKeeps DEF Fail
<1>2. TypeOK'
  BY <1>1 DEF IInv, TypeOK, Fail, Leave, Goto
<1>3. PairIsClose' /\ TokenIsAlive'
  BY DEF IInv, PairIsClose, TokenIsAlive, Fail, Leave, Goto
<1> QED  BY <1>1, <1>2, <1>3 DEF IInv

LEMMA ServeKeeps ==
  ASSUME IInv, NEW c \in Caller, Serve(c)
  PROVE  IInv'
<1>1. PICK left \in IF kind = "service_identity" THEN (Life - Age) .. Life
                                                 ELSE (Delay + 1) .. Life :
          answer' = [answer EXCEPT ![c] = [token |-> clock + left, expires_in |-> left]]
  BY DEF Serve
<1>2. left \in Nat /\ clock \in Nat
  BY <1>1 DEF IInv, TypeOK
<1>3. TypeOK'
  BY <1>1, <1>2 DEF IInv, TypeOK, Serve, Goto, Step
<1>4. \A d \in Caller : d # c => pc'[d] = pc[d] /\ answer'[d] = answer[d]
  BY <1>1 DEF IInv, TypeOK, Serve, Goto
<1>5. pc'[c] = "fetched" /\ answer'[c] = [token |-> clock + left, expires_in |-> left]
  BY <1>1 DEF IInv, TypeOK, Serve, Goto
<1>6. now[c] \in Nat /\ now[c] <= clock
  BY DEF IInv, TypeOK, Timely
<1>7. IF kind = "service_identity"
      THEN now[c] + Life <= answer'[c].token + Age
      ELSE /\ now[c] + answer'[c].expires_in <= answer'[c].token
           /\ Delay < answer'[c].expires_in /\ answer'[c].expires_in <= Life
  BY <1>1, <1>2, <1>5, <1>6
<1>8. AnswerIsLong'
  BY <1>4, <1>7 DEF IInv, AnswerIsLong, Serve, Goto
<1>9. Timely' /\ HalfStored' /\ ReturnIsLong'
  BY <1>4, <1>5 DEF IInv, Timely, HalfStored, ReturnIsLong, Serve, Goto
<1>10. PairIsClose' /\ TokenIsAlive'
  BY DEF IInv, PairIsClose, TokenIsAlive, Serve, Goto
<1> QED  BY <1>3, <1>8, <1>9, <1>10 DEF IInv

(* The new token may be older than the one it replaces, but it was minted  *)
(* at most one call ago: long enough for every expiry written so far, and  *)
(* for every call that is about to write one or to return what is there.   *)
LEMMA StoreTokenKeeps ==
  ASSUME IInv, NEW c \in Caller, StoreToken(c)
  PROVE  IInv'
<1>1. TypeOK'
  BY DEF IInv, TypeOK, StoreToken, Goto, Step
<1>2. \A d \in Caller : d # c => pc'[d] = pc[d]
  BY DEF IInv, TypeOK, StoreToken, Goto
<1>3. pc[c] = "fetched" /\ pc'[c] = "stored" /\ kind = "service_identity"
  BY DEF IInv, TypeOK, StoreToken, Goto
<1>4. clock + Life <= token' + Age + Delay
  <2>1. now[c] + Life <= token' + Age /\ clock <= now[c] + Delay
    BY <1>3 DEF IInv, Timely, AnswerIsLong, StoreToken
  <2>2. now[c] \in Nat /\ clock \in Nat /\ token' \in Nat
    BY <1>1 DEF IInv, TypeOK
  <2> QED  BY <2>1, <2>2
<1>5. \A d \in Caller : /\ now[d] + Life <= token' + Age + Delay
                        /\ now[d] + Delay < token'
  <2>1. \A d \in Caller : now[d] \in Nat /\ now[d] <= clock
    BY DEF IInv, TypeOK, Timely
  <2>2. clock \in Nat /\ token' \in Nat
    BY <1>1 DEF IInv, TypeOK
  <2> QED  BY <1>4, <2>1, <2>2
<1>6. PairIsClose'
  BY <1>1, <1>4 DEF IInv, TypeOK, PairIsClose, StoreToken, Goto
<1>7. Timely'
  BY <1>2, <1>3 DEF IInv, Timely, StoreToken, Goto
<1>8. HalfStored' /\ ReturnIsLong'
  BY <1>5 DEF HalfStored, ReturnIsLong, StoreToken, Goto
<1>9. AnswerIsLong' /\ TokenIsAlive'
  BY <1>2, <1>3 DEF IInv, AnswerIsLong, TokenIsAlive, StoreToken, Goto
<1> QED  BY <1>1, <1>6, <1>7, <1>8, <1>9 DEF IInv

(* The expiry goes beside a token that bears it.                           *)
LEMMA StoreExpiryKeeps ==
  ASSUME IInv, NEW c \in Caller, StoreExpiry(c)
  PROVE  IInv'
<1>1. TypeOK'
  BY DEF IInv, TypeOK, StoreExpiry, Goto, Step
<1>2. \A d \in Caller : d # c => pc'[d] = pc[d]
  BY DEF IInv, TypeOK, StoreExpiry, Goto
<1>3. pc[c] = "stored" /\ pc'[c] = "return"
  BY DEF IInv, TypeOK, StoreExpiry, Goto
<1>4. now[c] + Life <= token + Age + Delay /\ now[c] <= clock
  BY <1>3 DEF IInv, Timely, HalfStored
<1>5. now[c] \in Nat /\ clock \in Nat /\ token \in Nat
  BY DEF IInv, TypeOK
<1>6. PairIsClose'
  BY <1>4, <1>5 DEF PairIsClose, StoreExpiry, Goto
<1>7. now[c] + Delay < token
  BY <1>4, <1>5
<1>8. HalfStored' /\ ReturnIsLong'
  BY <1>2, <1>3, <1>7 DEF IInv, HalfStored, ReturnIsLong, StoreExpiry, Goto
<1>9. Timely' /\ AnswerIsLong' /\ TokenIsAlive'
  BY <1>2, <1>3 DEF IInv, Timely, AnswerIsLong, TokenIsAlive, StoreExpiry, Goto
<1> QED  BY <1>1, <1>6, <1>8, <1>9 DEF IInv

LEMMA AccessTokenKeeps ==
  ASSUME IInv, NEW c \in Caller, AccessToken(c)
  PROVE  IInv'
<1>0. PairIsClose'
  BY DEF IInv, PairIsClose, AccessToken, Leave, Goto
<1>1. CASE Fresh(clock)
  <2>1. /\ pc' \in [Caller -> Step] /\ now' \in [Caller -> Nat]
        /\ kind = "firebase_admin" => pc' \in [Caller -> {"idle", "fetching", "fetched"}]
        /\ answer' \in [Caller -> [token : Nat, expires_in : Nat]]
        /\ Timely' /\ HalfStored' /\ AnswerIsLong' /\ ReturnIsLong'
    BY <1>1, LeaveKeeps DEF AccessToken
  <2>2. clock < token
    BY <1>1, FreshIsLong DEF IInv, TypeOK
  <2>3. TokenIsAlive' /\ out' \in [token : Nat, at : Nat]
    BY <1>1, <2>2 DEF IInv, TypeOK, TokenIsAlive, AccessToken, Hand
  <2>4. TypeOK'
    BY <1>1, <2>1, <2>3 DEF IInv, TypeOK, AccessToken, Leave, Goto
  <2> QED  BY <1>0, <2>1, <2>3, <2>4 DEF IInv
<1>2. CASE ~Fresh(clock)
  <2>1. TypeOK'
    BY <1>2 DEF IInv, TypeOK, AccessToken, Goto, Step
  <2>2. \A d \in Caller : d # c => now'[d] = now[d] /\ pc'[d] = pc[d]
    BY <1>2 DEF IInv, TypeOK, AccessToken, Goto
  <2>3. now'[c] = clock /\ pc'[c] = "fetching" /\ clock \in Nat
    BY <1>2 DEF IInv, TypeOK, AccessToken, Goto
  <2>4. Timely'
    BY <1>2, <2>2, <2>3 DEF IInv, TypeOK, Timely, AccessToken, Goto
  <2>5. HalfStored' /\ AnswerIsLong' /\ ReturnIsLong' /\ TokenIsAlive'
    BY <1>2, <2>2, <2>3 DEF IInv, HalfStored, AnswerIsLong, ReturnIsLong, TokenIsAlive,
                            AccessToken, Goto
  <2> QED  BY <1>0, <2>1, <2>4, <2>5 DEF IInv
<1> QED  BY <1>1, <1>2

(* On the event loop the pair is one answer's.                             *)
LEMMA RenewKeeps ==
  ASSUME IInv, NEW c \in Caller, Renew(c)
  PROVE  IInv'
<1>1. /\ now[c] + answer[c].expires_in <= answer[c].token
      /\ Delay < answer[c].expires_in /\ answer[c].expires_in <= Life
  BY DEF IInv, AnswerIsLong, Renew
<1>2. /\ now[c] \in Nat /\ clock \in Nat /\ now[c] <= clock /\ clock <= now[c] + Delay
      /\ answer[c].token \in Nat /\ answer[c].expires_in \in Nat
  BY DEF IInv, TypeOK, Timely, Renew
<1>3. kind = "firebase_admin" /\ \A d \in Caller : pc'[d] \in {"idle", "fetching", "fetched"}
  BY DEF IInv, TypeOK, Renew, Leave, Goto
<1>4. \A d \in Caller : d # c => now'[d] = now[d] /\ pc'[d] = pc[d] /\ answer'[d] = answer[d]
  BY DEF IInv, TypeOK, Renew, Leave, Goto
<1>5. now'[c] = 0 /\ pc'[c] = "idle"
  BY DEF IInv, TypeOK, Renew, Leave, Goto
<1>6. TypeOK'
  BY <1>2 DEF IInv, TypeOK, Renew, Leave, Goto, Hand, Step, None
<1>7. PairIsClose' /\ TokenIsAlive'
  BY <1>1, <1>2 DEF IInv, PairIsClose, TokenIsAlive, Renew, Leave, Goto, Hand
<1>8. Timely'
  BY <1>2, <1>4, <1>5 DEF IInv, Timely, Renew, Leave, Goto
<1>9. HalfStored' /\ ReturnIsLong'
  BY <1>3 DEF HalfStored, ReturnIsLong
<1>10. AnswerIsLong'
  BY <1>4, <1>5 DEF IInv, AnswerIsLong, Renew, Leave, Goto
<1> QED  BY <1>6, <1>7, <1>8, <1>9, <1>10 DEF IInv

LEMMA TickKeeps ==
  ASSUME IInv, Tick
  PROVE  IInv'
<1>1. TypeOK' /\ clock' = clock + 1 /\ clock \in Nat
  BY DEF IInv, TypeOK, Tick
<1>2. Timely'
  BY <1>1 DEF IInv, TypeOK, Timely, Tick
<1>3. PairIsClose' /\ HalfStored' /\ AnswerIsLong' /\ ReturnIsLong' /\ TokenIsAlive'
  BY <1>1 DEF IInv, TypeOK, PairIsClose, HalfStored, AnswerIsLong, ReturnIsLong,
              TokenIsAlive, Tick
<1> QED  BY <1>1, <1>2, <1>3 DEF IInv

LEMMA StepKeeps == IInv /\ [Next]_vars => IInv'
<1> SUFFICES ASSUME IInv, [Next]_vars PROVE IInv'
  OBVIOUS
<1>1. CASE Tick
  BY <1>1, TickKeeps
<1>2. ASSUME NEW c \in Caller, FreshToken(c) \/ Check(c) \/ Return(c)
      PROVE  IInv'
  BY <1>2, FreshTokenKeeps, CheckKeeps, ReturnKeeps
<1>3. ASSUME NEW c \in Caller, StoreToken(c) \/ StoreExpiry(c)
      PROVE  IInv'
  BY <1>3, StoreTokenKeeps, StoreExpiryKeeps
<1>4. ASSUME NEW c \in Caller, AccessToken(c) \/ Renew(c)
      PROVE  IInv'
  BY <1>4, AccessTokenKeeps, RenewKeeps
<1>5. ASSUME NEW c \in Caller, Serve(c) \/ Fail(c)
      PROVE  IInv'
  BY <1>5, ServeKeeps, FailKeeps
<1>6. CASE UNCHANGED vars
  BY <1>6 DEF vars, IInv, TypeOK, Timely, PairIsClose, HalfStored, AnswerIsLong,
              ReturnIsLong, TokenIsAlive
<1> QED  BY <1>1, <1>2, <1>3, <1>4, <1>5, <1>6 DEF Next

(* The gap between the cached expiry and the token's own stays within what *)
(* SKEW pays for, whatever the threads do to each other's writes.          *)
THEOREM TokenInvariance == Spec => []IInv
<1>1. Init => IInv
  BY InitEstablishes
<1>2. IInv /\ [Next]_vars => IInv'
  BY StepKeeps
<1> QED  BY <1>1, <1>2, PTL DEF Spec

(* Neither cache ever hands out a token that has expired.                  *)
THEOREM TokensAreAlive == Spec => []TokenIsAlive
<1>1. IInv => TokenIsAlive
  BY DEF IInv
<1> QED  BY <1>1, TokenInvariance, PTL
=============================================================================
