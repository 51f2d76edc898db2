----------------------------- MODULE CoreChannel -----------------------------
(***************************************************************************)
(* A write on its way to the core: the idempotency key of the use case     *)
(* (_idempotency, CoreClient.idempotency_key), the channel's retry policy  *)
(* (_RETRY_POLICY) and the deadline of the call (_deadline).               *)
(*                                                                         *)
(* A caller wants one thing done (an intent) and may send it again after a *)
(* failure.  Each sending is one call of the use case; the channel may     *)
(* make several attempts of it.  A request that the channel has given up   *)
(* on may still be under way, and the core may still carry it out.         *)
(*                                                                         *)
(* External: the network, which need not deliver anything and delivers in  *)
(* any order (no step is obliged to take a request or an answer that is    *)
(* under way: staying there is being lost), and the core, which does a     *)
(* keyed write once per key (ADR-0013) and refuses a turn without a key.   *)
(***************************************************************************)
EXTENDS Naturals, FiniteSets

CONSTANTS
    Intent,     \* what callers want done, one write each
    Kind,       \* the kinds of write, of the set WriteKind
    MaxAttempts,  \* maxAttempts of the retry policy (4 in the code)
    MaxSends      \* bound: how often a caller sends the same intent

(* key:     what the use case does for a key: mints one when the caller    *)
(*          gave none ("edge"), passes the caller's or nothing ("client"), *)
(*          or has no field for it ("none")                                *)
(* handsOn: whether the port hands the caller's key to the use case        *)
(* offered: whether this caller sends one                                  *)
WriteKind == [key : {"edge", "client", "none"}, handsOn : BOOLEAN, offered : BOOLEAN]

ASSUME KindAssumption == Kind \subseteq WriteKind
ASSUME SendsAssumption == MaxSends \in Nat \ {0} /\ MaxAttempts \in Nat \ {0}

VARIABLES
    kind,      \* the kind of write each intent is
    pc,        \* of the edge's call for the intent
    sends,     \* how often it was sent
    attempt,   \* the attempt of the current call
    wire,      \* requests under way
    answer,    \* the core's answer to the current attempt, under way
    done,      \* the core's record of the keys it has seen
    effects,   \* history: the requests the core carried out
    outcome    \* what the caller read last

vars == <<kind, pc, sends, attempt, wire, answer, done, effects, outcome>>

NoKey == <<"no key">>

Caller(i)    == <<"caller's", i>>
Minted(i, n) == <<"minted", i, n>>

(* Mutant: the caller's key is ignored. *)
Idempotency_Mints(i, n) == IF kind[i].key = "none" THEN NoKey ELSE Minted(i, n)

(* Mutant: the fresh key is the default of the parameter, and so made once.*)
Idempotency_Default(i, n) ==
    LET k == kind[i]
    IN  IF k.key # "none" /\ k.handsOn /\ k.offered THEN Caller(i)
        ELSE IF k.key = "edge" THEN <<"minted">>
        ELSE NoKey

(* _idempotency: `key or core.idempotency_key()`, once per call of the use *)
(* case; run_turn passes the caller's key as it is.                        *)
Idempotency(i, n) ==
    LET k == kind[i]
    IN  IF k.key # "none" /\ k.handsOn /\ k.offered THEN Caller(i)
        ELSE IF k.key = "edge" THEN Minted(i, n)
        ELSE NoKey

(* Mutant: a key of its own for every attempt. *)
Request_PerAttempt(i, n, a) ==
    [ intent |-> i, send |-> n, attempt |-> a,
      key |-> IF kind[i].key = "edge" THEN Minted(i, n + a * MaxSends) ELSE Idempotency(i, n) ]

(* An attempt repeats the message of the call, key included.               *)
Request(i, n, a) ==
    [intent |-> i, send |-> n, attempt |-> a, key |-> Idempotency(i, n)]

Init ==
    /\ kind \in [Intent -> Kind]
    /\ pc = [i \in Intent |-> "idle"]
    /\ sends = [i \in Intent |-> 0]
    /\ attempt = [i \in Intent |-> 0]
    /\ answer = [i \in Intent |-> "none"]
    /\ wire = {} /\ done = {} /\ effects = {}
    /\ outcome = [i \in Intent |-> "none"]

-----------------------------------------------------------------------------
(* The caller sends, for the first time or again after a failure: the use  *)
(* case builds the message and makes the call.                             *)
Send(i) ==
    /\ sends[i] < MaxSends
    /\ pc[i] = "idle" \/ outcome[i] \in {"UNAVAILABLE", "DEADLINE_EXCEEDED"}
    /\ sends' = [sends EXCEPT ![i] = @ + 1]
    /\ attempt' = [attempt EXCEPT ![i] = 1]
    /\ pc' = [pc EXCEPT ![i] = "calling"]
    /\ outcome' = [outcome EXCEPT ![i] = "none"]
    /\ answer' = [answer EXCEPT ![i] = "none"]
    /\ wire' = wire \cup {Request(i, sends[i] + 1, 1)}
    /\ UNCHANGED <<kind, done, effects>>

Ends(i, status) ==
    /\ pc' = [pc EXCEPT ![i] = "answered"]
    /\ outcome' = [outcome EXCEPT ![i] = status]

(* Mutant: no maxAttempts. *)
Retry_NoLimit(i) ==
    /\ pc[i] = "calling"
    /\ attempt' = [attempt EXCEPT ![i] = @ + 1]
    /\ answer' = [answer EXCEPT ![i] = "none"]
    /\ wire' = wire \cup {Request(i, sends[i], attempt[i] + 1)}
    /\ UNCHANGED <<kind, pc, sends, done, effects, outcome>>

(* The channel is told UNAVAILABLE or DEADLINE_EXCEEDED for the attempt (a *)
(* connection broken before or after the core did the work): again, up to  *)
(* maxAttempts.                                                            *)
Retry(i) ==
    /\ pc[i] = "calling"
    /\ \/ /\ attempt[i] < MaxAttempts
          /\ attempt' = [attempt EXCEPT ![i] = @ + 1]
          /\ answer' = [answer EXCEPT ![i] = "none"]
          /\ wire' = wire \cup {Request(i, sends[i], attempt[i] + 1)}
          /\ UNCHANGED <<pc, outcome>>
       \/ /\ attempt[i] = MaxAttempts
          /\ Ends(i, "UNAVAILABLE")
          /\ UNCHANGED <<attempt, answer, wire>>
    /\ UNCHANGED <<kind, sends, done, effects>>

(* The deadline covers the attempts together.                              *)
Deadline(i) ==
    /\ pc[i] = "calling"
    /\ Ends(i, "DEADLINE_EXCEEDED")
    /\ UNCHANGED <<kind, sends, attempt, wire, answer, done, effects>>

(* The answer to the current attempt arrives.                              *)
Answer(i) ==
    /\ pc[i] = "calling" /\ answer[i] # "none"
    /\ Ends(i, answer[i])
    /\ UNCHANGED <<kind, sends, attempt, wire, answer, done, effects>>

(* External: the core carries a request out, or recognises its key.  The   *)
(* channel no longer listens to an attempt it has replaced.                *)
Execute(m) ==
    LET refused == kind[m.intent].key = "client" /\ m.key = NoKey
        known   == m.key # NoKey /\ m.key \in done
        awaited == m.send = sends[m.intent] /\ m.attempt = attempt[m.intent]
    IN  /\ wire' = wire \ {m}
        /\ answer' = IF awaited
                     THEN [answer EXCEPT ![m.intent] =
                             IF refused THEN "INVALID_ARGUMENT" ELSE "OK"]
                     ELSE answer
        /\ effects' = IF refused \/ known THEN effects ELSE effects \cup {m}
        /\ done' = IF m.key = NoKey THEN done ELSE done \cup {m.key}
        /\ UNCHANGED <<kind, pc, sends, attempt, outcome>>

Next ==
    \/ \E i \in Intent : Send(i) \/ Retry(i) \/ Deadline(i) \/ Answer(i)
    \/ \E m \in wire : Execute(m)

Spec == Init /\ [][Next]_vars

-----------------------------------------------------------------------------
Key == {NoKey} \cup {Caller(i) : i \in Intent}
       \cup {Minted(i, n) : i \in Intent, n \in 1 .. MaxSends}

Message ==
    [intent : Intent, send : 1 .. MaxSends, attempt : 1 .. MaxAttempts, key : Key]

Outcome == {"none", "OK", "INVALID_ARGUMENT", "UNAVAILABLE", "DEADLINE_EXCEEDED"}

TypeOK ==
    /\ kind \in [Intent -> Kind]
    /\ pc \in [Intent -> {"idle", "calling", "answered"}]
    /\ sends \in [Intent -> 0 .. MaxSends]
    /\ attempt \in [Intent -> 0 .. MaxAttempts]
    /\ wire \subseteq Message /\ effects \subseteq Message
    /\ answer \in [Intent -> Outcome]
    /\ done \subseteq Key
    /\ outcome \in [Intent -> Outcome]

(* The key belongs to the call and the core has every key it acted on.     *)
LedgerInv ==
    /\ \A i \in Intent : pc[i] = "calling" => sends[i] # 0 /\ attempt[i] # 0
    /\ \A m \in wire \cup effects : m.key = Idempotency(m.intent, m.send)
    /\ \A m \in effects :
            m.key = NoKey \/ (m.key \in done /\ \A x \in effects : x.key = m.key => x = m)
    /\ \A m \in effects : kind[m.intent].key = "client" => m.key # NoKey

(* A key on record is that of something done, and an answer, under way or  *)
(* read, is one the core gave to a request of its own intent.              *)
AnswerInv ==
    /\ \A k \in done : \E m \in effects : m.key = k
    /\ \A i \in Intent :
          /\ "OK" \in {answer[i], outcome[i]} => \E m \in effects : m.intent = i
          /\ "INVALID_ARGUMENT" \in {answer[i], outcome[i]} =>
                kind[i].key = "client" /\ \A n \in 1 .. MaxSends : Idempotency(i, n) = NoKey

IInv == TypeOK /\ LedgerInv /\ AnswerInv

(* A write that carries a key, whoever made the key, is carried out at     *)
(* most once per call: the channel's retries, and the attempts the core    *)
(* gets to after the channel gave up, add nothing.                         *)
OncePerCall ==
    \A m, x \in effects :
        /\ m.intent = x.intent /\ m.send = x.send
        /\ kind[m.intent].key # "none"
        => m = x

(* A caller that sends again under its own key, by a port that hands the   *)
(* key on, gets its write once; and a turn of the agent is never spent     *)
(* twice, key or no key.                                                   *)
OncePerIntent ==
    \A m, x \in effects :
        LET k == kind[m.intent]
        IN  /\ m.intent = x.intent
            /\ k.key # "none"
            /\ k.key = "client" \/ (k.handsOn /\ k.offered)
            => m = x

(* An answer is earned.  Whoever reads OK has had its own write carried    *)
(* out, though perhaps by an attempt, or a sending, it has given up on:    *)
(* the core answers OK to a key it knows, so two writes under one key would*)
(* leave the second undone and its caller content.  Whoever reads the      *)
(* refusal of a turn without a key has spent nothing, on any attempt.      *)
(* (_idempotency: a fresh key per call; run_turn passes the caller's.)     *)
AnswerIsEarned ==
    \A i \in Intent :
        /\ outcome[i] = "OK" => \E m \in effects : m.intent = i
        /\ outcome[i] = "INVALID_ARGUMENT" => \A m \in effects : m.intent # i

-----------------------------------------------------------------------------
(* Refuted: "Writes carry an idempotency_key (ADR-0013), so repeating is   *)
(* safe", the comment on the channel's retry policy.                       *)
RepeatingIsSafe ==
    \A m, x \in effects : m.intent = x.intent /\ m.send = x.send => m = x
=============================================================================
