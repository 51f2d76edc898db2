-------------------------- MODULE CoreChannelProofs --------------------------
(***************************************************************************)
(* Proofs about CoreChannel, for any set of intents, any kinds of write    *)
(* and any numbers of attempts and sendings.                               *)
(***************************************************************************)
EXTENDS CoreChannel, TLAPS

(* The three sorts of keys do not collide, and a minted key tells its call. *)
LEMMA KeysDistinct ==
    /\ \A i, j, n : Caller(i) # Minted(j, n)
    /\ \A i, j : Caller(i) = Caller(j) => i = j
    /\ \A i, j, n, k : Minted(i, n) = Minted(j, k) => i = j /\ n = k
    /\ \A i, n : Caller(i) # NoKey /\ Minted(i, n) # NoKey
BY DEF Caller, Minted, NoKey

LEMMA IdempotencyType ==
    ASSUME NEW i \in Intent, NEW n \in 1 .. MaxSends
    PROVE  Idempotency(i, n) \in Key
BY DEF Idempotency, Key

(* The message of an attempt is typed and carries the key of its call.     *)
LEMMA RequestType ==
    ASSUME NEW i \in Intent, NEW n \in 1 .. MaxSends, NEW a \in 1 .. MaxAttempts
    PROVE  /\ Request(i, n, a) \in Message
           /\ Request(i, n, a).key = Idempotency(i, n)
           /\ Request(i, n, a).intent = i /\ Request(i, n, a).send = n
BY IdempotencyType DEF Request, Message

-----------------------------------------------------------------------------
(* Only Execute touches the ledger; the other steps keep it if what they   *)
(* put on the wire is the message of a call.                               *)
LEMMA LedgerFrame ==
    ASSUME IInv, kind' = kind, done' = done, effects' = effects,
           \A m \in wire' : m \in wire \/ m.key = Idempotency(m.intent, m.send),
           \A i \in Intent : pc'[i] = "calling" => sends'[i] # 0 /\ attempt'[i] # 0
    PROVE  LedgerInv'
<1>1. \A i, n : Idempotency(i, n)' = Idempotency(i, n)
    BY DEF Idempotency
<1> QED BY <1>1 DEF IInv, LedgerInv

(* A step that leaves the core alone keeps the answers earned, if every    *)
(* answer it leaves was there already.                                     *)
LEMMA AnswerFrame ==
    ASSUME IInv, kind' = kind, done' = done, effects' = effects,
           \A i \in Intent : {answer'[i], outcome'[i]}
                 \subseteq {answer[i], outcome[i], "none", "UNAVAILABLE", "DEADLINE_EXCEEDED"}
    PROVE  AnswerInv'
<1>1. \A i, n : Idempotency(i, n)' = Idempotency(i, n)
    BY DEF Idempotency
<1>2. ASSUME NEW i \in Intent, NEW w \in {"OK", "INVALID_ARGUMENT"}, w \in {answer'[i], outcome'[i]}
      PROVE  w \in {answer[i], outcome[i]}
    BY <1>2
<1> QED BY <1>1, <1>2 DEF IInv, AnswerInv

LEMMA SendStep ==
    ASSUME IInv, NEW i \in Intent, Send(i)
    PROVE  IInv'
<1> DEFINE m == Request(i, sends[i] + 1, 1)
<1>1. sends[i] \in 0 .. MaxSends /\ sends[i] + 1 \in 1 .. MaxSends /\ 1 \in 1 .. MaxAttempts
    BY SendsAssumption DEF Send, IInv, TypeOK
<1>2. m \in Message /\ m.key = Idempotency(m.intent, m.send)
    BY <1>1, RequestType
<1> HIDE DEF m
<1>3. /\ wire' = wire \cup {m}
      /\ sends' = [sends EXCEPT ![i] = @ + 1]
      /\ attempt' = [attempt EXCEPT ![i] = 1]
      /\ pc' = [pc EXCEPT ![i] = "calling"]
      /\ outcome' = [outcome EXCEPT ![i] = "none"]
      /\ answer' = [answer EXCEPT ![i] = "none"]
      /\ UNCHANGED <<kind, done, effects>>
    BY DEF Send, m
<1>4. TypeOK'
    <2>1. sends' \in [Intent -> 0 .. MaxSends] /\ attempt' \in [Intent -> 0 .. MaxAttempts]
        BY <1>1, <1>3 DEF IInv, TypeOK
    <2> QED BY <1>2, <1>3, <2>1 DEF IInv, TypeOK, Outcome
<1>5. \A j \in Intent : pc'[j] = "calling" => sends'[j] # 0 /\ attempt'[j] # 0
    BY <1>1, <1>3 DEF IInv, TypeOK, LedgerInv
<1>6. LedgerInv'
    BY <1>2, <1>3, <1>5, LedgerFrame
<1>7. AnswerInv'
    BY <1>3, AnswerFrame DEF IInv, TypeOK
<1> QED BY <1>4, <1>6, <1>7 DEF IInv

LEMMA RetryStep ==
    ASSUME IInv, NEW i \in Intent, Retry(i)
    PROVE  IInv'
<1>1. CASE attempt[i] < MaxAttempts
    <2> DEFINE m == Request(i, sends[i], attempt[i] + 1)
    <2>1. sends[i] \in 1 .. MaxSends /\ attempt[i] + 1 \in 1 .. MaxAttempts
        BY <1>1, SendsAssumption DEF Retry, IInv, TypeOK, LedgerInv
    <2>2. m \in Message /\ m.key = Idempotency(m.intent, m.send)
        BY <2>1, RequestType
    <2> HIDE DEF m
    <2>3. /\ wire' = wire \cup {m}
          /\ attempt' = [attempt EXCEPT ![i] = @ + 1]
          /\ answer' = [answer EXCEPT ![i] = "none"]
          /\ UNCHANGED <<kind, pc, sends, done, effects, outcome>>
        BY <1>1 DEF Retry, m, IInv, TypeOK
    <2>4. TypeOK'
        <3>1. attempt' \in [Intent -> 0 .. MaxAttempts]
            BY <2>1, <2>3 DEF IInv, TypeOK
        <3> QED BY <2>2, <2>3, <3>1 DEF IInv, TypeOK, Outcome
    <2>5. \A j \in Intent : pc'[j] = "calling" => sends'[j] # 0 /\ attempt'[j] # 0
        BY <2>1, <2>3 DEF IInv, TypeOK, LedgerInv
    <2>6. LedgerInv'
        BY <2>2, <2>3, <2>5, LedgerFrame
    <2>7. AnswerInv'
        BY <2>3, AnswerFrame DEF IInv, TypeOK
    <2> QED BY <2>4, <2>6, <2>7 DEF IInv
<1>2. CASE ~(attempt[i] < MaxAttempts)
    <2>1. /\ pc' = [pc EXCEPT ![i] = "answered"]
          /\ outcome' = [outcome EXCEPT ![i] = "UNAVAILABLE"]
          /\ UNCHANGED <<kind, sends, attempt, wire, answer, done, effects>>
        BY <1>2 DEF Retry, Ends
    <2>2. TypeOK'
        BY <2>1 DEF IInv, TypeOK, Outcome
    <2>3. LedgerInv'
        BY <2>1, LedgerFrame DEF IInv, TypeOK, LedgerInv
    <2>4. AnswerInv'
        BY <2>1, AnswerFrame DEF IInv, TypeOK
    <2> QED BY <2>2, <2>3, <2>4 DEF IInv
<1> QED BY <1>1, <1>2

(* A call that ends, by its deadline or by an answer.                      *)
LEMMA EndStep ==
    ASSUME IInv, NEW i \in Intent, Deadline(i) \/ Answer(i)
    PROVE  IInv'
<1>1. PICK status \in Outcome : Ends(i, status) /\ status \in {answer[i], "DEADLINE_EXCEEDED"}
    BY DEF Deadline, Answer, IInv, TypeOK, Outcome
<1>2. UNCHANGED <<kind, sends, attempt, wire, answer, done, effects>>
    BY DEF Deadline, Answer
<1>3. TypeOK'
    BY <1>1, <1>2 DEF IInv, TypeOK, Ends
<1>4. LedgerInv'
    BY <1>1, <1>2, LedgerFrame DEF IInv, TypeOK, LedgerInv, Ends
<1>5. AnswerInv'
    BY <1>1, <1>2, AnswerFrame DEF IInv, TypeOK, Ends
<1> QED BY <1>3, <1>4, <1>5 DEF IInv

(* The core adds an effect only for a key it has not recorded, and records *)
(* every key it acts on.                                                   *)
LEMMA ExecuteStep ==
    ASSUME IInv, NEW m \in wire, Execute(m)
    PROVE  IInv'
<1> DEFINE refused == kind[m.intent].key = "client" /\ m.key = NoKey
           known   == m.key # NoKey /\ m.key \in done
<1>0. m \in Message /\ m.intent \in Intent /\ m.key \in Key
    BY DEF IInv, TypeOK, Message
<1>1. /\ wire' = wire \ {m}
      /\ effects' = IF refused \/ known THEN effects ELSE effects \cup {m}
      /\ done' = IF m.key = NoKey THEN done ELSE done \cup {m.key}
      /\ UNCHANGED <<kind, pc, sends, attempt, outcome>>
    BY DEF Execute
<1>2. answer' \in [Intent -> Outcome]
    BY <1>0 DEF Execute, IInv, TypeOK, Outcome
<1>3. TypeOK'
    BY <1>0, <1>1, <1>2 DEF IInv, TypeOK
<1>4. \A i, n : Idempotency(i, n)' = Idempotency(i, n)
    BY <1>1 DEF Idempotency
<1>5. /\ \A i \in Intent : pc'[i] = "calling" => sends'[i] # 0 /\ attempt'[i] # 0
      /\ \A x \in wire' \cup effects' : x.key = Idempotency(x.intent, x.send)'
    BY <1>1, <1>4 DEF IInv, LedgerInv
<1>6. ASSUME NEW x \in effects'
      PROVE  x.key = NoKey \/ (x.key \in done' /\ \A y \in effects' : y.key = x.key => y = x)
    <2>1. CASE x \in effects /\ effects' = effects
        BY <1>1, <2>1 DEF IInv, LedgerInv
    <2>2. CASE effects' # effects
        <3>1. effects' = effects \cup {m} /\ ~known
            BY <1>1, <2>2
        <3>2. CASE m.key = NoKey
            BY <1>1, <3>1, <3>2 DEF IInv, LedgerInv
        <3>3. CASE m.key # NoKey
            <4>1. m.key \notin done /\ m.key \in done' /\ done \subseteq done'
                BY <1>1, <3>1, <3>3
            <4>2. \A y \in effects : y.key # m.key
                BY <3>3, <4>1 DEF IInv, LedgerInv
            <4> QED BY <1>6, <3>1, <4>1, <4>2 DEF IInv, LedgerInv
        <3> QED BY <3>2, <3>3
    <2> QED BY <1>6, <2>1, <2>2
<1>7. \A x \in effects' : kind'[x.intent].key = "client" => x.key # NoKey
    BY <1>1 DEF IInv, LedgerInv
<1>8. LedgerInv'
    BY <1>5, <1>6, <1>7 DEF LedgerInv
<1>9. AnswerInv'
    <2>1. effects \subseteq effects' /\ (~refused /\ ~known => m \in effects')
        BY <1>1
    <2>2. ASSUME NEW k \in done' PROVE \E x \in effects' : x.key = k
        <3>1. CASE k \in done
            BY <2>1, <3>1 DEF IInv, AnswerInv
        <3>2. CASE k \notin done
            <4>1. k = m.key /\ m.key # NoKey /\ ~refused /\ ~known
                BY <1>1, <2>2, <3>2
            <4> QED BY <2>1, <4>1
        <3> QED BY <3>1, <3>2
    <2>3. ~refused => \E x \in effects' : x.intent = m.intent
        <3>1. CASE ~refused /\ ~known
            BY <2>1, <3>1
        <3>2. CASE known
            <4>1. PICK x \in effects : x.key = m.key
                BY <3>2 DEF IInv, AnswerInv
            <4>2. m.key = Idempotency(m.intent, m.send) /\ x.key = Idempotency(x.intent, x.send)
                BY DEF IInv, LedgerInv
            <4>3. x.intent = m.intent
                BY <3>2, <4>1, <4>2, KeysDistinct DEF Idempotency
            <4> QED BY <2>1, <4>3
        <3> QED BY <3>1, <3>2
    <2>4. refused => /\ kind[m.intent].key = "client"
                     /\ \A n \in 1 .. MaxSends : Idempotency(m.intent, n) = NoKey
        <3> SUFFICES ASSUME refused, NEW n \in 1 .. MaxSends
                     PROVE  Idempotency(m.intent, n) = NoKey
            OBVIOUS
        <3>1. Idempotency(m.intent, m.send) = NoKey
            BY DEF IInv, LedgerInv
        <3> QED BY <3>1, KeysDistinct DEF Idempotency
    <2>5. ASSUME NEW i \in Intent
          PROVE  \/ answer'[i] = answer[i]
                 \/ i = m.intent /\ answer'[i] = IF refused THEN "INVALID_ARGUMENT" ELSE "OK"
        BY <1>0 DEF Execute, IInv, TypeOK
    <2>6. ASSUME NEW i \in Intent, "OK" \in {answer'[i], outcome'[i]}
          PROVE  \E x \in effects' : x.intent = i
        <3>1. CASE "OK" \in {answer[i], outcome[i]}
            BY <2>1, <3>1 DEF IInv, AnswerInv
        <3>2. CASE ~("OK" \in {answer[i], outcome[i]})
            <4>1. i = m.intent /\ ~refused
                BY <1>1, <2>5, <2>6, <3>2
            <4> QED BY <2>3, <4>1
        <3> QED BY <3>1, <3>2
    <2>7. ASSUME NEW i \in Intent, "INVALID_ARGUMENT" \in {answer'[i], outcome'[i]}
          PROVE  kind[i].key = "client" /\ \A n \in 1 .. MaxSends : Idempotency(i, n) = NoKey
        <3>1. CASE "INVALID_ARGUMENT" \in {answer[i], outcome[i]}
            BY <3>1 DEF IInv, AnswerInv
        <3>2. CASE ~("INVALID_ARGUMENT" \in {answer[i], outcome[i]})
            <4>1. i = m.intent /\ refused
                BY <1>1, <2>5, <2>7, <3>2
            <4> QED BY <2>4, <4>1
        <3> QED BY <3>1, <3>2
    <2> QED BY <1>1, <1>4, <2>2, <2>6, <2>7 DEF AnswerInv
<1> QED BY <1>3, <1>8, <1>9 DEF IInv

-----------------------------------------------------------------------------
(* The ledger of keys and effects is consistent in every reachable state.  *)
THEOREM ChannelInvariance == Spec => []IInv
<1>1. Init => IInv
    BY SendsAssumption DEF Init, IInv, TypeOK, LedgerInv, AnswerInv, Outcome
<1>2. IInv /\ [Next]_vars => IInv'
    <2> SUFFICES ASSUME IInv, [Next]_vars PROVE IInv'
        OBVIOUS
    <2>1. ASSUME NEW i \in Intent, Send(i) \/ Retry(i) \/ Deadline(i) \/ Answer(i)
          PROVE  IInv'
        BY <2>1, SendStep, RetryStep, EndStep
    <2>2. ASSUME NEW m \in wire, Execute(m) PROVE IInv'
        BY <2>2, ExecuteStep
    <2>3. CASE UNCHANGED vars
        BY <2>3 DEF vars, IInv, TypeOK, LedgerInv, AnswerInv, Idempotency
    <2> QED BY <2>1, <2>2, <2>3 DEF Next
<1> QED BY <1>1, <1>2, PTL DEF Spec

(* A keyed write is carried out at most once per call, however many        *)
(* attempts the channel makes and whenever the core gets to them.          *)
THEOREM KeyedOncePerCall == Spec => []OncePerCall
<1>1. IInv => OncePerCall
    <2> SUFFICES ASSUME IInv, NEW m \in effects, NEW x \in effects,
                        m.intent = x.intent, m.send = x.send, kind[m.intent].key # "none"
                 PROVE  m = x
        BY DEF OncePerCall
    <2>1. m.key = x.key /\ m.key = Idempotency(m.intent, m.send)
        BY DEF IInv, LedgerInv
    <2>2. m.key # NoKey
        <3>1. kind[m.intent].key \in {"edge", "client"}
            BY KindAssumption DEF IInv, TypeOK, Message, WriteKind
        <3>2. CASE kind[m.intent].key = "client"
            BY <3>2 DEF IInv, LedgerInv
        <3>3. CASE kind[m.intent].key = "edge"
            BY <2>1, <3>3, KeysDistinct DEF Idempotency
        <3> QED BY <3>1, <3>2, <3>3
    <2> QED BY <2>1, <2>2 DEF IInv, LedgerInv
<1> QED BY <1>1, ChannelInvariance, PTL

(* A caller that repeats its own key is served once however often it sends *)
(* again, and so is every turn of the agent.                               *)
THEOREM KeyedOncePerIntent == Spec => []OncePerIntent
<1>1. IInv => OncePerIntent
    <2> SUFFICES ASSUME IInv, NEW m \in effects, NEW x \in effects,
                        m.intent = x.intent, kind[m.intent].key # "none",
                        \/ kind[m.intent].key = "client"
                        \/ kind[m.intent].handsOn /\ kind[m.intent].offered
                 PROVE  m = x
        BY DEF OncePerIntent
    <2>1. /\ m.key = Idempotency(m.intent, m.send) /\ x.key = Idempotency(m.intent, x.send)
          /\ kind[m.intent].key = "client" => m.key # NoKey /\ x.key # NoKey
        BY DEF IInv, LedgerInv
    <2>2. m.key = Caller(m.intent) /\ x.key = Caller(m.intent)
        <3>1. CASE kind[m.intent].handsOn /\ kind[m.intent].offered
            BY <2>1, <3>1 DEF Idempotency
        <3>2. CASE ~(kind[m.intent].handsOn /\ kind[m.intent].offered)
            BY <2>1, <3>2 DEF Idempotency
        <3> QED BY <3>1, <3>2
    <2> QED BY <2>2, KeysDistinct DEF IInv, LedgerInv
<1> QED BY <1>1, ChannelInvariance, PTL

(* Whoever reads OK has had its own write carried out, and whoever reads a *)
(* refusal has had nothing carried out, for any number of writes under way *)
(* at once and whatever is lost, repeated or late.                         *)
THEOREM AnswersAreEarned == Spec => []AnswerIsEarned
<1>1. IInv => AnswerIsEarned
    <2> SUFFICES ASSUME IInv, NEW i \in Intent
                 PROVE  /\ outcome[i] = "OK" => \E m \in effects : m.intent = i
                        /\ outcome[i] = "INVALID_ARGUMENT" => \A m \in effects : m.intent # i
        BY DEF AnswerIsEarned
    <2>1. outcome[i] = "OK" => \E m \in effects : m.intent = i
        BY DEF IInv, AnswerInv
    <2>2. ASSUME outcome[i] = "INVALID_ARGUMENT", NEW m \in effects, m.intent = i
          PROVE  FALSE
        <3>1. m.send \in 1 .. MaxSends
            BY DEF IInv, TypeOK, Message
        <3>2. m.key = NoKey /\ kind[m.intent].key = "client"
            BY <2>2, <3>1 DEF IInv, AnswerInv, LedgerInv
        <3> QED BY <3>2 DEF IInv, LedgerInv
    <2> QED BY <2>1, <2>2
<1> QED BY <1>1, ChannelInvariance, PTL
=============================================================================
