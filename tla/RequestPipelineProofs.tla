------------------------ MODULE RequestPipelineProofs ------------------------
(***************************************************************************)
(* Proofs about RequestPipeline, for any set of requests, people, accounts *)
(* and use cases, any statuses of the core, any number of changes.         *)
(***************************************************************************)
EXTENDS RequestPipeline, SequenceTheorems, TLAPS

(* The causes the code builds are causes, and what a port answers for a    *)
(* cause is a reply.                                                       *)
LEMMA StatusTypes ==
    /\ \A code \in StatusCode : http_status_for(code) \in Nat
    /\ \A h \in Nat : grpc_status_for_http(h) \in StatusCode
    /\ \A h \in Nat : detail_for(h) \in Detail
<1>1. ASSUME NEW code \in StatusCode PROVE http_status_for(code) \in Nat
    BY <1>1 DEF http_status_for, STATUS_TO_HTTP, StatusCode
<1>2. ASSUME NEW h \in Nat PROVE grpc_status_for_http(h) \in StatusCode
    BY <1>2 DEF grpc_status_for_http, StatusCode
<1>3. ASSUME NEW h \in Nat PROVE detail_for(h) \in Detail
    BY <1>3 DEF detail_for, Detail
<1> QED BY <1>1, <1>2, <1>3

LEMMA CauseTypes ==
    /\ Returned \in Cause /\ Malformed \in Cause /\ Unhandled \in Cause
    /\ MergeRefusal \in Cause
    /\ \A h \in Nat : EdgeRefusal(h) \in Cause
    /\ \A code \in StatusCode : RpcError(code) \in Cause /\ as_http(code) \in Cause
<1>1. \A code \in StatusCode : as_http(code) \in Cause
    BY StatusTypes DEF as_http, Cause
<1> QED BY <1>1 DEF Returned, Malformed, Unhandled, MergeRefusal, EdgeRefusal,
                    RpcError, Cause, StatusCode, Detail

LEMMA ReplyTypes ==
    ASSUME NEW c \in Cause, NEW surface
    PROVE  ReplyOn(surface, c) \in Reply
<1>1. RestReply(c) \in Reply
    BY StatusTypes DEF RestReply, Reply, Cause, StatusCode
<1>2. GrpcReply(c) \in Reply
    <2>1. as_grpc(c.core) \in Reply
        BY StatusTypes DEF as_grpc, Reply, Cause
    <2>2. as_grpc_from_http(c) \in Reply
        BY StatusTypes DEF as_grpc_from_http, Reply, Cause, Detail
    <2> QED BY <2>1, <2>2 DEF GrpcReply, Reply, Cause, StatusCode, Detail
<1> QED BY <1>1, <1>2 DEF ReplyOn

-----------------------------------------------------------------------------
(* An answer is well typed, whatever the cause.                            *)
LEMMA AnswerTypes ==
    ASSUME TypeOK, NEW r \in Request, NEW surface, NEW c \in Cause,
           AnswerOn(r, surface, c)
    PROVE  /\ pc' \in [Request -> PC]
           /\ ctx' \in [Request -> Context]
           /\ cause' \in [Request -> Cause]
           /\ reply' \in [Request -> Reply]
<1>1. ReplyOn(surface, c) \in Reply
    BY ReplyTypes
<1> QED BY <1>1 DEF AnswerOn, TypeOK, PC, Context

LEMMA GotoTypes ==
    ASSUME TypeOK, NEW r \in Request, NEW label \in PC, Goto(r, label)
    PROVE  /\ pc' \in [Request -> PC]
           /\ cause' \in [Request -> Cause]
           /\ reply' \in [Request -> Reply]
BY DEF Goto, TypeOK

LEMMA EnterHandlerTypes ==
    ASSUME TypeOK, NEW r \in Request, req[r] \in Inbound,
           NEW u \in User \cup {NoUser}, NEW role \in Role \cup {NoRole},
           EnterHandler(r, u, role)
    PROVE  /\ pc' \in [Request -> PC]
           /\ ctx' \in [Request -> Context]
           /\ cause' \in [Request -> Cause]
           /\ reply' \in [Request -> Reply]
<1>1. req[r].account \in Account \cup {NoAccount}
    BY InboundAssumption DEF RequestRecord
<1>2. [user |-> u, account |-> req[r].account, role |-> role] \in Context
    BY <1>1 DEF Context
<1>3. ctx' \in [Request -> Context]
    BY <1>2 DEF EnterHandler, TypeOK
<1>4. Goto(r, "handling") /\ "handling" \in PC
    BY DEF EnterHandler, PC
<1> QED BY <1>3, <1>4, GotoTypes

LEMMA ResolverFailsTypes ==
    ASSUME TypeOK, NEW r \in Request, NEW errors \in SUBSET StatusCode,
           ResolverFails(r, errors)
    PROVE  /\ pc' \in [Request -> PC]
           /\ ctx' \in [Request -> Context]
           /\ cause' \in [Request -> Cause]
           /\ reply' \in [Request -> Reply]
<1>1. CASE \E code \in errors : Answer(r, as_http(code))
    <2> PICK code \in errors : Answer(r, as_http(code))
        BY <1>1
    <2> QED BY CauseTypes, AnswerTypes DEF Answer
<1>2. CASE Answer(r, EdgeRefusal(503))
    BY <1>2, CauseTypes, AnswerTypes DEF Answer
<1> QED BY <1>1, <1>2 DEF ResolverFails

(* Whatever a context is, its user and account are typed.                  *)
LEMMA ContextFields ==
    ASSUME NEW c \in Context
    PROVE  c.user \in User \cup {NoUser} /\ c.account \in Account \cup {NoAccount}
<1>1. CASE c = NoCtx
    <2>1. NoCtx.user = NoUser /\ NoCtx.account = NoAccount
        BY Zenon DEF NoCtx
    <2> QED BY <1>1, <2>1
<1>2. CASE c \in [ user : User \cup {NoUser}, account : Account \cup {NoAccount},
                    role : Role \cup {NoRole} ]
    BY <1>2
<1> QED BY <1>1, <1>2 DEF Context

(* A task that has calls to make sends well-typed ones.                    *)
LEMMA IssueTypes ==
    ASSUME IInv, NEW r \in Request, pc[r] = "calling", Issue(r)
    PROVE  sent' \in [Request -> SUBSET SentCall]
<1>1. todo[r] \in Seq(PlanStep) /\ todo[r] # <<>>
    BY DEF IInv, TypeOK, RequestInv, ContextInv
<1>2. Head(todo[r]) \subseteq CallRecord
    BY <1>1 DEF PlanStep
<1>3. ctx[r].user \in User \cup {NoUser} /\ ctx[r].account \in Account \cup {NoAccount}
    BY ContextFields DEF IInv, TypeOK
<1> PICK a \in Account :
        sent' = [sent EXCEPT ![r] = @ \cup {Metadata(r, call, a) : call \in Head(todo[r])}]
    BY DEF Issue
<1>4. \A call \in Head(todo[r]) : Metadata(r, call, a) \in SentCall
    BY <1>2, <1>3 DEF Metadata, SentCall
<1> QED BY <1>4 DEF IInv, TypeOK

(* Type correctness is inductive relative to the invariant on the locals   *)
(* (a task that has left "idle" carries a request).                        *)
LEMMA TypeStep ==
    ASSUME IInv, [Next]_vars
    PROVE  TypeOK'
<1> USE DEF IInv
<1> USE DEF core
<1>loc. \A r \in Request : LocalsInv(r)
    BY DEF RequestInv
<1>req. \A r \in Request : pc[r] # "idle" =>
            /\ req[r] \in Inbound
            /\ req[r].op \in Op
            /\ Case(r) \in CaseRecord
    BY <1>loc, InboundAssumption, UseCaseAssumption DEF LocalsInv, RequestRecord, Case
<1>1. ASSUME NEW r \in Request, NEW q \in Inbound, Arrive(r, q) PROVE TypeOK'
    <2>1. /\ membership' = membership /\ changes' = changes
          /\ user' = user /\ todo' = todo /\ sent' = sent /\ acked' = acked
          /\ req' \in [Request -> Inbound \cup {NoReq}]
          /\ held' \in [Request -> SUBSET Role]
        BY <1>1 DEF Arrive, TypeOK
    <2>2. /\ pc' \in [Request -> PC] /\ ctx' \in [Request -> Context]
          /\ cause' \in [Request -> Cause] /\ reply' \in [Request -> Reply]
        <3>1. CASE q.cred = NoToken
            <4>1. AnswerOn(r, q.surface, EdgeRefusal(401)) /\ EdgeRefusal(401) \in Cause
                BY <1>1, <3>1, CauseTypes DEF Arrive
            <4> QED BY <4>1, AnswerTypes
        <3>2. CASE q.cred # NoToken
            <4>1. Goto(r, "verifying") /\ ctx' = ctx /\ "verifying" \in PC
                BY <1>1, <3>2 DEF Arrive, PC
            <4> QED BY <4>1, GotoTypes DEF TypeOK
        <3> QED BY <3>1, <3>2
    <2> QED BY <2>1, <2>2 DEF TypeOK
<1>2. ASSUME NEW r \in Request, Verify(r) PROVE TypeOK'
    <2>1. /\ UNCHANGED <<membership, changes, req, user, todo, sent, acked, held>>
          /\ pc[r] # "idle"
        BY <1>2 DEF Verify
    <2>2. /\ pc' \in [Request -> PC] /\ ctx' \in [Request -> Context]
          /\ cause' \in [Request -> Cause] /\ reply' \in [Request -> Reply]
        <3>1. CASE EnterHandler(r, NoUser, NoRole)
            BY <2>1, <3>1, <1>req, EnterHandlerTypes
        <3>2. CASE Goto(r, "ensuring") /\ UNCHANGED ctx
            BY <3>2, GotoTypes DEF PC, TypeOK
        <3>3. CASE Answer(r, EdgeRefusal(401))
            BY <3>3, CauseTypes, AnswerTypes DEF Answer
        <3>4. CASE Answer(r, Unhandled)
            BY <3>4, CauseTypes, AnswerTypes DEF Answer
        <3> QED BY <1>2, <3>1, <3>2, <3>3, <3>4 DEF Verify
    <2> QED BY <2>1, <2>2 DEF TypeOK
<1>3. ASSUME NEW r \in Request, EnsureUser(r) PROVE TypeOK'
    <2>1. /\ UNCHANGED <<membership, changes, req, todo, sent, acked, held>>
          /\ pc[r] = "ensuring"
        BY <1>3 DEF EnsureUser
    <2>u. Caller(r) \in User
        BY <2>1, <1>loc DEF LocalsInv, Resolving
    <2>2. user' \in [Request -> User \cup {NoUser}]
        BY <1>3, <2>u DEF EnsureUser, TypeOK
    <2>3. /\ pc' \in [Request -> PC] /\ ctx' \in [Request -> Context]
          /\ cause' \in [Request -> Cause] /\ reply' \in [Request -> Reply]
        <3>1. CASE EnterHandler(r, Caller(r), NoRole)
            BY <2>1, <2>u, <3>1, <1>req, EnterHandlerTypes
        <3>2. CASE Goto(r, "asserting") /\ UNCHANGED ctx
            BY <3>2, GotoTypes DEF PC, TypeOK
        <3>3. CASE ResolverFails(r, CoreError)
            BY <3>3, ResolverFailsTypes, CoreErrorAssumption
        <3> QED BY <1>3, <3>1, <3>2, <3>3 DEF EnsureUser
    <2> QED BY <2>1, <2>2, <2>3 DEF TypeOK
<1>4. ASSUME NEW r \in Request, AssertMembership(r) PROVE TypeOK'
    <2>1. UNCHANGED <<membership, changes, req, user, todo, sent, acked, held>>
        BY <1>4 DEF AssertMembership
    <2>2. /\ pc' \in [Request -> PC] /\ ctx' \in [Request -> Context]
          /\ cause' \in [Request -> Cause] /\ reply' \in [Request -> Reply]
        <3>1. CASE Goto(r, "reading role") /\ UNCHANGED ctx
            BY <3>1, GotoTypes DEF PC, TypeOK
        <3>2. CASE Answer(r, EdgeRefusal(403))
            BY <3>2, CauseTypes, AnswerTypes DEF Answer
        <3>3. CASE ResolverFails(r, CoreError)
            BY <3>3, ResolverFailsTypes, CoreErrorAssumption
        <3> QED BY <1>4, <3>1, <3>2, <3>3 DEF AssertMembership
    <2> QED BY <2>1, <2>2 DEF TypeOK
<1>5. ASSUME NEW r \in Request, RoleInAccount(r) PROVE TypeOK'
    <2>1. /\ UNCHANGED <<membership, changes, req, user, todo, sent, acked, held>>
          /\ pc[r] = "reading role"
        BY <1>5 DEF RoleInAccount
    <2>u. user[r] \in User /\ req[r].account \in Account
        BY <2>1, <1>loc DEF LocalsInv, Resolving
    <2>m. RoleOf(membership[user[r]][req[r].account]) \in Role \cup {NoRole}
        BY <2>u DEF TypeOK, RoleOf
    <2>2. /\ pc' \in [Request -> PC] /\ ctx' \in [Request -> Context]
          /\ cause' \in [Request -> Cause] /\ reply' \in [Request -> Reply]
        <3>1. CASE EnterHandler(r, user[r], RoleOf(membership[user[r]][req[r].account]))
            BY <2>1, <2>u, <2>m, <3>1, <1>req, EnterHandlerTypes
        <3>2. CASE EnterHandler(r, user[r], NoRole)
            BY <2>1, <2>u, <3>2, <1>req, EnterHandlerTypes
        <3>3. CASE ResolverFails(r, CoreError \ Tolerable)
            BY <3>3, ResolverFailsTypes, CoreErrorAssumption
        <3> QED BY <1>5, <3>1, <3>2, <3>3 DEF RoleInAccount
    <2> QED BY <2>1, <2>2 DEF TypeOK
<1>6. ASSUME NEW r \in Request, Handle(r) PROVE TypeOK'
    <2>1. /\ UNCHANGED <<membership, changes, req, user, sent, acked, held>>
          /\ pc[r] = "handling"
        BY <1>6 DEF Handle
    <2>c. Case(r).plans \subseteq Seq(PlanStep) /\ Case(r).refusals \subseteq Nat
        BY <2>1, <1>req DEF CaseRecord, BodyRefusal
    <2>2. /\ pc' \in [Request -> PC] /\ ctx' \in [Request -> Context]
          /\ cause' \in [Request -> Cause] /\ reply' \in [Request -> Reply]
          /\ todo' \in [Request -> Seq(PlanStep)]
        <3>1. CASE Answer(r, Malformed) /\ UNCHANGED todo
            BY <3>1, CauseTypes, AnswerTypes DEF Answer, TypeOK
        <3>2. CASE Answer(r, EdgeRefusal(Denial(ctx[r], Case(r)))) /\ UNCHANGED todo
            <4>1. EdgeRefusal(Denial(ctx[r], Case(r))) \in Cause
                BY CauseTypes DEF Denial
            <4> QED BY <3>2, <4>1, AnswerTypes DEF Answer, TypeOK
        <3>3. CASE \E status \in Case(r).refusals :
                        Answer(r, EdgeRefusal(status)) /\ UNCHANGED todo
            <4> PICK status \in Case(r).refusals :
                        Answer(r, EdgeRefusal(status)) /\ UNCHANGED todo
                BY <3>3
            <4>1. EdgeRefusal(status) \in Cause
                BY <2>c, CauseTypes
            <4> QED BY <4>1, AnswerTypes DEF Answer, TypeOK
        <3>4. CASE Answer(r, Unhandled) /\ UNCHANGED todo
            BY <3>4, CauseTypes, AnswerTypes DEF Answer, TypeOK
        <3>5. CASE \E plan \in Case(r).plans :
                    /\ todo' = [todo EXCEPT ![r] = plan]
                    /\ IF plan = <<>>
                       THEN Answer(r, Returned)
                       ELSE Goto(r, "calling") /\ UNCHANGED ctx
            <4> PICK plan \in Case(r).plans :
                    /\ todo' = [todo EXCEPT ![r] = plan]
                    /\ IF plan = <<>>
                       THEN Answer(r, Returned)
                       ELSE Goto(r, "calling") /\ UNCHANGED ctx
                BY <3>5
            <4>1. todo' \in [Request -> Seq(PlanStep)]
                BY <2>c DEF TypeOK
            <4>2. CASE Answer(r, Returned)
                BY <4>1, <4>2, CauseTypes, AnswerTypes DEF Answer
            <4>3. CASE Goto(r, "calling") /\ UNCHANGED ctx
                BY <4>1, <4>3, GotoTypes DEF PC, TypeOK
            <4> QED BY <4>2, <4>3
        <3> QED BY <1>6, <3>1, <3>2, <3>3, <3>4, <3>5 DEF Handle
    <2> QED BY <2>1, <2>2 DEF TypeOK
<1>7. ASSUME NEW r \in Request, CallCore(r) PROVE TypeOK'
    <2>1. /\ UNCHANGED <<membership, changes, req, user, held>>
          /\ pc[r] = "calling"
        BY <1>7 DEF CallCore
    <2>t. todo[r] \in Seq(PlanStep) /\ todo[r] # <<>>
        BY <2>1 DEF TypeOK, RequestInv, ContextInv
    <2>h. Head(todo[r]) \subseteq CallRecord /\ Tail(todo[r]) \in Seq(PlanStep)
        BY <2>t DEF PlanStep
    <2>2. sent' \in [Request -> SUBSET SentCall]
        BY <1>7, <2>1, IssueTypes DEF CallCore
    <2>3. /\ acked' \in [Request -> SUBSET STRING]
          /\ todo' \in [Request -> Seq(PlanStep)]
        <3>1. {call.name : call \in Head(todo[r])} \subseteq STRING
            BY <2>h DEF CallRecord
        <3> QED BY <1>7, <2>h, <3>1 DEF CallCore, TypeOK
    <2>4. /\ pc' \in [Request -> PC] /\ ctx' \in [Request -> Context]
          /\ cause' \in [Request -> Cause] /\ reply' \in [Request -> Reply]
        <3>1. CASE Answer(r, Returned)
            BY <3>1, CauseTypes, AnswerTypes DEF Answer
        <3>2. CASE Goto(r, "calling") /\ UNCHANGED ctx
            BY <3>2, GotoTypes DEF PC, TypeOK
        <3>3. CASE \E code \in CoreError :
                    Answer(r, Failed(r, code))
            <4> PICK code \in CoreError :
                    Answer(r, Failed(r, code))
                BY <3>3
            <4>1. Failed(r, code) \in Cause
                BY CauseTypes, CoreErrorAssumption DEF Failed
            <4> QED BY <4>1, AnswerTypes DEF Answer
        <3> QED BY <1>7, <3>1, <3>2, <3>3 DEF CallCore
    <2> QED BY <2>1, <2>2, <2>3, <2>4 DEF TypeOK
<1>8. ASSUME NEW r \in Request, Hangup(r) PROVE TypeOK'
    <2>1. sent' \in [Request -> SUBSET SentCall]
        BY <1>8, IssueTypes DEF Hangup, TypeOK
    <2> QED BY <1>8, <2>1 DEF Hangup, TypeOK, PC, Context
<1>9. ASSUME NEW u \in User, NEW a \in Account, NEW m \in Role \cup {NoMember},
             ChangeMembership(u, a, m)
      PROVE  TypeOK'
    <2>1. membership' \in [User -> [Account -> Role \cup {NoMember}]]
        BY <1>9 DEF ChangeMembership, TypeOK
    <2>2. held' \in [Request -> SUBSET Role]
        BY <1>9 DEF ChangeMembership, TypeOK
    <2>3. changes' \in 0 .. MaxChanges
        BY <1>9, BoundAssumption DEF ChangeMembership, TypeOK
    <2> QED BY <1>9, <2>1, <2>2, <2>3 DEF ChangeMembership, TypeOK
<1>10. CASE UNCHANGED vars
    BY <1>10 DEF vars, TypeOK
<1> QED BY <1>1, <1>2, <1>3, <1>4, <1>5, <1>6, <1>7, <1>8, <1>9, <1>10 DEF Next, Step

-----------------------------------------------------------------------------
(* The invariant of a request speaks of that request and of the core's     *)
(* memberships, and of nothing else.                                       *)
LEMMA Frame ==
    ASSUME NEW q \in Request, RequestInv(q), membership' = membership,
           req'[q] = req[q], pc'[q] = pc[q], user'[q] = user[q], ctx'[q] = ctx[q],
           todo'[q] = todo[q], sent'[q] = sent[q], acked'[q] = acked[q],
           held'[q] = held[q], cause'[q] = cause[q], reply'[q] = reply[q]
    PROVE  RequestInv(q)'
<1>1. LocalsInv(q)' /\ HeldInv(q)'
    BY DEF RequestInv, LocalsInv, HeldInv, Caller
<1>2. ContextInv(q)'
    BY DEF RequestInv, ContextInv, Caller, Case, Admits
<1>3. SentInv(q)' /\ ReplyInv(q)' /\ AnswerEffect(q)'
    BY DEF RequestInv, SentInv, ReplyInv, AnswerEffect, Answered
<1>4. CallRole(q)' /\ CallIdentity(q)'
    BY DEF RequestInv, CallRole, CallIdentity, Caller, Case
<1> QED BY <1>1, <1>2, <1>3, <1>4 DEF RequestInv

(* A request without calls has none that could be wrong.                   *)
LEMMA NoCalls ==
    ASSUME NEW r \in Request, sent'[r] = {}
    PROVE  CallRole(r)' /\ CallIdentity(r)'
BY DEF CallRole, CallIdentity

(* Until its use case runs, a request has made no call.                    *)
LEMMA NothingSent ==
    ASSUME IInv, NEW r \in Request, pc[r] \notin {"calling", "done"}
    PROVE  sent[r] = {} /\ acked[r] = {}
BY DEF IInv, RequestInv, SentInv

(* Ending a request keeps its invariant if the cause fits the calls made.  *)
LEMMA AnswerInv ==
    ASSUME TypeOK, NEW r \in Request, NEW c \in PossibleCause, NEW surface,
           AnswerOn(r, surface, c),
           req'[r] \in Inbound, surface = req'[r].surface,
           CallRole(r)', CallIdentity(r)',
           c.raised \in {"http", "validation"} => sent'[r] = {},
           c.raised = "nothing" => {s.call.name : s \in sent'[r]} = acked'[r],
           c.raised = "rpc" => sent'[r] # {}
    PROVE  RequestInv(r)'
<1>1. /\ pc'[r] = "done" /\ ctx'[r] = NoCtx /\ cause'[r] = c
      /\ reply'[r] = ReplyOn(surface, c)
    BY DEF AnswerOn, TypeOK
<1>2. LocalsInv(r)' /\ HeldInv(r)' /\ SentInv(r)'
    BY <1>1 DEF LocalsInv, HeldInv, SentInv, Resolving, Handling
<1>3. ContextInv(r)'
    BY <1>1 DEF ContextInv, Handling
<1>4. ReplyInv(r)'
    BY <1>1 DEF ReplyInv, Answered
<1>5. AnswerEffect(r)'
    BY <1>1 DEF AnswerEffect, Answered
<1> QED BY <1>2, <1>3, <1>4, <1>5 DEF RequestInv

(* Moving on through the resolver keeps it.                                *)
LEMMA ResolveInv ==
    ASSUME IInv, NEW r \in Request, NEW label \in Resolving,
           pc[r] \in {"verifying"} \cup Resolving, Goto(r, label), Caller(r) \in User,
           UNCHANGED <<membership, req, ctx, sent, acked, held>>,
           label \in {"asserting", "reading role"} =>
                user'[r] = Caller(r) /\ req[r].account \in Account,
           label = "reading role" => held[r] # {}
    PROVE  RequestInv(r)'
<1>0. RequestInv(r) /\ sent[r] = {} /\ acked[r] = {}
    BY NothingSent DEF IInv, Resolving
<1>1. pc'[r] = label /\ reply'[r] = reply[r]
    BY DEF Goto, IInv, TypeOK
<1>2. LocalsInv(r)'
    BY <1>0, <1>1 DEF RequestInv, LocalsInv, Resolving, Caller
<1>3. HeldInv(r)'
    BY <1>0, <1>1 DEF RequestInv, HeldInv, Resolving, Caller
<1>4. ContextInv(r)'
    BY <1>0, <1>1 DEF RequestInv, ContextInv, Resolving, Handling
<1>5. SentInv(r)' /\ ReplyInv(r)' /\ AnswerEffect(r)'
    BY <1>0, <1>1 DEF RequestInv, SentInv, ReplyInv, AnswerEffect, Answered, Resolving
<1> QED BY <1>0, <1>2, <1>3, <1>4, <1>5, NoCalls DEF RequestInv

(* Setting auth_ctx keeps it if the context says only what was learned.    *)
LEMMA EnterInv ==
    ASSUME IInv, NEW r \in Request, NEW u, NEW role \in Role \cup {NoRole},
           EnterHandler(r, u, role),
           pc[r] \in {"verifying"} \cup Resolving, Caller(r) \in User,
           UNCHANGED <<membership, req, sent, acked, held>>,
           role = NoRole \/ (role \in held[r] /\ u = Caller(r)),
           u = Caller(r) \/ (Case(r).tokenOnly /\ u = NoUser),
           req[r].account # NoAccount /\ ~Case(r).tokenOnly => held[r] # {}
    PROVE  RequestInv(r)'
<1>0. RequestInv(r) /\ sent[r] = {} /\ acked[r] = {}
    BY NothingSent DEF IInv, Resolving
<1>1. /\ pc'[r] = "handling" /\ reply'[r] = reply[r]
      /\ ctx'[r] = [user |-> u, account |-> req[r].account, role |-> role]
    BY DEF EnterHandler, Goto, IInv, TypeOK
<1>2. LocalsInv(r)'
    BY <1>0, <1>1 DEF RequestInv, LocalsInv, Resolving, Caller
<1>3. HeldInv(r)'
    BY <1>0, <1>1 DEF RequestInv, HeldInv, Resolving, Caller
<1>4. ctx'[r] # NoCtx
    <2>1. NoCtx.role = "no context"
        BY Zenon DEF NoCtx
    <2>2. ctx'[r].role = role
        BY <1>1
    <2> QED BY <2>1, <2>2 DEF Role, NoRole
<1>5. ContextInv(r)'
    BY <1>1, <1>4 DEF ContextInv, Handling, Caller, Case
<1>6. SentInv(r)' /\ ReplyInv(r)' /\ AnswerEffect(r)'
    BY <1>0, <1>1 DEF RequestInv, SentInv, ReplyInv, AnswerEffect, Answered, Resolving
<1> QED BY <1>0, <1>2, <1>3, <1>5, <1>6, NoCalls DEF RequestInv

(* The calls of a step carry the caller's identity, and the role that let  *)
(* them through is one the caller held.                                    *)
LEMMA IssueInv ==
    ASSUME IInv, NEW r \in Request, pc[r] = "calling", Issue(r),
           UNCHANGED <<req, held>>
    PROVE  /\ CallRole(r)' /\ CallIdentity(r)'
           /\ sent'[r] # {}
           /\ {s.call.name : s \in sent'[r]} =
                acked[r] \cup {call.name : call \in Head(todo[r])}
<1>0. /\ RequestInv(r) /\ req[r] \in Inbound /\ Case(r) \in CaseRecord
      /\ req[r].account \in Account \cup {NoAccount}
    BY InboundAssumption, UseCaseAssumption
    DEF IInv, RequestInv, LocalsInv, RequestRecord, Case
<1>1. /\ Caller(r) \in User
      /\ ctx[r].account = req[r].account
      /\ ctx[r].role = NoRole \/ (ctx[r].role \in held[r] /\ ctx[r].user = Caller(r))
      /\ ctx[r].user = Caller(r) \/ (Case(r).tokenOnly /\ ctx[r].user = NoUser)
      /\ req[r].account # NoAccount /\ ~Case(r).tokenOnly => held[r] # {}
      /\ Admits(ctx[r], Case(r))
    BY <1>0 DEF RequestInv, LocalsInv, ContextInv, Resolving, Handling
<1>2. Case(r).roles # {} =>
            /\ ctx[r].user = Caller(r)
            /\ req[r].account \in Account
            /\ held[r] \cap Case(r).roles # {}
    <2>1. Case(r).roles \subseteq Role /\ NoRole \notin Role
        BY <1>0 DEF CaseRecord, NoRole, Role
    <2> QED BY <1>0, <1>1, <2>1 DEF Admits
<1> PICK a \in Account :
        sent' = [sent EXCEPT ![r] = @ \cup {Metadata(r, call, a) : call \in Head(todo[r])}]
    BY DEF Issue
<1>3. sent'[r] = sent[r] \cup {Metadata(r, call, a) : call \in Head(todo[r])}
    BY DEF IInv, TypeOK
<1>4. /\ Case(r)' = Case(r) /\ Caller(r)' = Caller(r)
    BY DEF Case, Caller
<1>5. ASSUME NEW call \in Head(todo[r])
      PROVE  /\ Metadata(r, call, a).call = call
             /\ Metadata(r, call, a).user = ctx[r].user
             /\ call.as = "explicit" => Metadata(r, call, a).account = a
             /\ call.as # "explicit" => Metadata(r, call, a).account = req[r].account
    BY <1>1 DEF Metadata
<1>6. CallRole(r)'
    <2>1. ASSUME NEW s \in sent'[r], Case(r).roles # {}
          PROVE  s.user = Caller(r) /\ s.account \in Account /\ held[r] \cap Case(r).roles # {}
        <3>1. CASE s \in sent[r]
            BY <1>0, <2>1, <3>1 DEF RequestInv, CallRole
        <3>2. CASE s \in {Metadata(r, call, a) : call \in Head(todo[r])}
            BY <1>2, <1>5, <2>1, <3>2
        <3> QED BY <1>3, <2>1, <3>1, <3>2
    <2> QED BY <1>4, <2>1 DEF CallRole
<1>7. CallIdentity(r)'
    <2>1. ASSUME NEW s \in sent'[r]
          PROVE  /\ Caller(r) \in User
                 /\ s.user = Caller(r) \/ (Case(r).tokenOnly /\ s.user = NoUser)
                 /\ s.call.as = "context" => s.account = req[r].account
                 /\ s.call.as = "context" /\ s.account # NoAccount /\ ~Case(r).tokenOnly
                        => held[r] # {}
        <3>1. CASE s \in sent[r]
            BY <1>0, <2>1, <3>1 DEF RequestInv, CallIdentity
        <3>2. CASE s \in {Metadata(r, call, a) : call \in Head(todo[r])}
            BY <1>1, <1>5, <2>1, <3>2
        <3> QED BY <1>3, <2>1, <3>1, <3>2
    <2> QED BY <1>4, <2>1 DEF CallIdentity
<1>8. Head(todo[r]) # {}
    <2>1. todo[r] \in Seq(PlanStep) /\ todo[r] # <<>>
        BY <1>0 DEF IInv, TypeOK, RequestInv, ContextInv
    <2> QED BY <2>1 DEF PlanStep
<1>9. {s.call.name : s \in sent[r]} = acked[r]
    BY <1>0 DEF RequestInv, SentInv
<1> QED BY <1>3, <1>5, <1>6, <1>7, <1>8, <1>9

-----------------------------------------------------------------------------
LEMMA PossibleCauses ==
    /\ Returned \in PossibleCause /\ Malformed \in PossibleCause
    /\ Unhandled \in PossibleCause /\ MergeRefusal \in PossibleCause
    /\ \A h \in {401, 403} \cup BodyRefusal : EdgeRefusal(h) \in PossibleCause
    /\ \A code \in CoreError :
            RpcError(code) \in PossibleCause /\ as_http(code) \in PossibleCause
    /\ \A h : EdgeRefusal(h).raised = "http"
    /\ \A code : RpcError(code).raised = "rpc" /\ as_http(code).raised = "http"
    /\ Returned.raised = "nothing" /\ Malformed.raised = "validation"
    /\ Unhandled.raised = "other" /\ MergeRefusal.raised = "refusal"
<1>1. /\ \A h : EdgeRefusal(h).raised = "http"
      /\ \A code : RpcError(code).raised = "rpc" /\ as_http(code).raised = "http"
      /\ Returned.raised = "nothing" /\ Malformed.raised = "validation"
      /\ Unhandled.raised = "other" /\ MergeRefusal.raised = "refusal"
    BY DEF EdgeRefusal, RpcError, as_http, Returned, Malformed, Unhandled, MergeRefusal
<1> QED BY <1>1, CoreErrorAssumption DEF PossibleCause

(* A failed resolution answers before any call was made.                   *)
LEMMA ResolverFailsInv ==
    ASSUME IInv, NEW r \in Request, NEW errors \in SUBSET CoreError,
           ResolverFails(r, errors), pc[r] \in Resolving,
           UNCHANGED <<req, sent, acked, held>>
    PROVE  RequestInv(r)'
<1>0. sent'[r] = {} /\ acked'[r] = {} /\ req'[r] \in Inbound
    BY NothingSent DEF IInv, RequestInv, LocalsInv, Resolving
<1>1. CallRole(r)' /\ CallIdentity(r)'
    BY <1>0, NoCalls
<1>2. CASE \E code \in errors : Answer(r, as_http(code))
    <2> PICK code \in errors : Answer(r, as_http(code))
        BY <1>2
    <2>1. as_http(code) \in PossibleCause /\ as_http(code).raised = "http"
        BY PossibleCauses
    <2>2. AnswerOn(r, req'[r].surface, as_http(code))
        BY DEF Answer
    <2> QED BY <1>0, <1>1, <2>1, <2>2, AnswerInv DEF IInv
<1>3. CASE Answer(r, EdgeRefusal(503))
    <2>1. EdgeRefusal(503) \in PossibleCause /\ EdgeRefusal(503).raised = "http"
        BY PossibleCauses DEF BodyRefusal
    <2>2. AnswerOn(r, req'[r].surface, EdgeRefusal(503))
        BY <1>3 DEF Answer
    <2> QED BY <1>0, <1>1, <2>1, <2>2, AnswerInv DEF IInv
<1> QED BY <1>2, <1>3 DEF ResolverFails

(* A refusal of the edge's own, or a fault, before any call.               *)
LEMMA RefusalInv ==
    ASSUME IInv, NEW r \in Request, NEW c \in PossibleCause, Answer(r, c),
           c.raised # "rpc",
           pc[r] \notin {"idle", "calling", "done"}, UNCHANGED <<req, sent, acked>>
    PROVE  RequestInv(r)'
<1>0. sent'[r] = {} /\ acked'[r] = {} /\ req'[r] \in Inbound
    BY NothingSent DEF IInv, RequestInv, LocalsInv
<1>1. CallRole(r)' /\ CallIdentity(r)'
    BY <1>0, NoCalls
<1>2. AnswerOn(r, req'[r].surface, c)
    BY DEF Answer
<1> QED BY <1>0, <1>1, <1>2, AnswerInv DEF IInv

LEMMA ArriveInv ==
    ASSUME IInv, NEW r \in Request, NEW q \in Inbound, Arrive(r, q)
    PROVE  RequestInv(r)'
<1>0. /\ RequestInv(r) /\ sent'[r] = {} /\ acked'[r] = {} /\ req'[r] = q
      /\ pc[r] = "idle" /\ membership' = membership
    BY NothingSent DEF IInv, TypeOK, Arrive, core
<1>1. CallRole(r)' /\ CallIdentity(r)'
    BY <1>0, NoCalls
<1>2. CASE q.cred = NoToken
    <2>1. AnswerOn(r, q.surface, EdgeRefusal(401))
        BY <1>2 DEF Arrive
    <2> QED BY <1>0, <1>1, <2>1, AnswerInv, PossibleCauses DEF IInv
<1>3. CASE q.cred # NoToken
    <2>1. pc'[r] = "verifying" /\ ctx'[r] = ctx[r] /\ reply'[r] = reply[r]
        BY <1>3 DEF Arrive, Goto, IInv, TypeOK
    <2>2. LocalsInv(r)'
        BY <1>0, <2>1 DEF LocalsInv, Resolving, Handling
    <2>3. q.cred \in User /\ q.account \in Account =>
            held'[r] = {membership[q.cred][q.account]} \cap Role
        BY DEF Arrive, IInv, TypeOK
    <2>4. HeldInv(r)'
        BY <1>0, <2>1, <2>3 DEF HeldInv, Caller
    <2>5. ContextInv(r)'
        BY <1>0, <2>1 DEF RequestInv, ContextInv, Handling
    <2>6. SentInv(r)' /\ ReplyInv(r)' /\ AnswerEffect(r)'
        BY <1>0, <2>1 DEF RequestInv, SentInv, ReplyInv, AnswerEffect, Answered
    <2> QED BY <1>1, <2>2, <2>4, <2>5, <2>6 DEF RequestInv
<1> QED BY <1>2, <1>3

LEMMA VerifyInv ==
    ASSUME IInv, NEW r \in Request, Verify(r)
    PROVE  RequestInv(r)'
<1>0. /\ pc[r] = "verifying"
      /\ UNCHANGED <<membership, req, user, sent, acked, held>>
    BY DEF Verify, core
<1>1. CASE /\ Caller(r) \in User /\ Case(r).tokenOnly
           /\ EnterHandler(r, NoUser, NoRole)
    BY <1>0, <1>1, EnterInv
<1>2. CASE Caller(r) \in User /\ Goto(r, "ensuring") /\ UNCHANGED ctx
    BY <1>0, <1>2, ResolveInv DEF Resolving
<1>3. CASE Answer(r, EdgeRefusal(401))
    BY <1>0, <1>3, RefusalInv, PossibleCauses
<1>4. CASE Answer(r, Unhandled)
    BY <1>0, <1>4, RefusalInv, PossibleCauses
<1> QED BY <1>1, <1>2, <1>3, <1>4 DEF Verify

LEMMA EnsureUserInv ==
    ASSUME IInv, NEW r \in Request, EnsureUser(r)
    PROVE  RequestInv(r)'
<1>0. /\ pc[r] = "ensuring" /\ pc[r] \in Resolving
      /\ UNCHANGED <<membership, req, sent, acked, held>>
    BY DEF EnsureUser, core, Resolving
<1>1. /\ Caller(r) \in User
      /\ req[r].account \in Account \cup {NoAccount}
    BY <1>0, InboundAssumption DEF IInv, RequestInv, LocalsInv, RequestRecord
<1>2. CASE req[r].account = NoAccount /\ EnterHandler(r, Caller(r), NoRole)
    BY <1>0, <1>1, <1>2, EnterInv
<1>3. CASE /\ req[r].account # NoAccount /\ user' = [user EXCEPT ![r] = Caller(r)]
           /\ Goto(r, "asserting") /\ UNCHANGED ctx
    <2>1. user'[r] = Caller(r) /\ "asserting" \in Resolving
        BY <1>3 DEF IInv, TypeOK, Resolving
    <2> QED BY <1>0, <1>1, <1>3, <2>1, ResolveInv
<1>4. CASE ResolverFails(r, CoreError)
    BY <1>0, <1>4, ResolverFailsInv
<1> QED BY <1>2, <1>3, <1>4 DEF EnsureUser

LEMMA AssertMembershipInv ==
    ASSUME IInv, NEW r \in Request, AssertMembership(r)
    PROVE  RequestInv(r)'
<1>0. /\ pc[r] = "asserting" /\ pc[r] \in Resolving
      /\ UNCHANGED <<membership, req, user, sent, acked, held>>
    BY DEF AssertMembership, core, Resolving
<1>1. /\ Caller(r) \in User /\ user[r] = Caller(r) /\ req[r].account \in Account
      /\ {membership[Caller(r)][req[r].account]} \cap Role \subseteq held[r]
    BY <1>0 DEF IInv, RequestInv, LocalsInv, HeldInv
<1>2. CASE /\ membership[user[r]][req[r].account] # NoMember
           /\ Goto(r, "reading role") /\ UNCHANGED ctx
    <2>0. membership[Caller(r)][req[r].account] \in Role \cup {NoMember}
        BY <1>1 DEF IInv, TypeOK
    <2>1. membership[Caller(r)][req[r].account] \in Role
        BY <1>1, <1>2, <2>0
    <2>2. held[r] # {} /\ "reading role" \in Resolving
        BY <1>1, <2>1 DEF Resolving
    <2> QED BY <1>0, <1>1, <1>2, <2>2, ResolveInv
<1>3. CASE Answer(r, EdgeRefusal(403))
    BY <1>0, <1>3, RefusalInv, PossibleCauses
<1>4. CASE ResolverFails(r, CoreError)
    BY <1>0, <1>4, ResolverFailsInv
<1> QED BY <1>2, <1>3, <1>4 DEF AssertMembership

LEMMA RoleInAccountInv ==
    ASSUME IInv, NEW r \in Request, RoleInAccount(r)
    PROVE  RequestInv(r)'
<1>0. /\ pc[r] = "reading role" /\ pc[r] \in Resolving
      /\ UNCHANGED <<membership, req, user, sent, acked, held>>
    BY DEF RoleInAccount, core, Resolving
<1>1. /\ Caller(r) \in User /\ user[r] = Caller(r) /\ req[r].account \in Account
      /\ {membership[Caller(r)][req[r].account]} \cap Role \subseteq held[r]
      /\ held[r] # {}
    BY <1>0 DEF IInv, RequestInv, LocalsInv, HeldInv
<1>2. CASE EnterHandler(r, user[r], RoleOf(membership[user[r]][req[r].account]))
    <2>1. membership[Caller(r)][req[r].account] \in Role \cup {NoMember}
        BY <1>1 DEF IInv, TypeOK
    <2>2. LET role == RoleOf(membership[Caller(r)][req[r].account])
          IN  role = NoRole \/ (role \in Role /\ role \in held[r])
        BY <1>1, <2>1 DEF RoleOf
    <2> QED BY <1>0, <1>1, <1>2, <2>2, EnterInv
<1>3. CASE EnterHandler(r, user[r], NoRole)
    BY <1>0, <1>1, <1>3, EnterInv
<1>4. CASE ResolverFails(r, CoreError \ Tolerable)
    BY <1>0, <1>4, ResolverFailsInv
<1> QED BY <1>2, <1>3, <1>4 DEF RoleInAccount

LEMMA HandleInv ==
    ASSUME IInv, NEW r \in Request, Handle(r)
    PROVE  RequestInv(r)'
<1>0. /\ pc[r] = "handling"
      /\ UNCHANGED <<membership, req, user, sent, acked, held>>
    BY DEF Handle, core
<1>1. RequestInv(r) /\ sent[r] = {} /\ acked[r] = {} /\ Case(r).refusals \subseteq BodyRefusal
    <2>1. req[r] \in Inbound /\ req[r].op \in Op
        BY <1>0, InboundAssumption DEF IInv, RequestInv, LocalsInv, RequestRecord
    <2>2. Case(r) \in CaseRecord
        BY <2>1, UseCaseAssumption DEF Case
    <2> QED BY <1>0, <2>2, NothingSent DEF IInv, CaseRecord
<1>2. CASE Answer(r, Malformed)
    BY <1>0, <1>2, RefusalInv, PossibleCauses
<1>3. CASE Answer(r, EdgeRefusal(Denial(ctx[r], Case(r))))
    <2>1. Denial(ctx[r], Case(r)) \in {401, 403} \cup BodyRefusal
        BY DEF Denial, BodyRefusal
    <2> QED BY <1>0, <1>3, <2>1, RefusalInv, PossibleCauses
<1>4. CASE \E status \in Case(r).refusals : Answer(r, EdgeRefusal(status))
    <2> PICK status \in Case(r).refusals : Answer(r, EdgeRefusal(status))
        BY <1>4
    <2>1. status \in {401, 403} \cup BodyRefusal
        BY <1>1
    <2> QED BY <1>0, <2>1, RefusalInv, PossibleCauses
<1>5. CASE Answer(r, Unhandled)
    BY <1>0, <1>5, RefusalInv, PossibleCauses
<1>6. CASE Answer(r, Returned)
    BY <1>0, <1>6, RefusalInv, PossibleCauses
<1>7. ASSUME NEW plan, plan # <<>>, todo' = [todo EXCEPT ![r] = plan],
             Admits(ctx[r], Case(r)), Goto(r, "calling"), UNCHANGED ctx
      PROVE  RequestInv(r)'
    <2>1. pc'[r] = "calling" /\ todo'[r] = plan /\ reply'[r] = reply[r] /\ ctx'[r] = ctx[r]
        BY <1>7 DEF Goto, IInv, TypeOK
    <2>2. LocalsInv(r)' /\ HeldInv(r)'
        BY <1>0, <1>1, <2>1 DEF RequestInv, LocalsInv, HeldInv, Resolving, Handling, Caller
    <2>3. ContextInv(r)'
        BY <1>0, <1>1, <1>7, <2>1 DEF RequestInv, ContextInv, Handling, Caller, Case, Admits
    <2>4. SentInv(r)' /\ ReplyInv(r)' /\ AnswerEffect(r)'
        BY <1>0, <1>1, <2>1 DEF RequestInv, SentInv, ReplyInv, AnswerEffect, Answered
    <2> QED BY <1>0, <1>1, <2>2, <2>3, <2>4, NoCalls DEF RequestInv
<1> QED BY <1>2, <1>3, <1>4, <1>5, <1>6, <1>7 DEF Handle

LEMMA CallCoreInv ==
    ASSUME IInv, NEW r \in Request, CallCore(r)
    PROVE  RequestInv(r)'
<1>0. /\ pc[r] = "calling" /\ Issue(r)
      /\ UNCHANGED <<membership, req, user, held>>
    BY DEF CallCore, core
<1>1. /\ RequestInv(r) /\ req[r] \in Inbound
      /\ todo[r] \in Seq(PlanStep) /\ todo[r] # <<>>
    BY <1>0 DEF IInv, TypeOK, RequestInv, LocalsInv, ContextInv
<1>2. /\ CallRole(r)' /\ CallIdentity(r)' /\ sent'[r] # {}
      /\ {s.call.name : s \in sent'[r]} =
            acked[r] \cup {call.name : call \in Head(todo[r])}
    BY <1>0, IssueInv
<1>3. CASE /\ acked' = [acked EXCEPT ![r] = @ \cup {call.name : call \in Head(todo[r])}]
           /\ todo' = [todo EXCEPT ![r] = Tail(@)]
           /\ IF Len(todo[r]) = 1
              THEN Answer(r, Returned)
              ELSE Goto(r, "calling") /\ UNCHANGED ctx
    <2>1. /\ acked'[r] = acked[r] \cup {call.name : call \in Head(todo[r])}
          /\ todo'[r] = Tail(todo[r])
        BY <1>3 DEF IInv, TypeOK
    <2>2. CASE Len(todo[r]) = 1
        <3>1. AnswerOn(r, req'[r].surface, Returned) /\ req'[r] \in Inbound
            BY <1>0, <1>1, <1>3, <2>2 DEF Answer
        <3> QED BY <1>2, <2>1, <3>1, AnswerInv, PossibleCauses DEF IInv
    <2>3. CASE Len(todo[r]) # 1
        <3>1. pc'[r] = "calling" /\ reply'[r] = reply[r] /\ ctx'[r] = ctx[r]
            BY <1>0, <1>3, <2>3 DEF Goto, IInv, TypeOK
        <3>2. todo'[r] # <<>>
            <4>1. Len(todo[r]) \in Nat \ {0, 1}
                BY <1>1, <2>3
            <4>2. Len(Tail(todo[r])) = Len(todo[r]) - 1
                BY <1>1
            <4>3. Len(<<>>) = 0
                BY EmptySeq
            <4>4. todo'[r] = <<>> => Len(Tail(todo[r])) = 0
                BY <2>1, <4>3
            <4> QED BY <4>1, <4>2, <4>4
        <3>3. LocalsInv(r)' /\ HeldInv(r)'
            BY <1>0, <1>1, <3>1 DEF RequestInv, LocalsInv, HeldInv, Resolving, Handling, Caller
        <3>4. ContextInv(r)'
            BY <1>0, <1>1, <3>1, <3>2 DEF RequestInv, ContextInv, Handling, Caller, Case, Admits
        <3>5. SentInv(r)' /\ ReplyInv(r)' /\ AnswerEffect(r)'
            BY <1>0, <1>1, <1>2, <2>1, <3>1
            DEF RequestInv, SentInv, ReplyInv, AnswerEffect, Answered
        <3> QED BY <1>2, <3>3, <3>4, <3>5 DEF RequestInv
    <2> QED BY <2>2, <2>3
<1>4. CASE \E code \in CoreError : Answer(r, Failed(r, code))
    <2> PICK code \in CoreError :
                Answer(r, Failed(r, code))
        BY <1>4
    <2>1. Failed(r, code) \in PossibleCause /\ Failed(r, code).raised \in {"refusal", "rpc"}
        BY PossibleCauses DEF Failed
    <2>2. AnswerOn(r, req'[r].surface, Failed(r, code)) /\ req'[r] \in Inbound
        BY <1>0, <1>1 DEF Answer
    <2> QED BY <1>2, <2>1, <2>2, AnswerInv DEF IInv
<1> QED BY <1>3, <1>4 DEF CallCore

LEMMA HangupInv ==
    ASSUME IInv, NEW r \in Request, Hangup(r)
    PROVE  RequestInv(r)'
<1>0. /\ pc'[r] = "done" /\ ctx'[r] = NoCtx /\ req[r] \in Inbound /\ RequestInv(r)
      /\ UNCHANGED <<req, held, reply>> /\ reply[r] = NoReply
    BY DEF Hangup, IInv, TypeOK, RequestInv, LocalsInv, ReplyInv
<1>1. CallRole(r)' /\ CallIdentity(r)'
    <2>1. CASE UNCHANGED sent
        BY <1>0, <2>1 DEF RequestInv, CallRole, CallIdentity, Case, Caller
    <2>2. CASE pc[r] = "calling" /\ Issue(r)
        BY <1>0, <2>2, IssueInv
    <2> QED BY <2>1, <2>2 DEF Hangup
<1>2. LocalsInv(r)' /\ HeldInv(r)' /\ SentInv(r)'
    BY <1>0 DEF LocalsInv, HeldInv, SentInv, Resolving, Handling
<1>3. ContextInv(r)'
    BY <1>0 DEF ContextInv, Handling
<1>4. ReplyInv(r)' /\ AnswerEffect(r)'
    BY <1>0 DEF ReplyInv, AnswerEffect, Answered
<1> QED BY <1>1, <1>2, <1>3, <1>4 DEF RequestInv

(* The core moving under a request only adds to what its caller has held.  *)
LEMMA ChangeMembershipInv ==
    ASSUME IInv, NEW u \in User, NEW a \in Account, NEW m \in Role \cup {NoMember},
           ChangeMembership(u, a, m), NEW r \in Request
    PROVE  RequestInv(r)'
<1>0. /\ RequestInv(r) /\ UNCHANGED <<req, pc, user, ctx, todo, sent, acked, cause, reply>>
      /\ Caller(r)' = Caller(r) /\ Case(r)' = Case(r)
    BY DEF ChangeMembership, IInv, Caller, Case
<1>1. held[r] \subseteq held'[r]
    BY DEF ChangeMembership
<1>2. HeldInv(r)'
    <2>1. SUFFICES ASSUME pc[r] \notin {"idle", "done"}, Caller(r) \in User,
                          req[r].account \in Account
                   PROVE  {membership'[Caller(r)][req[r].account]} \cap Role \subseteq held'[r]
        BY <1>0, <1>1 DEF HeldInv, RequestInv
    <2>2. CASE Caller(r) = u /\ req[r].account = a
        <3>1. membership'[u][a] = m
            BY DEF ChangeMembership, IInv, TypeOK
        <3>2. held'[r] = held[r] \cup ({m} \cap Role)
            BY <2>1, <2>2 DEF ChangeMembership
        <3> QED BY <2>2, <3>1, <3>2
    <2>3. CASE ~(Caller(r) = u /\ req[r].account = a)
        <3>1. membership'[Caller(r)][req[r].account] = membership[Caller(r)][req[r].account]
            BY <2>1, <2>3 DEF ChangeMembership, IInv, TypeOK
        <3> QED BY <1>0, <1>1, <2>1, <3>1 DEF RequestInv, HeldInv
    <2> QED BY <2>2, <2>3
<1>3. LocalsInv(r)' /\ SentInv(r)' /\ ReplyInv(r)' /\ AnswerEffect(r)'
    BY <1>0 DEF RequestInv, LocalsInv, SentInv, ReplyInv, AnswerEffect, Answered
<1>4. ContextInv(r)'
    BY <1>0, <1>1 DEF RequestInv, ContextInv
<1>5. CallRole(r)' /\ CallIdentity(r)'
    BY <1>0, <1>1 DEF RequestInv, CallRole, CallIdentity
<1> QED BY <1>2, <1>3, <1>4, <1>5 DEF RequestInv

-----------------------------------------------------------------------------
(* Every step keeps the invariant of every request: the one that moves by  *)
(* the lemma of its action, the others by Frame.                           *)
LEMMA InvStep ==
    ASSUME IInv, [Next]_vars
    PROVE  IInv'
<1>0. TypeOK'
    BY TypeStep
<1> SUFFICES ASSUME NEW q \in Request PROVE RequestInv(q)'
    BY <1>0 DEF IInv
<1> USE DEF core
<1>f. ASSUME NEW r \in Request, q # r,
             (\E m \in Inbound : Arrive(r, m)) \/ Step(r) \/ Hangup(r)
      PROVE  RequestInv(q)'
    <2>1. /\ membership' = membership /\ user'[q] = user[q] /\ req'[q] = req[q]
          /\ todo'[q] = todo[q] /\ sent'[q] = sent[q] /\ acked'[q] = acked[q]
          /\ held'[q] = held[q]
        <3>1. CASE (\E m \in Inbound : Arrive(r, m)) \/ Hangup(r)
            BY <1>f, <3>1 DEF Arrive, Hangup, Issue, IInv, TypeOK
        <3>2. CASE Verify(r) \/ EnsureUser(r) \/ AssertMembership(r) \/ RoleInAccount(r)
            BY <1>f, <3>2 DEF Verify, EnsureUser, AssertMembership, RoleInAccount, IInv, TypeOK
        <3>3. CASE Handle(r)
            BY <1>f, <3>3 DEF Handle, IInv, TypeOK
        <3>4. CASE CallCore(r)
            BY <1>f, <3>4 DEF CallCore, Issue, IInv, TypeOK
        <3> QED BY <1>f, <3>1, <3>2, <3>3, <3>4 DEF Step
    <2>2. pc'[q] = pc[q] /\ ctx'[q] = ctx[q] /\ cause'[q] = cause[q] /\ reply'[q] = reply[q]
        <3>a. \A s, c : AnswerOn(r, s, c) =>
                pc'[q] = pc[q] /\ ctx'[q] = ctx[q] /\ cause'[q] = cause[q] /\ reply'[q] = reply[q]
            BY <1>f DEF AnswerOn, IInv, TypeOK
        <3>b. \A l : Goto(r, l) => pc'[q] = pc[q] /\ cause'[q] = cause[q] /\ reply'[q] = reply[q]
            BY <1>f DEF Goto, IInv, TypeOK
        <3>c. \A u, l : EnterHandler(r, u, l) => ctx'[q] = ctx[q] /\ Goto(r, "handling")
            BY <1>f DEF EnterHandler, IInv, TypeOK
        <3>1. CASE \E m \in Inbound : Arrive(r, m)
            BY <3>1, <3>a, <3>b DEF Arrive
        <3>2. CASE Hangup(r)
            BY <1>f, <3>2 DEF Hangup, IInv, TypeOK
        <3>3. CASE Verify(r)
            BY <3>3, <3>a, <3>b, <3>c DEF Verify, Answer
        <3>4. CASE EnsureUser(r) \/ AssertMembership(r) \/ RoleInAccount(r)
            BY <3>4, <3>a, <3>b, <3>c
            DEF EnsureUser, AssertMembership, RoleInAccount, ResolverFails, Answer
        <3>5. CASE Handle(r)
            BY <3>5, <3>a, <3>b DEF Handle, Answer
        <3>6. CASE CallCore(r)
            BY <3>6, <3>a, <3>b DEF CallCore, Answer
        <3> QED BY <1>f, <3>1, <3>2, <3>3, <3>4, <3>5, <3>6 DEF Step
    <2> QED BY <2>1, <2>2, Frame DEF IInv
<1>1. ASSUME NEW r \in Request, NEW m \in Inbound, Arrive(r, m) PROVE RequestInv(q)'
    BY <1>1, <1>f, ArriveInv
<1>2. ASSUME NEW r \in Request, Step(r) PROVE RequestInv(q)'
    BY <1>2, <1>f, VerifyInv, EnsureUserInv, AssertMembershipInv, RoleInAccountInv,
       HandleInv, CallCoreInv DEF Step
<1>3. ASSUME NEW r \in Request, Hangup(r) PROVE RequestInv(q)'
    BY <1>3, <1>f, HangupInv
<1>4. ASSUME NEW u \in User, NEW a \in Account, NEW m \in Role \cup {NoMember},
             ChangeMembership(u, a, m)
      PROVE  RequestInv(q)'
    BY <1>4, ChangeMembershipInv
<1>5. CASE UNCHANGED vars
    BY <1>5, Frame DEF vars, IInv
<1> QED BY <1>1, <1>2, <1>3, <1>4, <1>5 DEF Next

LEMMA InvInit ==
    ASSUME Init
    PROVE  IInv
<1>1. TypeOK
    <2>1. Returned \in Cause /\ NoReply \in Reply
        BY CauseTypes DEF NoReply, Reply, StatusCode, Detail
    <2> QED BY <2>1, BoundAssumption DEF Init, TypeOK, PC, Context
<1>2. ASSUME NEW r \in Request PROVE RequestInv(r)
    BY DEF Init, RequestInv, LocalsInv, HeldInv, ContextInv, SentInv, ReplyInv, CallRole,
           CallIdentity, AnswerEffect, Answered, Resolving, Handling
<1> QED BY <1>1, <1>2 DEF IInv

(* The inductive invariant: every request's locals, history and context    *)
(* stay tied to its place in the code, however requests and the core's     *)
(* changes of membership interleave.                                       *)
THEOREM Invariance == Spec => []IInv
<1>1. Init => IInv
    BY InvInit
<1>2. IInv /\ [Next]_vars => IInv'
    BY InvStep
<1> QED BY <1>1, <1>2, PTL DEF Spec

(* Every variable keeps its type, whatever the core answers.               *)
THEOREM TypeCorrect == Spec => []TypeOK
<1>1. IInv => TypeOK
    BY DEF IInv
<1> QED BY <1>1, Invariance, PTL

(* No call of a @require_role use case reaches the core unless its caller  *)
(* held one of the roles in that account while the request was in flight.  *)
THEOREM RolesAreHeld == Spec => []RoleWasHeld
<1>1. IInv => RoleWasHeld
    BY DEF IInv, RequestInv, RoleWasHeld
<1> QED BY <1>1, Invariance, PTL

(* No interleaving makes a call carry another request's actor or account.  *)
THEOREM IdentitiesDoNotMix == Spec => []OwnIdentity
<1>1. IInv => OwnIdentity
    BY DEF IInv, RequestInv, OwnIdentity
<1> QED BY <1>1, Invariance, PTL

(* The answer and the effects agree for every use case whatever its plan.  *)
THEOREM AnswersMatchEffects == Spec => []AnswerMatchesEffect
<1>1. IInv => AnswerMatchesEffect
    BY DEF IInv, RequestInv, AnswerMatchesEffect
<1> QED BY <1>1, Invariance, PTL

(* auth_ctx is set exactly while a handler runs, cancellation included.    *)
THEOREM ContextsAreBracketed == Spec => []ContextBrackets
<1>1. IInv => ContextBrackets
    BY DEF IInv, RequestInv, ContextInv, ContextBrackets, Handling
<1> QED BY <1>1, Invariance, PTL

-----------------------------------------------------------------------------
(* The two tables of errors.py are inverse of each other on every HTTP     *)
(* status the edge raises except 422 (they are not inverse on statuses).   *)
Translated == {200, 400, 401, 403, 404, 409, 412, 429, 500, 501, 503, 504}

LEMMA TablesInverse ==
    ASSUME NEW h \in Translated \ {200}
    PROVE  http_status_for(grpc_status_for_http(h)) = h
<1>1. grpc_status_for_http(h) \in
        {"INVALID_ARGUMENT", "UNAUTHENTICATED", "PERMISSION_DENIED", "NOT_FOUND",
         "ALREADY_EXISTS", "FAILED_PRECONDITION", "RESOURCE_EXHAUSTED", "UNIMPLEMENTED",
         "UNAVAILABLE", "DEADLINE_EXCEEDED", "INTERNAL"}
    BY DEF grpc_status_for_http
<1>2. /\ http_status_for("INVALID_ARGUMENT") = 400 /\ http_status_for("UNAUTHENTICATED") = 401
      /\ http_status_for("PERMISSION_DENIED") = 403 /\ http_status_for("NOT_FOUND") = 404
      /\ http_status_for("ALREADY_EXISTS") = 409 /\ http_status_for("FAILED_PRECONDITION") = 412
      /\ http_status_for("RESOURCE_EXHAUSTED") = 429 /\ http_status_for("UNIMPLEMENTED") = 501
      /\ http_status_for("UNAVAILABLE") = 503 /\ http_status_for("DEADLINE_EXCEEDED") = 504
      /\ http_status_for("INTERNAL") = 500
    BY DEF http_status_for, STATUS_TO_HTTP
<1> QED BY <1>2 DEF grpc_status_for_http, Translated

LEMMA StatusesTranslated ==
    ASSUME NEW code \in StatusCode \ {"OK"}
    PROVE  http_status_for(code) \in Translated \ {200}
BY DEF http_status_for, STATUS_TO_HTTP, StatusCode, Translated

(* What gRPC answers for a cause classifies as what REST answers.          *)
LEMMA ParityOf ==
    ASSUME NEW c \in PossibleCause, c.raised # "refusal", c.http # 422
    PROVE  http_status_for(GrpcReply(c).status) = RestReply(c).http
<1>1. ASSUME NEW code \in StatusCode \ {"OK"}, c = RpcError(code)
      PROVE  http_status_for(GrpcReply(c).status) = RestReply(c).http
    BY <1>1 DEF RpcError, GrpcReply, RestReply, as_grpc
<1>2. ASSUME NEW h \in Translated \ {200}, c.raised = "http", c.http = h
      PROVE  http_status_for(GrpcReply(c).status) = RestReply(c).http
    <2>1. GrpcReply(c).status = grpc_status_for_http(h) /\ RestReply(c).http = h
        BY <1>2 DEF GrpcReply, RestReply, as_grpc_from_http
    <2> QED BY <2>1, TablesInverse
<1>3. CASE c = Returned
    <2>1. GrpcReply(c).status = "OK" /\ RestReply(c).http = 200
        BY <1>3 DEF Returned, GrpcReply, RestReply
    <2> QED BY <2>1 DEF http_status_for, STATUS_TO_HTTP
<1>4. CASE c = Unhandled
    <2>1. GrpcReply(c).status = "INTERNAL" /\ RestReply(c).http = 500
        BY <1>4 DEF Unhandled, GrpcReply, RestReply
    <2> QED BY <2>1 DEF http_status_for, STATUS_TO_HTTP
<1>5. c # Malformed /\ c # MergeRefusal /\ c # EdgeRefusal(422)
    BY DEF Malformed, MergeRefusal, EdgeRefusal
<1>6. ASSUME NEW h \in {401, 403} \cup BodyRefusal, c = EdgeRefusal(h)
      PROVE  http_status_for(GrpcReply(c).status) = RestReply(c).http
    <2>1. h \in Translated \ {200} /\ c.raised = "http" /\ c.http = h
        BY <1>5, <1>6 DEF EdgeRefusal, BodyRefusal, Translated
    <2> QED BY <1>2, <2>1
<1>7. ASSUME NEW code \in StatusCode \ {"OK"}, c = as_http(code)
      PROVE  http_status_for(GrpcReply(c).status) = RestReply(c).http
    <2>1. c.raised = "http" /\ c.http = http_status_for(code)
        BY <1>7 DEF as_http
    <2> QED BY <1>2, <2>1, StatusesTranslated
<1> QED BY <1>1, <1>3, <1>4, <1>5, <1>6, <1>7 DEF PossibleCause

(* What is an error for REST is one for gRPC, the two kinds of 422 too.    *)
LEMMA ErrorsOf ==
    ASSUME NEW c \in PossibleCause, c.raised # "refusal"
    PROVE  http_status_for(GrpcReply(c).status) >= 400 <=> RestReply(c).http >= 400
<1>1. CASE c.http # 422
    <2>1. http_status_for(GrpcReply(c).status) = RestReply(c).http
        BY <1>1, ParityOf
    <2> QED BY <2>1
<1>2. CASE c = Malformed
    <2>1. GrpcReply(c).status = "INVALID_ARGUMENT" /\ RestReply(c).http = 422
        BY <1>2 DEF Malformed, GrpcReply, RestReply
    <2> QED BY <2>1 DEF http_status_for, STATUS_TO_HTTP
<1>3. CASE c.raised = "http" /\ c.http = 422
    <2>1. GrpcReply(c).status = "INTERNAL" /\ RestReply(c).http = 422
        BY <1>3 DEF GrpcReply, RestReply, as_grpc_from_http, grpc_status_for_http
    <2> QED BY <2>1 DEF http_status_for, STATUS_TO_HTTP
<1>4. c.http = 422 => c = Malformed \/ c.raised = "http"
    <2>1. \A code \in StatusCode \ {"OK"} :
            RpcError(code).http # 422 /\ as_http(code).raised = "http"
        BY DEF RpcError, as_http
    <2>2. \A h : EdgeRefusal(h).raised = "http"
        BY DEF EdgeRefusal
    <2>3. Returned.http # 422 /\ Unhandled.http # 422 /\ MergeRefusal.raised = "refusal"
        BY DEF Returned, Unhandled, MergeRefusal
    <2> QED BY <2>1, <2>2, <2>3 DEF PossibleCause
<1> QED BY <1>1, <1>2, <1>3, <1>4

(* What is an error on one port is an error on the other, the merge        *)
(* refusal aside; but for the 422s it has the same HTTP class on both.     *)
THEOREM PortsAgree == Spec => []TransportParity
<1>1. ASSUME IInv, NEW r \in Request, Answered(r), cause[r].raised # "refusal"
      PROVE  /\ HttpClass(req[r].surface, reply[r]) >= 400 <=> RestReply(cause[r]).http >= 400
             /\ cause[r].http # 422
                    => HttpClass(req[r].surface, reply[r]) = RestReply(cause[r]).http
    <2>1. cause[r] \in PossibleCause /\ reply[r] = ReplyOn(req[r].surface, cause[r])
        BY <1>1 DEF IInv, RequestInv, ReplyInv
    <2>2. CASE req[r].surface # "rest"
        <3>1. HttpClass(req[r].surface, reply[r]) = http_status_for(GrpcReply(cause[r]).status)
            BY <2>1, <2>2 DEF HttpClass, ReplyOn
        <3> QED BY <1>1, <2>1, <3>1, ParityOf, ErrorsOf
    <2>3. CASE req[r].surface = "rest"
        <3>1. HttpClass(req[r].surface, reply[r]) = RestReply(cause[r]).http
            BY <2>1, <2>3 DEF HttpClass, ReplyOn
        <3> QED BY <3>1
    <2> QED BY <2>2, <2>3
<1>2. IInv => TransportParity
    BY <1>1 DEF TransportParity
<1> QED BY <1>2, Invariance, PTL

(* A cause whose message is the core's is below 500 or rewritten.          *)
LEMMA NoDetailOf ==
    ASSUME NEW c \in PossibleCause
    PROVE  /\ RestReply(c).http >= 500 => RestReply(c).detail # "core"
           /\ http_status_for(GrpcReply(c).status) >= 500 => GrpcReply(c).detail # "core"
<1>1. ASSUME NEW code \in StatusCode \ {"OK"}, c = RpcError(code)
      PROVE  /\ RestReply(c).http >= 500 => RestReply(c).detail # "core"
             /\ http_status_for(GrpcReply(c).status) >= 500 => GrpcReply(c).detail # "core"
    BY <1>1 DEF RpcError, GrpcReply, RestReply, as_grpc, detail_for
<1>2. ASSUME NEW code \in StatusCode \ {"OK"}, c = as_http(code)
      PROVE  /\ RestReply(c).http >= 500 => RestReply(c).detail # "core"
             /\ http_status_for(GrpcReply(c).status) >= 500 => GrpcReply(c).detail # "core"
    <2>1. /\ c.raised = "http" /\ c.http = http_status_for(code)
          /\ c.detail = detail_for(http_status_for(code))
          /\ c.http \in Translated \ {200}
        BY <1>2, StatusesTranslated DEF as_http
    <2>2. http_status_for(grpc_status_for_http(c.http)) = c.http
        BY <2>1, TablesInverse
    <2> QED BY <2>1, <2>2 DEF GrpcReply, RestReply, as_grpc_from_http, detail_for
<1>3. ASSUME NEW h \in {401, 403} \cup BodyRefusal, c = EdgeRefusal(h)
      PROVE  RestReply(c).detail # "core" /\ GrpcReply(c).detail # "core"
    BY <1>3 DEF EdgeRefusal, RestReply, GrpcReply, as_grpc_from_http
<1>4. CASE c \in {Returned, Malformed, Unhandled}
    BY <1>4 DEF Returned, Malformed, Unhandled, RestReply, GrpcReply
<1>5. CASE c = MergeRefusal
    <2>1. RestReply(c).http = 412 /\ GrpcReply(c).status = "OK"
        BY <1>5 DEF MergeRefusal, RestReply, GrpcReply
    <2>2. http_status_for("OK") = 200
        BY DEF http_status_for, STATUS_TO_HTTP
    <2> QED BY <2>1, <2>2
<1> QED BY <1>1, <1>2, <1>3, <1>4, <1>5 DEF PossibleCause

(* No 5xx of either port carries the core's own words.                     *)
THEOREM ServerErrorsAreGeneric == Spec => []NoCoreDetailOn5xx
<1>1. ASSUME IInv, NEW r \in Request, Answered(r),
             HttpClass(req[r].surface, reply[r]) >= 500
      PROVE  reply[r].detail # "core"
    <2>1. cause[r] \in PossibleCause /\ reply[r] = ReplyOn(req[r].surface, cause[r])
        BY <1>1 DEF IInv, RequestInv, ReplyInv
    <2> QED BY <1>1, <2>1, NoDetailOf DEF HttpClass, ReplyOn
<1>2. IInv => NoCoreDetailOn5xx
    BY <1>1 DEF NoCoreDetailOn5xx
<1> QED BY <1>2, Invariance, PTL
=============================================================================
