--------------------------- MODULE RequestPipeline ---------------------------
(***************************************************************************)
(* One request through the edge, many at a time: authentication, the       *)
(* resolution of the account by the core, the AuthContext, the decorators, *)
(* the use case's calls to the core, and the translation of the outcome.   *)
(*                                                                         *)
(*   REST: AuthMiddleware.dispatch, then the route and its use case.       *)
(*   gRPC: ErrorInterceptor around AuthInterceptor around the servicer.    *)
(*                                                                         *)
(* Every `await` of the code ends an action, because that is where another *)
(* request, or the core's own state, may move.  The core is external: its  *)
(* memberships change under the requests' feet, and a call may answer with *)
(* any status.  A request is a task with a ContextVar of its own, so the   *)
(* AuthContext is a function of the request.                               *)
(***************************************************************************)
EXTENDS EdgeErrors, Sequences

CONSTANTS
    Request,       \* the tasks: one per request in flight
    User,          \* the people the identity provider and the core know
    Account,       \* the core's accounts
    Op,            \* the use cases that can be asked for
    UseCase,       \* [Op -> what each one demands and does], see Ports
    Inbound,       \* the requests callers may send
    CoreError,     \* the statuses other than OK that a core call may end with
    MaxChanges     \* bound: how often the core's memberships change

NoToken   == "no token"
BadToken  == "bad token"
NoAccount == ""
NoUser    == ""
NoRole    == ""
NoMember  == "not a member"

Role == {"owner", "admin", "developer", "viewer"}

CallRecord ==
    [name : STRING, write : BOOLEAN, key : STRING, as : {"context", "explicit"}]

PlanStep == (SUBSET CallRecord) \ {{}}

(* The HTTPExceptions a use case's own body may raise.                     *)
BodyRefusal == {400, 422, 503}

CaseRecord ==
    [ scoped : BOOLEAN, roles : SUBSET Role, plans : SUBSET Seq(PlanStep),
      refusals : SUBSET BodyRefusal, soft : SUBSET StatusCode,
      surfaces : SUBSET {"rest", "grpc"}, tokenOnly : BOOLEAN,
      clientKey : SUBSET {"rest", "grpc"} ]

RequestRecord ==
    [ surface : {"rest", "grpc"}, cred : {NoToken, BadToken} \cup User,
      account : Account \cup {NoAccount}, op : Op, body : {"ok", "malformed"} ]

ASSUME UseCaseAssumption  == UseCase \in [Op -> CaseRecord]
ASSUME InboundAssumption ==
    /\ Inbound \subseteq RequestRecord
    /\ \A q \in Inbound : q.surface \in UseCase[q.op].surfaces
ASSUME CoreErrorAssumption == CoreError \subseteq StatusCode \ {"OK"}
ASSUME NamesAssumption ==
    /\ {NoToken, BadToken, NoUser} \cap User = {}
    /\ Account # {} /\ NoAccount \notin Account
ASSUME BoundAssumption == MaxChanges \in Nat

VARIABLES
    membership,  \* the core's: membership[u][a] is a role or NoMember
    changes,     \* how many times it has changed
    req,         \* what the caller sent
    pc,          \* where the task is
    user,        \* the local user_id that EnsureUser returned
    ctx,         \* auth_ctx of the task
    todo,        \* the calls of the use case still to make
    sent,        \* history: the use case's calls that reached the core
    acked,       \* history: the names of the calls answered OK
    held,        \* history: the roles the caller's user held in the account
                 \* it asked for, at any time since the request arrived
    cause,       \* what ended the request
    reply        \* what the caller read

vars == <<membership, changes, req, pc, user, ctx, todo, sent, acked, held, cause, reply>>

NoReq   == [ surface |-> "none" ]
NoCtx   == [ user |-> NoUser, account |-> NoAccount, role |-> "no context" ]
NoReply == [ http |-> 0, status |-> "CANCELLED", detail |-> "none" ]

Context ==
    [ user : User \cup {NoUser}, account : Account \cup {NoAccount},
      role : Role \cup {NoRole} ] \cup {NoCtx}

SentCall ==
    [ call : CallRecord, user : User \cup {NoUser}, account : Account \cup {NoAccount} ]

PC == {"idle", "verifying", "ensuring", "asserting", "reading role", "handling",
       "calling", "done"}

Case(r)   == UseCase[req[r].op]
Caller(r) == req[r].cred

Init ==
    /\ membership \in [User -> [Account -> Role \cup {NoMember}]]
    /\ changes = 0
    /\ req   = [r \in Request |-> NoReq]
    /\ pc    = [r \in Request |-> "idle"]
    /\ user  = [r \in Request |-> NoUser]
    /\ ctx   = [r \in Request |-> NoCtx]
    /\ todo  = [r \in Request |-> <<>>]
    /\ sent  = [r \in Request |-> {}]
    /\ acked = [r \in Request |-> {}]
    /\ held  = [r \in Request |-> {}]
    /\ cause = [r \in Request |-> Returned]
    /\ reply = [r \in Request |-> NoReply]

-----------------------------------------------------------------------------
(* The way out: the outcome is translated for the port the request came in *)
(* by, and the `finally` of the authentication layer resets auth_ctx.      *)
AnswerOn(r, surface, c) ==
    /\ pc'    = [pc EXCEPT ![r] = "done"]
    /\ ctx'   = [ctx EXCEPT ![r] = NoCtx]
    /\ cause' = [cause EXCEPT ![r] = c]
    /\ reply' = [reply EXCEPT ![r] = ReplyOn(surface, c)]

Answer(r, c) == AnswerOn(r, req[r].surface, c)

Goto(r, label) ==
    /\ pc' = [pc EXCEPT ![r] = label]
    /\ UNCHANGED <<cause, reply>>

(* auth_ctx.set(AuthContext(...)), and on to the handler.                  *)
EnterHandler(r, u, role) ==
    /\ ctx' = [ctx EXCEPT ![r] = [user |-> u, account |-> req[r].account, role |-> role]]
    /\ Goto(r, "handling")

core == <<membership, changes>>

(* A caller's request reaches the edge: no Authorization header is a 401   *)
(* before anything is awaited.                                             *)
Arrive(r, q) ==
    /\ pc[r] = "idle"
    /\ req' = [req EXCEPT ![r] = q]
    /\ held' = [held EXCEPT ![r] =
            IF q.cred \in User /\ q.account \in Account
            THEN {membership[q.cred][q.account]} \cap Role ELSE {}]
    /\ IF q.cred = NoToken
       THEN AnswerOn(r, q.surface, EdgeRefusal(401))
       ELSE Goto(r, "verifying") /\ UNCHANGED ctx
    /\ UNCHANGED <<core, user, todo, sent, acked>>

(* verifier.verify: a Principal, an InvalidToken (401), or the exception   *)
(* of the certificates' fetch, which neither layer catches.  A token of    *)
(* a known person may be refused too: expired, or its key not known yet.   *)
(* Only REST knows @token_only routes.                                     *)
Verify(r) ==
    /\ pc[r] = "verifying"
    /\ \/ /\ Caller(r) \in User
          /\ IF req[r].surface = "rest" /\ Case(r).tokenOnly
             THEN EnterHandler(r, NoUser, NoRole)
             ELSE Goto(r, "ensuring") /\ UNCHANGED ctx
       \/ Answer(r, EdgeRefusal(401))
       \/ Answer(r, Unhandled)
    /\ UNCHANGED <<core, req, user, todo, sent, acked, held>>

(* Mutant: a failed resolution authenticates again instead of answering. *)
ResolverFails_Restarts(r, errors) ==
    errors # {} /\ Goto(r, "verifying") /\ UNCHANGED ctx

(* A core error inside the resolver leaves it as an HTTPException; any     *)
(* other exception is a 503 of the layer that called it.                   *)
ResolverFails(r, errors) ==
    \/ \E code \in errors : Answer(r, as_http(code))
    \/ Answer(r, EdgeRefusal(503))

(* CoreResolver._ensure_user, and the early return without an account.     *)
EnsureUser(r) ==
    /\ pc[r] = "ensuring"
    /\ \/ /\ user' = [user EXCEPT ![r] = Caller(r)]
          /\ IF req[r].account = NoAccount
             THEN EnterHandler(r, Caller(r), NoRole)
             ELSE Goto(r, "asserting") /\ UNCHANGED ctx
       \/ ResolverFails(r, CoreError) /\ UNCHANGED user
    /\ UNCHANGED <<core, req, todo, sent, acked, held>>

(* Mutant: the list of accounts is fetched and not looked at. *)
AssertMembership_Any(r) ==
    /\ pc[r] = "asserting"
    /\ Goto(r, "reading role")
    /\ UNCHANGED <<core, req, user, ctx, todo, sent, acked, held>>

(* CoreResolver._assert_membership: ListAccounts of the resolved user.     *)
AssertMembership(r) ==
    /\ pc[r] = "asserting"
    /\ \/ /\ membership[user[r]][req[r].account] # NoMember
          /\ Goto(r, "reading role") /\ UNCHANGED ctx
       \/ /\ membership[user[r]][req[r].account] = NoMember
          /\ Answer(r, EdgeRefusal(403))
       \/ ResolverFails(r, CoreError)
    /\ UNCHANGED <<core, req, user, todo, sent, acked, held>>

Tolerable == {"UNIMPLEMENTED", "PERMISSION_DENIED", "NOT_FOUND"}

(* The role in a listing of the account's memberships; none listed is "".  *)
RoleOf(m) == IF m = NoMember THEN NoRole ELSE m

(* CoreResolver._role_in_account: a second look at the core, which may     *)
(* have moved since the first; three failures mean "no role" and not an    *)
(* error.                                                                  *)
RoleInAccount(r) ==
    /\ pc[r] = "reading role"
    /\ \/ EnterHandler(r, user[r], RoleOf(membership[user[r]][req[r].account]))
       \/ CoreError \cap Tolerable # {} /\ EnterHandler(r, user[r], NoRole)
       \/ ResolverFails(r, CoreError \ Tolerable)
    /\ UNCHANGED <<core, req, user, todo, sent, acked, held>>

(* Mutant: the role is not compared. *)
Admits_AnyRole(c, uc) == uc.scoped => c.account # NoAccount

(* The decorators, outermost first: @account_scoped then @require_role.    *)
Admits(c, uc) ==
    /\ uc.scoped => c.account # NoAccount
    /\ uc.roles # {} => c.account # NoAccount /\ c.role \in uc.roles

Denial(c, uc) ==
    IF c.account = NoAccount /\ (uc.scoped \/ uc.roles # {}) THEN 400 ELSE 403

(* The adapter parses the message, the decorators decide, the body starts. *)
Handle(r) ==
    /\ pc[r] = "handling"
    /\ IF req[r].body = "malformed"
       THEN Answer(r, Malformed) /\ UNCHANGED todo
       ELSE IF ~Admits(ctx[r], Case(r))
       THEN Answer(r, EdgeRefusal(Denial(ctx[r], Case(r)))) /\ UNCHANGED todo
       ELSE \/ \E status \in Case(r).refusals :
                    Answer(r, EdgeRefusal(status)) /\ UNCHANGED todo
            \/ Answer(r, Unhandled) /\ UNCHANGED todo
            \/ \E plan \in Case(r).plans :
                    /\ todo' = [todo EXCEPT ![r] = plan]
                    /\ IF plan = <<>>
                       THEN Answer(r, Returned)
                       ELSE Goto(r, "calling") /\ UNCHANGED ctx
    /\ UNCHANGED <<core, req, user, sent, acked, held>>

(* Mutant: the context kept in a global, so that a task reads another's. *)
Metadata_Global(r, call, a) ==
    LET others == {q \in Request \ {r} : ctx[q] # NoCtx}
        c      == IF others = {} THEN ctx[r] ELSE ctx[CHOOSE q \in others : TRUE]
    IN  [call |-> call, user |-> c.user,
         account |-> IF call.as = "explicit" THEN a ELSE c.account]

(* core.metadata(): who and where, read from the task's own context.       *)
Metadata(r, call, a) ==
    [ call    |-> call, user |-> ctx[r].user,
      account |-> IF call.as = "explicit" THEN a ELSE ctx[r].account ]

(* The calls of one step of the plan leave; a call under an explicit       *)
(* account names one the core has just answered with.                      *)
Issue(r) ==
    \E a \in Account :
        sent' = [sent EXCEPT ![r] = @ \cup {Metadata(r, call, a) : call \in Head(todo[r])}]

(* Mutant: a failed call is swallowed and the answer assembled without it. *)
Failed_Swallowed(r, code) == Returned

(* A failed call ends the use case: as the error it is, or, for a merge    *)
(* queue's FAILED_PRECONDITION, as the refusal that lists what is missing. *)
Failed(r, code) == IF code \in Case(r).soft THEN MergeRefusal ELSE RpcError(code)

(* One step of the plan: every call of it is made, and the first failure   *)
(* is the failure of the use case.                                         *)
CallCore(r) ==
    /\ pc[r] = "calling"
    /\ Issue(r)
    /\ \/ /\ acked' = [acked EXCEPT ![r] = @ \cup {call.name : call \in Head(todo[r])}]
          /\ todo'  = [todo EXCEPT ![r] = Tail(@)]
          /\ IF Len(todo[r]) = 1
             THEN Answer(r, Returned)
             ELSE Goto(r, "calling") /\ UNCHANGED ctx
       \/ /\ \E code \in CoreError : Answer(r, Failed(r, code))
          /\ UNCHANGED <<acked, todo>>
    /\ UNCHANGED <<core, req, user, held>>

(* Mutant: the reset is not in a `finally`, and a cancelled task skips it. *)
Hangup_KeepsContext(r) ==
    /\ pc[r] \notin {"idle", "done"}
    /\ req[r].surface = "grpc"
    /\ pc' = [pc EXCEPT ![r] = "done"]
    /\ UNCHANGED <<core, req, user, ctx, todo, sent, acked, held, cause, reply>>

(* The caller of a gRPC method hangs up: the task is cancelled at whatever *)
(* it awaits, the `finally` still runs, nothing is answered.  The calls it *)
(* was awaiting may have reached the core all the same.                    *)
Hangup(r) ==
    /\ pc[r] \notin {"idle", "done"}
    /\ req[r].surface = "grpc"
    /\ pc'  = [pc EXCEPT ![r] = "done"]
    /\ ctx' = [ctx EXCEPT ![r] = NoCtx]
    /\ \/ UNCHANGED sent
       \/ pc[r] = "calling" /\ Issue(r)
    /\ UNCHANGED <<core, req, user, todo, acked, held, cause, reply>>

(* Somebody else changes a membership, in the core.                        *)
ChangeMembership(u, a, m) ==
    /\ changes < MaxChanges
    /\ membership[u][a] # m
    /\ changes' = changes + 1
    /\ membership' = [membership EXCEPT ![u][a] = m]
    /\ held' = [r \in Request |->
            IF pc[r] \notin {"idle", "done"} /\ Caller(r) = u /\ req[r].account = a
            THEN held[r] \cup ({m} \cap Role) ELSE held[r]]
    /\ UNCHANGED <<req, pc, user, ctx, todo, sent, acked, cause, reply>>

Step(r) ==
    \/ Verify(r) \/ EnsureUser(r) \/ AssertMembership(r) \/ RoleInAccount(r)
    \/ Handle(r) \/ CallCore(r)

Next ==
    \/ \E r \in Request : \E q \in Inbound : Arrive(r, q)
    \/ \E r \in Request : Step(r)
    \/ \E r \in Request : Hangup(r)
    \/ \E u \in User, a \in Account, m \in Role \cup {NoMember} : ChangeMembership(u, a, m)

Spec == Init /\ [][Next]_vars

(* Every await of a step carries a timeout (core_deadline_s on each RPC,   *)
(* ten seconds on the certificates' GET), so a request that can move does. *)
FairSpec == Spec /\ \A r \in Request : WF_vars(Step(r))

-----------------------------------------------------------------------------
TypeOK ==
    /\ membership \in [User -> [Account -> Role \cup {NoMember}]]
    /\ changes \in 0 .. MaxChanges
    /\ req   \in [Request -> Inbound \cup {NoReq}]
    /\ pc    \in [Request -> PC]
    /\ user  \in [Request -> User \cup {NoUser}]
    /\ ctx   \in [Request -> Context]
    /\ todo  \in [Request -> Seq(PlanStep)]
    /\ sent  \in [Request -> SUBSET SentCall]
    /\ acked \in [Request -> SUBSET STRING]
    /\ held  \in [Request -> SUBSET Role]
    /\ cause \in [Request -> Cause]
    /\ reply \in [Request -> Reply]

Answered(r) == pc[r] = "done" /\ reply[r] # NoReply

(* The inductive invariant, one request at a time.  It ties the local      *)
(* variables of a task to its place in the code.                           *)
Resolving == {"ensuring", "asserting", "reading role"}
Handling  == {"handling", "calling"}

(* Who the task believes is calling is who its token names.                *)
LocalsInv(r) ==
    /\ pc[r] # "idle" => req[r] \in Inbound
    /\ pc[r] \in Resolving \cup Handling => Caller(r) \in User
    /\ pc[r] \in {"asserting", "reading role"} =>
            user[r] = Caller(r) /\ req[r].account \in Account

(* The history of roles never misses what the core holds now, and a task   *)
(* past the membership check has seen one.                                 *)
HeldInv(r) ==
    /\ pc[r] \notin {"idle", "done"} /\ Caller(r) \in User /\ req[r].account \in Account
            => {membership[Caller(r)][req[r].account]} \cap Role \subseteq held[r]
    /\ pc[r] = "reading role" => held[r] # {}

(* A context says no more than the resolver learned.                       *)
ContextInv(r) ==
    /\ ctx[r] # NoCtx <=> pc[r] \in Handling
    /\ pc[r] \in Handling =>
            /\ ctx[r].account = req[r].account
            /\ ctx[r].role = NoRole \/ (ctx[r].role \in held[r] /\ ctx[r].user = Caller(r))
            /\ ctx[r].user = Caller(r) \/ (Case(r).tokenOnly /\ ctx[r].user = NoUser)
            /\ req[r].account # NoAccount /\ ~Case(r).tokenOnly => held[r] # {}
    /\ pc[r] = "calling" => Admits(ctx[r], Case(r)) /\ todo[r] # <<>>

(* What was sent is what was acknowledged until something fails.           *)
SentInv(r) ==
    /\ pc[r] \notin {"calling", "done"} => sent[r] = {}
    /\ pc[r] # "done" => {s.call.name : s \in sent[r]} = acked[r]

(* An answer is the translation of one of the causes the code can raise,   *)
(* and there is none before the request is done.                           *)
PossibleCause ==
    {Returned, Malformed, Unhandled, MergeRefusal}
    \cup {EdgeRefusal(h) : h \in {401, 403} \cup BodyRefusal}
    \cup {RpcError(code) : code \in StatusCode \ {"OK"}}
    \cup {as_http(code) : code \in StatusCode \ {"OK"}}

ReplyInv(r) ==
    /\ pc[r] # "done" => reply[r] = NoReply
    /\ Answered(r) => /\ cause[r] \in PossibleCause
                      /\ reply[r] = ReplyOn(req[r].surface, cause[r])

(* The role that admitted a call was really the caller's.  Resolution asks *)
(* the core twice and the decorator runs later, so the role may be stale;  *)
(* but a call of a @require_role use case reaches the core only if the     *)
(* caller held one of its roles, in the very account of the call, at some  *)
(* moment since the request arrived.                                       *)
CallRole(r) ==
    \A s \in sent[r] :
        Case(r).roles # {} =>
            /\ s.user = Caller(r)
            /\ s.account \in Account
            /\ held[r] \cap Case(r).roles # {}

RoleWasHeld == \A r \in Request : CallRole(r)

(* Requests in flight do not lend each other their identity: what a call   *)
(* carries as actor and account is what this request's own token and       *)
(* x-account-id say, the person resolved unless the route is @token_only,  *)
(* and the account one the person was a member of since it arrived.        *)
CallIdentity(r) ==
    \A s \in sent[r] :
        /\ Caller(r) \in User
        /\ s.user = Caller(r) \/ (Case(r).tokenOnly /\ s.user = NoUser)
        /\ s.call.as = "context" => s.account = req[r].account
        /\ s.call.as = "context" /\ s.account # NoAccount /\ ~Case(r).tokenOnly
                => held[r] # {}

OwnIdentity == \A r \in Request : CallIdentity(r)

(* What the caller reads says what was done: a refusal of the edge's own   *)
(* means no call of the use case was made, a success that every call made  *)
(* was answered OK (never half a cockpit), and a core failure that some    *)
(* call made was not.                                                      *)
AnswerEffect(r) ==
    Answered(r) =>
        LET c    == cause[r]
            made == {s.call.name : s \in sent[r]}
        IN  /\ c.raised \in {"http", "validation"} => made = {}
            /\ c.raised = "nothing" => made = acked[r]
            /\ c.raised = "rpc" => made # {}

AnswerMatchesEffect == \A r \in Request : AnswerEffect(r)

RequestInv(r) ==
    /\ LocalsInv(r) /\ HeldInv(r) /\ ContextInv(r) /\ SentInv(r) /\ ReplyInv(r)
    /\ CallRole(r) /\ CallIdentity(r) /\ AnswerEffect(r)

IInv == TypeOK /\ \A r \in Request : RequestInv(r)

(* The two ports tell the same story. What is an error on one is an error  *)
(* on the other, but for the merge refusal (412 on REST, a message with    *)
(* status OK on gRPC); and but for that and the 422s (a malformed body is  *)
(* INVALID_ARGUMENT on gRPC, the one enroll raises is INTERNAL) the gRPC   *)
(* status classifies to the HTTP status REST answers for the same cause.   *)
TransportParity ==
    \A r \in Request :
        LET c == cause[r]
            h == HttpClass(req[r].surface, reply[r])
        IN  Answered(r) /\ c.raised # "refusal"
                => /\ h >= 400 <=> RestReply(c).http >= 400
                   /\ c.http # 422 => h = RestReply(c).http

(* A 5xx never carries the core's words, whichever port it leaves by and   *)
(* wherever in the request it arose (resolver or use case).                *)
NoCoreDetailOn5xx ==
    \A r \in Request :
        Answered(r) /\ HttpClass(req[r].surface, reply[r]) >= 500
            => reply[r].detail # "core"

(* An AuthContext lives exactly as long as a handler: it is there for      *)
(* every decorator and every call, and gone however the request ended, the *)
(* cancelled task included.                                                *)
ContextBrackets ==
    \A r \in Request : ctx[r] # NoCtx <=> pc[r] \in {"handling", "calling"}

(* Every request that arrives ends: no path through authentication,        *)
(* resolution and the use case waits for ever.                             *)
EveryRequestEnds == \A r \in Request : pc[r] # "idle" ~> pc[r] = "done"

-----------------------------------------------------------------------------
(* What the repository says and the code does not keep; it is refuted.     *)

(* record_usage: the overrun "becomes an OK response"; an error "would     *)
(* make the caller think the consumption was NOT recorded (it was)".       *)
RecordedUsageAnswersOK ==
    \A r \in Request :
        Answered(r) /\ "RecordUsage" \in acked[r] => cause[r].raised = "nothing"
=============================================================================
