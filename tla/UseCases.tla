------------------------------- MODULE UseCases -------------------------------
(***************************************************************************)
(* The use cases of app/usecases/*.py as a table: for each one, what its   *)
(* decorators demand and which RPCs of the core it makes, in which order.  *)
(*                                                                         *)
(*   scoped    @account_scoped: an active account is required              *)
(*   roles     @require_role(...): {} when the decorator is absent         *)
(*   plans     the sequences of calls the body can make.  A step of a plan *)
(*             is a SET of RPCs: more than one where the body gathers      *)
(*   refusals  HTTP statuses of the HTTPExceptions the body raises itself  *)
(*   soft      core statuses the body turns into an answer of its own      *)
(*                                                                         *)
(* Which port exposes which of them is in Ports.                           *)
(***************************************************************************)
EXTENDS Sequences, CoreApi

Admin == {"owner", "admin"}
Dev   == {"owner", "admin", "developer"}

(* An RPC.  key: "edge" is _idempotency(key), the caller's key or one      *)
(* minted here; "client" only the caller's; "none" for a request without   *)
(* the field.  as: the metadata of the request's context, or of the        *)
(* explicit pair of metadata_for.                                          *)
Rpc == [name : STRING, write : BOOLEAN, key : {"none", "edge", "client"},
        as : {"context", "explicit"}]

Read(n)     == [name |-> n, write |-> FALSE, key |-> "none",   as |-> "context"]
Keyed(n)    == [name |-> n, write |-> TRUE,  key |-> "edge",   as |-> "context"]
Unkeyed(n)  == [name |-> n, write |-> TRUE,  key |-> "none",   as |-> "context"]
ByClient(n) == [name |-> n, write |-> TRUE,  key |-> "client", as |-> "context"]

Entry(scoped, roles, plan) ==
    [ scoped |-> scoped, roles |-> roles, plans |-> {plan}, refusals |-> {}, soft |-> {} ]

Open(plan)         == Entry(FALSE, {}, plan)
Scoped(plan)       == Entry(TRUE, {}, plan)
Gated(roles, plan) == Entry(TRUE, roles, plan)

-----------------------------------------------------------------------------
(* identity.py: the person, their onboarding and their accounts.           *)
PersonCases ==
    [ me                      |-> Open(<<{Read("GetUser")}>>),
      update_profile          |-> Open(<<{Unkeyed("UpdateProfile")}>>),
      onboarding              |-> Open(<<{Read("GetOnboarding")}>>),
      record_step             |-> Open(<<{Unkeyed("RecordOnboardingStep")}>>),
      complete_onboarding     |-> Open(<<{Unkeyed("CompleteOnboarding")}>>),
      handle_availability     |-> Open(<<{Read("CheckHandle")}>>),
      update_personal_account |-> Open(<<{Unkeyed("UpdatePersonalAccount")}>>),
      set_plan                |-> Open(<<{Unkeyed("SetPlan")}>>) ]

(* identity.py: accounts.                                                  *)
AccountCases ==
    [ list_accounts  |-> Open(<<{Read("ListAccounts")}>>),
      create_account |-> Scoped(<<{Keyed("CreateAccount")}>>) ]

(* identity.py: members and invites.  accept_invite re-reads the account   *)
(* under the metadata of the membership it was just given.                 *)
InviteCases ==
    [ list_members  |-> Gated(Admin, <<{Read("ListMemberships")}>>),
      create_invite |-> Gated(Admin, <<{Keyed("CreateInvite")}>>),
      list_invites  |-> Gated(Admin, <<{Read("ListInvites")}>>),
      get_invite    |-> Open(<<{Read("GetInvite")}>>),
      accept_invite |-> Open(<<{Keyed("AcceptInvite")},
                               {[Read("GetAccount") EXCEPT !.as = "explicit"]}>>) ]

MemberCases ==
    [ revoke_invite |-> Gated(Admin, <<{Unkeyed("RevokeInvite")}>>),
      update_member |-> Gated(Admin, <<{Unkeyed("UpdateMembership")}>>),
      remove_member |-> Open(<<{Unkeyed("RemoveMembership")}>>) ]

(* identity.py: no e-mail on the credential is a 400; an address already   *)
(* verified makes no call; a link that cannot be minted is a 503.          *)
VerificationCases ==
    [ send_email_verification |->
        [Open(<<{Unkeyed("SendEmailVerification")}>>) EXCEPT
            !.plans = @ \cup {<<>>}, !.refusals = {400, 503}] ]

HierarchyCases ==
    [ get_tree          |-> Scoped(<<{Read("GetTree")}>>),
      list_workspaces   |-> Scoped(<<{Read("ListWorkspaces")}>>),
      create_workspace  |-> Gated(Admin, <<{Keyed("CreateWorkspace")}>>),
      list_projects     |-> Scoped(<<{Read("ListProjects")}>>),
      get_project       |-> Scoped(<<{Read("GetProject")}>>),
      create_project    |-> Gated(Admin, <<{Keyed("CreateProject")}>>),
      bind_task_manager |-> Gated(Admin, <<{Read("GetProject")}, {Unkeyed("UpdateProject")}>>) ]

ResourceCases ==
    [ list_resources     |-> Scoped(<<{Read("ListResources")}>>),
      get_resource       |-> Scoped(<<{Read("GetResource")}>>),
      create_resource    |-> Scoped(<<{Keyed("CreateResource")}>>),
      set_credential     |-> Scoped(<<{Unkeyed("SetCredential")}, {Read("GetResource")}>>),
      grant_resource     |-> Gated(Admin, <<{Unkeyed("GrantResource")}>>),
      list_member_grants |-> Gated(Admin, <<{Read("ListMemberGrants")}>>),
      revoke_grant       |-> Open(<<{Unkeyed("RevokeGrant")}>>),
      check_resource     |-> Scoped(<<{Read("CheckResource")}>>) ]

WorkflowCases ==
    [ list_flows    |-> Scoped(<<{Read("ListFlows")}>>),
      get_flow      |-> Scoped(<<{Read("GetFlow")}>>),
      resolve_flow  |-> Scoped(<<{Read("ResolveFlow")}>>),
      create_flow   |-> Gated(Dev, <<{Keyed("CreateFlow")}>>),
      update_flow   |-> Gated(Dev, <<{Unkeyed("UpdateFlow")}>>),
      validate_flow |-> Scoped(<<{Read("ValidateFlow")}>>),
      promote_flow  |-> Gated(Admin, <<{Unkeyed("PromoteFlow")}>>) ]

(* demand.py: the reads.  get_cockpit gathers three, and the first failure *)
(* of the gather is the failure of the whole.                              *)
DemandReads ==
    [ list_demands |-> Scoped(<<{Read("ListDemands")}>>),
      get_demand   |-> Scoped(<<{Read("GetDemand")}>>),
      list_threads |-> Scoped(<<{Read("ListThreads")}>>),
      get_cockpit  |-> Scoped(<<{Read("GetDemand"), Read("ListThreads"),
                                 Read("ListFindings")}>>) ]

DemandWrites ==
    [ start_demand    |-> Gated(Dev, <<{Keyed("StartDemand")}>>),
      advance_stage   |-> Gated(Dev, <<{Keyed("AdvanceStage")}>>),
      decide_gate     |-> Gated(Dev, <<{Keyed("DecideGate")}>>),
      create_thread   |-> Gated(Dev, <<{Keyed("CreateThread")}>>),
      post_message    |-> Gated(Dev, <<{Keyed("PostMessage")}>>),
      publish_finding |-> Gated(Dev, <<{Keyed("PublishFinding")}>>) ]

(* delivery.py: FAILED_PRECONDITION from the merge queue is an answer (the *)
(* list of what is missing), not a failure.                                *)
DeliveryCases ==
    [ list_pull_requests |-> Scoped(<<{Read("ListPullRequests")}>>),
      list_directives    |-> Scoped(<<{Read("ListDirectives")}>>),
      get_board          |-> Scoped(<<{Read("ListPullRequests"), Read("ListDirectives")}>>),
      get_merge_queue    |-> Scoped(<<{Read("GetMergeQueue")}>>),
      enqueue_merge      |-> [Gated(Dev, <<{Keyed("EnqueueMerge")}>>)
                                EXCEPT !.soft = {"FAILED_PRECONDITION"}],
      decide_directive   |-> Gated(Dev, <<{Keyed("DecideDirective")}>>) ]

(* cost.py: the budgets are read only when the recorded usage overran one: *)
(* the account's, and the demand's before it when there is a demand.       *)
CostCases ==
    [ route_model    |-> Scoped(<<{Read("RouteModel")}>>),
      get_budget     |-> Scoped(<<{Read("GetBudget")}>>),
      set_budget     |-> Gated(Admin, <<{Unkeyed("SetBudget")}>>),
      record_usage   |->
        LET recorded == <<{Keyed("RecordUsage")}>>
            budget   == <<{Read("GetBudget")}>>
        IN  [Scoped(recorded) EXCEPT
                !.plans = {recorded, recorded \o budget, recorded \o budget \o budget}],
      summarize_cost |-> Scoped(<<{Read("SummarizeCost")}>>) ]

ExecutionCases ==
    [ provision_sandbox |-> Gated(Dev, <<{Keyed("ProvisionSandbox")}>>),
      describe_sandbox  |-> Scoped(<<{Read("DescribeSandbox")}>>),
      suspend_sandbox   |-> Gated(Dev, <<{Unkeyed("SuspendSandbox")}>>),
      resume_sandbox    |-> Gated(Dev, <<{Unkeyed("ResumeSandbox")}>>),
      destroy_sandbox   |-> Gated(Dev, <<{Unkeyed("DestroySandbox")}>>) ]

KnowledgeCases ==
    [ get_context_package |-> Scoped(<<{Read("BuildContextPackage")}>>),
      search_memory       |-> Scoped(<<{Read("SearchMemory")}>>),
      read_index          |-> Scoped(<<{Read("ReadIndex")}>>),
      list_rules          |-> Scoped(<<{Read("ListRules")}>>),
      put_artifact        |-> Scoped(<<{Keyed("PutArtifact")}>>) ]

(* secondfactor.py: an unknown kind is refused here with a 422.            *)
SecondFactorCases ==
    [ state                     |-> Open(<<{Read("GetSecondFactorState")}>>),
      list_factors              |-> Open(<<{Read("ListSecondFactors")}>>),
      enroll                    |-> [Open(<<{Unkeyed("EnrollSecondFactor")}>>)
                                        EXCEPT !.refusals = {422}],
      confirm                   |-> Open(<<{Unkeyed("ConfirmSecondFactor")}>>),
      revoke                    |-> Open(<<{Unkeyed("RevokeSecondFactor")}>>),
      challenge                 |-> Open(<<{Unkeyed("ChallengeSecondFactor")}>>),
      verify                    |-> Open(<<{Unkeyed("VerifySecondFactor")}>>),
      verify_recovery           |-> Open(<<{Unkeyed("VerifyRecoveryCode")}>>),
      regenerate_recovery_codes |-> Open(<<{Unkeyed("RegenerateRecoveryCodes")}>>) ]

(* attention.py, runtime.py (the caller's key or none) and catalog.py.     *)
AttentionCases == [ list_attention |-> Scoped(<<{Read("ListAttention")}>>) ]

RuntimeCases == [ run_turn |-> Gated(Dev, <<{ByClient("RunTurn")}>>) ]

CatalogCases ==
    [ plans     |-> Open(<<{Read("ListPlans")}>>),
      providers |-> Open(<<{Read("ListProviders")}>>) ]

Cases ==
    PersonCases @@ AccountCases @@ InviteCases @@ MemberCases @@ VerificationCases
    @@ HierarchyCases @@ ResourceCases @@ WorkflowCases @@ DemandReads @@ DemandWrites
    @@ DeliveryCases @@ CostCases @@ ExecutionCases @@ KnowledgeCases
    @@ SecondFactorCases @@ AttentionCases @@ RuntimeCases @@ CatalogCases

(* stream.py and attention.py: plain functions that make one call and hand *)
(* it to _pump; their decorator decides when they are called.  What the    *)
(* call then brings is in EventStream.                                     *)
WatchCases ==
    [ watch_account_events |-> Scoped(<<{Read("WatchEvents")}>>),
      watch_demand         |-> Scoped(<<{Read("WatchDemand")}>>),
      tail_sandbox_logs    |-> Scoped(<<{Read("StreamLogs")}>>),
      watch_attention      |-> Scoped(<<{Read("WatchAttention")}>>) ]

RpcsOf(uc) == UNION {UNION {plan[n] : n \in DOMAIN plan} : plan \in uc.plans}

(* A use case awaits a call of one answer, and pumps a stream.             *)
ASSUME RpcsAssumption ==
    /\ \A op \in DOMAIN Cases : \A c \in RpcsOf(Cases[op]) :
            c.name \in DOMAIN CoreMethods /\ CoreMethods[c.name] = "unary_unary"
    /\ \A op \in DOMAIN WatchCases : \A c \in RpcsOf(WatchCases[op]) :
            c.name \in DOMAIN CoreMethods /\ CoreMethods[c.name] = "unary_stream"
=============================================================================
