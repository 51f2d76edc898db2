-------------------------------- MODULE Ports --------------------------------
(***************************************************************************)
(* The two ports over the use cases: the routers of app/routers (REST) and *)
(* the servicers of app/grpcapi (gRPC).  An adapter is the use cases it    *)
(* calls, those among them to which it hands the caller's idempotency key  *)
(* (the Idempotency-Key header, the idempotency_key field), and those      *)
(* whose route is @token_only, for which nothing is resolved.  What the    *)
(* servicers make of the messages is in Views.                             *)
(***************************************************************************)
EXTENDS UseCases, EdgeApi

Router(calls, keys) == [calls |-> calls, keys |-> keys, tokenOnly |-> {}]

IdentityOps ==
    DOMAIN PersonCases \cup DOMAIN AccountCases \cup DOMAIN InviteCases
    \cup DOMAIN MemberCases \cup DOMAIN VerificationCases

DemandOps == DOMAIN DemandReads \cup DOMAIN DemandWrites

(* REST has nowhere to carry a key for identity's writes.                  *)
IdentityRouter ==
    [Router(IdentityOps, {}) EXCEPT !.tokenOnly = {"send_email_verification"}]

HierarchyRouter    == Router(DOMAIN HierarchyCases, {"create_workspace", "create_project"})
ResourceRouter     == Router(DOMAIN ResourceCases, {"create_resource"})
WorkflowRouter     == Router(DOMAIN WorkflowCases, {"create_flow"})
DemandRouter       == Router(DemandOps, DOMAIN DemandWrites)
DeliveryRouter     == Router(DOMAIN DeliveryCases, {"enqueue_merge", "decide_directive"})
CostRouter         == Router(DOMAIN CostCases, {"record_usage"})
ExecutionRouter    == Router(DOMAIN ExecutionCases, {"provision_sandbox"})
KnowledgeRouter    == Router(DOMAIN KnowledgeCases, {"put_artifact"})
SecondFactorRouter == Router(DOMAIN SecondFactorCases, {})
AttentionRouter    == Router(DOMAIN AttentionCases, {})
RuntimeRouter      == Router(DOMAIN RuntimeCases, {"run_turn"})
CatalogRouter      == Router(DOMAIN CatalogCases, {})

-----------------------------------------------------------------------------
(* A servicer: the service it is added to the server for, the use case     *)
(* each method it overrides calls, and the keys.  A registered method that *)
(* is not overridden would answer by the generated body; a method that is  *)
(* not registered is reached by nobody.                                    *)
Servicer(service, methods, keys) ==
    [ calls     |-> {methods[m] : m \in DOMAIN methods \cap DOMAIN service},
      keys      |-> keys,
      generated |-> DOMAIN service \ DOMAIN methods ]

(* No RemoveMember and no verification e-mail; AcceptInvite has no key.    *)
IdentityServicer ==
    Servicer(IdentityService,
        [ GetMe |-> "me", ListAccounts |-> "list_accounts", ListMembers |-> "list_members",
          CreateAccount |-> "create_account", CreateInvite |-> "create_invite",
          ListInvites |-> "list_invites", GetInvite |-> "get_invite",
          AcceptInvite |-> "accept_invite", RevokeInvite |-> "revoke_invite",
          UpdateMember |-> "update_member", UpdateProfile |-> "update_profile",
          GetOnboarding |-> "onboarding", RecordOnboardingStep |-> "record_step",
          CompleteOnboarding |-> "complete_onboarding",
          CheckHandle |-> "handle_availability",
          UpdatePersonalAccount |-> "update_personal_account", SetPlan |-> "set_plan" ],
        {"create_account", "create_invite"})

HierarchyServicer ==
    Servicer(HierarchyService,
        [ GetTree |-> "get_tree", ListWorkspaces |-> "list_workspaces",
          CreateWorkspace |-> "create_workspace", ListProjects |-> "list_projects",
          GetProject |-> "get_project", CreateProject |-> "create_project",
          BindTaskManager |-> "bind_task_manager" ],
        {"create_workspace", "create_project"})

ResourceServicer ==
    Servicer(ResourceService,
        [ ListResources |-> "list_resources", GetResource |-> "get_resource",
          CreateResource |-> "create_resource", SetCredential |-> "set_credential",
          GrantResource |-> "grant_resource", RevokeGrant |-> "revoke_grant",
          CheckResource |-> "check_resource" ],
        {"create_resource"})

WorkflowServicer ==
    Servicer(WorkflowService,
        [ ListFlows |-> "list_flows", GetFlow |-> "get_flow", CreateFlow |-> "create_flow",
          UpdateFlow |-> "update_flow", ValidateFlow |-> "validate_flow",
          ResolveFlow |-> "resolve_flow", PromoteFlow |-> "promote_flow" ],
        {"create_flow"})

DemandServicer ==
    Servicer(DemandService,
        [ ListDemands |-> "list_demands", GetDemand |-> "get_demand",
          GetDemandCockpit |-> "get_cockpit", StartDemand |-> "start_demand",
          AdvanceStage |-> "advance_stage", DecideGate |-> "decide_gate",
          ListThreads |-> "list_threads", CreateThread |-> "create_thread",
          PostMessage |-> "post_message", PublishFinding |-> "publish_finding" ],
        DOMAIN DemandWrites)

DeliveryServicer ==
    Servicer(DeliveryService,
        [ GetDeliveryBoard |-> "get_board", ListPullRequests |-> "list_pull_requests",
          GetMergeQueue |-> "get_merge_queue", EnqueueMerge |-> "enqueue_merge",
          ListDirectives |-> "list_directives", DecideDirective |-> "decide_directive" ],
        {"enqueue_merge", "decide_directive"})

CostServicer ==
    Servicer(CostService,
        [ RouteModel |-> "route_model", GetBudget |-> "get_budget", SetBudget |-> "set_budget",
          RecordUsage |-> "record_usage", SummarizeCost |-> "summarize_cost" ],
        {"record_usage"})

ExecutionServicer ==
    Servicer(ExecutionService,
        [ ProvisionSandbox |-> "provision_sandbox", DescribeSandbox |-> "describe_sandbox",
          SuspendSandbox |-> "suspend_sandbox", ResumeSandbox |-> "resume_sandbox",
          DestroySandbox |-> "destroy_sandbox" ],
        {"provision_sandbox"})

KnowledgeServicer ==
    Servicer(KnowledgeService,
        [ GetContextPackage |-> "get_context_package", SearchMemory |-> "search_memory",
          ReadIndex |-> "read_index", PutArtifact |-> "put_artifact",
          ListRules |-> "list_rules" ],
        {"put_artifact"})

SecondFactorServicer ==
    Servicer(SecondFactorService,
        [ GetSecondFactorState |-> "state", ListSecondFactors |-> "list_factors",
          EnrollSecondFactor |-> "enroll", ConfirmSecondFactor |-> "confirm",
          RevokeSecondFactor |-> "revoke", ChallengeSecondFactor |-> "challenge",
          VerifySecondFactor |-> "verify", VerifyRecoveryCode |-> "verify_recovery",
          RegenerateRecoveryCodes |-> "regenerate_recovery_codes" ],
        {})

AttentionServicer ==
    Servicer(AttentionService,
        [ListAttention |-> "list_attention", WatchAttention |-> "watch_attention"], {})

StreamServicer ==
    Servicer(StreamService,
        [ WatchEvents |-> "watch_account_events", WatchDemand |-> "watch_demand",
          TailLogs |-> "tail_sandbox_logs" ],
        {})

RuntimeServicer == Servicer(RuntimeService, [RunTurn |-> "run_turn"], {"run_turn"})

CatalogServicer ==
    Servicer(CatalogService, [ListPlans |-> "plans", ListProviders |-> "providers"], {})

(* create_app includes the routers, GrpcServer.start adds the servicers.   *)
Routers ==
    { IdentityRouter, HierarchyRouter, ResourceRouter, WorkflowRouter, DemandRouter,
      DeliveryRouter, CostRouter, ExecutionRouter, KnowledgeRouter, SecondFactorRouter,
      AttentionRouter, RuntimeRouter, CatalogRouter }

Servicers ==
    { IdentityServicer, HierarchyServicer, ResourceServicer, WorkflowServicer, DemandServicer,
      DeliveryServicer, CostServicer, ExecutionServicer, KnowledgeServicer,
      SecondFactorServicer, AttentionServicer, StreamServicer, RuntimeServicer,
      CatalogServicer }

(* Nobody falls through to a generated body (UNIMPLEMENTED, and then the   *)
(* ErrorInterceptor's INTERNAL), and no servicer invents a use case.       *)
ASSUME ServicersAssumption ==
    \A s \in Servicers :
        s.generated = {} /\ s.calls \subseteq DOMAIN Cases \cup DOMAIN WatchCases

Adapters == [rest |-> Routers, grpc |-> Servicers]

(* A use case as the ports expose it.                                      *)
Exposed(op) ==
    [ scoped    |-> Cases[op].scoped,
      roles     |-> Cases[op].roles,
      plans     |-> Cases[op].plans,
      refusals  |-> Cases[op].refusals,
      soft      |-> Cases[op].soft,
      surfaces  |-> {p \in {"rest", "grpc"} : \E a \in Adapters[p] : op \in a.calls},
      clientKey |-> {p \in {"rest", "grpc"} : \E a \in Adapters[p] : op \in a.keys},
      tokenOnly |-> \E a \in Routers : op \in a.tokenOnly ]

AllCases == [op \in DOMAIN Cases |-> Exposed(op)]
=============================================================================
