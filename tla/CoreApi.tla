------------------------------- MODULE CoreApi -------------------------------
(***************************************************************************)
(* What the edge can call on the core: the generated client stubs of       *)
(* app/coreclient/gen/dop/v1.  A stub is the kind of call each of its      *)
(* methods makes: one answer, or a stream of them.                         *)
(***************************************************************************)
EXTENDS TLC

Unary(names)     == [m \in names |-> "unary_unary"]
Streaming(names) == [m \in names |-> "unary_stream"]

IdentityServiceStub ==
    Unary({ "GetUser", "EnsureUser", "ListAccounts", "GetAccount", "CreateAccount",
            "ListMemberships", "SendEmailVerification", "CreateInvite", "AcceptInvite",
            "RevokeInvite", "UpdateMembership", "RemoveMembership", "ListInvites",
            "GetInvite", "UpdateProfile", "GetOnboarding", "RecordOnboardingStep",
            "CompleteOnboarding", "CheckHandle", "UpdatePersonalAccount", "SetPlan" })

HierarchyServiceStub ==
    Unary({ "ListWorkspaces", "GetWorkspace", "CreateWorkspace", "UpdateWorkspace",
            "ListProjects", "GetProject", "CreateProject", "UpdateProject", "GetTree" })

ResourceServiceStub ==
    Unary({ "ListResources", "GetResource", "CreateResource", "UpdateResource",
            "DeleteResource", "GrantResource", "RevokeGrant", "ListMemberGrants",
            "SetCredential", "CheckResource" })

WorkflowServiceStub ==
    Unary({ "ListFlows", "GetFlow", "CreateFlow", "UpdateFlow", "ValidateFlow",
            "ResolveFlow", "PromoteFlow", "PublishFlow", "WithdrawFlow", "GrantFlow",
            "RevokeFlowGrant", "DeriveFlow", "BumpFlowPin", "ListFlowShares",
            "ListFlowAdoptions" })

DemandServiceStub ==
    Unary({ "ListDemands", "GetDemand", "StartDemand", "AdvanceStage", "DecideGate",
            "ListThreads", "CreateThread", "PostMessage", "PublishFinding",
            "ListFindings" })
    @@ Streaming({"WatchDemand"})

DeliveryServiceStub ==
    Unary({ "ListPullRequests", "GetMergeQueue", "EnqueueMerge", "ListDirectives",
            "DecideDirective" })

CostServiceStub ==
    Unary({"RecordUsage", "GetBudget", "SetBudget", "RouteModel", "SummarizeCost"})

ExecutionServiceStub ==
    Unary({ "ProvisionSandbox", "SuspendSandbox", "ResumeSandbox", "DestroySandbox",
            "DescribeSandbox" })
    @@ Streaming({"StreamLogs"})

KnowledgeServiceStub ==
    Unary({"BuildContextPackage", "SearchMemory", "ReadIndex", "PutArtifact", "ListRules"})

SecondFactorServiceStub ==
    Unary({ "ListSecondFactors", "EnrollSecondFactor", "ConfirmSecondFactor",
            "RevokeSecondFactor", "ChallengeSecondFactor", "VerifySecondFactor",
            "VerifyRecoveryCode", "GetSecondFactorState", "RegenerateRecoveryCodes" })

CatalogServiceStub   == Unary({"ListPlans", "ListProviders"})
AgentServiceStub     == Unary({"RunTurn"})
EventServiceStub     == Streaming({"WatchEvents"})
AttentionServiceStub == Unary({"ListAttention"}) @@ Streaming({"WatchAttention"})

(* stubs.py: the stubs the use cases can ask for.  No factory makes an     *)
(* AgentMetricsServiceStub.                                                *)
CoreMethods ==
    IdentityServiceStub @@ CatalogServiceStub @@ ResourceServiceStub
    @@ SecondFactorServiceStub @@ HierarchyServiceStub @@ WorkflowServiceStub
    @@ DemandServiceStub @@ KnowledgeServiceStub @@ CostServiceStub @@ DeliveryServiceStub
    @@ ExecutionServiceStub @@ EventServiceStub @@ AttentionServiceStub @@ AgentServiceStub
=============================================================================
