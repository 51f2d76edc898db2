------------------------------- MODULE EdgeApi -------------------------------
(***************************************************************************)
(* What the edge's gRPC port accepts: the generated bases of               *)
(* app/grpcapi/gen/dop/bff/v1.  A service is what its add_..._to_server    *)
(* registers, each method with the kind of handler it is registered as;    *)
(* the base class gives each of them a body that answers UNIMPLEMENTED,    *)
(* for a servicer to override.                                             *)
(***************************************************************************)
EXTENDS CoreApi

(* The methods the generated base class defines, and those registered.     *)
IdentityServiceServicer ==
    { "GetMe", "ListAccounts", "ListMembers", "CreateAccount", "CreateInvite",
      "ListInvites", "GetInvite", "AcceptInvite", "RevokeInvite", "UpdateMember",
      "UpdateProfile", "GetOnboarding", "RecordOnboardingStep", "CompleteOnboarding",
      "CheckHandle", "UpdatePersonalAccount", "SetPlan" }

IdentityService == Unary(IdentityServiceServicer)

HierarchyService ==
    Unary({ "GetTree", "ListWorkspaces", "CreateWorkspace", "ListProjects", "GetProject",
            "CreateProject", "BindTaskManager" })

ResourceService ==
    Unary({ "ListResources", "GetResource", "CreateResource", "SetCredential",
            "GrantResource", "RevokeGrant", "CheckResource" })

WorkflowService ==
    Unary({ "ListFlows", "GetFlow", "CreateFlow", "UpdateFlow", "ValidateFlow",
            "ResolveFlow", "PromoteFlow" })

DemandService ==
    Unary({ "ListDemands", "GetDemand", "GetDemandCockpit", "StartDemand", "AdvanceStage",
            "DecideGate", "ListThreads", "CreateThread", "PostMessage", "PublishFinding" })

DeliveryService ==
    Unary({ "GetDeliveryBoard", "ListPullRequests", "GetMergeQueue", "EnqueueMerge",
            "ListDirectives", "DecideDirective" })

CostService ==
    Unary({"RouteModel", "GetBudget", "SetBudget", "RecordUsage", "SummarizeCost"})

ExecutionService ==
    Unary({ "ProvisionSandbox", "DescribeSandbox", "SuspendSandbox", "ResumeSandbox",
            "DestroySandbox" })

KnowledgeService ==
    Unary({"GetContextPackage", "SearchMemory", "ReadIndex", "PutArtifact", "ListRules"})

SecondFactorService ==
    Unary({ "GetSecondFactorState", "ListSecondFactors", "EnrollSecondFactor",
            "ConfirmSecondFactor", "RevokeSecondFactor", "ChallengeSecondFactor",
            "VerifySecondFactor", "VerifyRecoveryCode", "RegenerateRecoveryCodes" })

RuntimeService   == Unary({"RunTurn"})
CatalogService   == Unary({"ListPlans", "ListProviders"})
AttentionService == Unary({"ListAttention"}) @@ Streaming({"WatchAttention"})
StreamService    == Streaming({"WatchEvents", "WatchDemand", "TailLogs"})
=============================================================================
