----------------------------- MODULE Vocabulary -----------------------------
(***************************************************************************)
(* The enumerations of the two contracts.  The core (dop.v1) and the edge  *)
(* (dop.bff.v1) number their values each for itself; between them the use  *)
(* cases speak words.  A use case's table takes the CORE's numbers to      *)
(* words, a servicer's takes the EDGE's numbers to the same words, and the *)
(* inverse of each takes words back.                                       *)
(*                                                                         *)
(* A table is the sequence of its words: the word at i is the one of the   *)
(* value numbered i in that contract's generated enumeration.  Zero is     *)
(* UNSPECIFIED and is in no table.                                         *)
(***************************************************************************)
EXTENDS Naturals, Sequences, TLC

(* Mutant: a number the table does not know is given a word of its own.    *)
Word_Unspecified(table, n) == IF n \in DOMAIN table THEN table[n] ELSE "unspecified"

(* X_BY_ENUM.get(value, ""): a number the table does not know is no word.  *)
Word(table, n) == IF n \in DOMAIN table THEN table[n] ELSE ""

(* ENUM_BY_X.get(name, UNSPECIFIED)                                        *)
Number(table, w) ==
    IF \E n \in DOMAIN table : table[n] = w
    THEN CHOOSE n \in DOMAIN table : table[n] = w
    ELSE 0

(* The tables of two services, side by side.                               *)
Beside(f, g) == [v \in DOMAIN f \cup DOMAIN g |-> IF v \in DOMAIN f THEN f[v] ELSE g[v]]

-----------------------------------------------------------------------------
(* app/usecases: the core's numbers.                                       *)

CoreAttention ==
    [ AttentionKind |-> << "thread_blocked", "gate_pending", "pr_review", "merge_conflict",
                           "directive", "budget_exceeded", "integration_broken",
                           "contact_phone_unverified" >>,
      Change        |-> << "opened", "resolved" >> ]

CoreWorkflow ==
    [ StageType |-> << "context", "spec", "plan", "implementation", "test",
                       "human_validation", "finalization", "generic" >>,
      Artifact  |-> << "document", "spec", "plan", "test_plan", "diagram", "report" >>,
      Gate      |-> << "none", "human" >> ]

CoreDemand ==
    [ DopStatus   |-> << "new", "doing", "done", "delivered" >>,
      StageStatus |-> << "pending", "running", "blocked", "done" >> ]

CoreDelivery ==
    [ MergeState |-> << "queued", "rebasing", "verifying", "merged", "conflict" >>,
      Directive  |-> << "cherry_pick", "merge_order", "file_partition", "cross_verify" >> ]

CoreExecution ==
    [ Tier         |-> << "hardware", "kernel_emulated", "namespace" >>,
      SandboxState |-> << "provisioning", "active", "suspended", "destroyed" >> ]

CoreKnowledge == [ KnowledgeKind |-> << "rule", "index", "memory" >> ]

CoreResource == [ ResourceKind |-> << "integration", "skill", "workflow", "git_flow" >> ]

CoreSecondFactor ==
    [ FactorKind   |-> << "totp", "email", "sms" >>,
      FactorStatus |-> << "pending", "active", "revoked" >> ]

CoreIdentity ==
    [ Role         |-> << "owner", "admin", "developer", "viewer" >>,
      AccountKind  |-> << "personal", "organization" >>,
      InviteStatus |-> << "pending", "accepted", "expired", "revoked" >> ]

Core ==
    Beside(CoreAttention, Beside(CoreWorkflow, Beside(CoreDemand, Beside(CoreDelivery,
    Beside(CoreExecution, Beside(CoreKnowledge, Beside(CoreResource,
    Beside(CoreSecondFactor, CoreIdentity))))))))

-----------------------------------------------------------------------------
(* app/grpcapi: the edge's numbers.                                        *)

EdgeAttention ==
    [ AttentionKind |-> << "thread_blocked", "gate_pending", "pr_review", "merge_conflict",
                           "directive", "budget_exceeded", "integration_broken",
                           "contact_phone_unverified" >>,
      Change        |-> << "opened", "resolved" >> ]

EdgeWorkflow ==
    [ StageType |-> << "context", "spec", "plan", "implementation", "test",
                       "human_validation", "finalization", "generic" >>,
      Artifact  |-> << "document", "spec", "plan", "test_plan", "diagram", "report" >>,
      Gate      |-> << "none", "human" >> ]

EdgeDemand ==
    [ DopStatus   |-> << "new", "doing", "done", "delivered" >>,
      StageStatus |-> << "pending", "running", "blocked", "done" >> ]

EdgeDelivery ==
    [ MergeState |-> << "queued", "rebasing", "verifying", "merged", "conflict" >>,
      Directive  |-> << "cherry_pick", "merge_order", "file_partition", "cross_verify" >> ]

EdgeExecution ==
    [ Tier         |-> << "hardware", "kernel_emulated", "namespace" >>,
      SandboxState |-> << "provisioning", "active", "suspended", "destroyed" >> ]

EdgeKnowledge == [ KnowledgeKind |-> << "rule", "index", "memory" >> ]

EdgeResource == [ ResourceKind |-> << "integration", "skill", "workflow", "git_flow" >> ]

EdgeSecondFactor ==
    [ FactorKind   |-> << "totp", "email", "sms" >>,
      FactorStatus |-> << "pending", "active", "revoked" >> ]

EdgeIdentity ==
    [ Role         |-> << "owner", "admin", "developer", "viewer" >>,
      AccountKind  |-> << "personal", "organization" >>,
      InviteStatus |-> << "pending", "accepted", "expired", "revoked" >> ]

Edge ==
    Beside(EdgeAttention, Beside(EdgeWorkflow, Beside(EdgeDemand, Beside(EdgeDelivery,
    Beside(EdgeExecution, Beside(EdgeKnowledge, Beside(EdgeResource,
    Beside(EdgeSecondFactor, EdgeIdentity))))))))
=============================================================================
