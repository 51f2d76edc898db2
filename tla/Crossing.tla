------------------------------ MODULE Crossing ------------------------------
(***************************************************************************)
(* Callers of both ports reading and changing what the core stores, each   *)
(* message crossing the use case and, on the gRPC port, the servicer.      *)
(*                                                                         *)
(* The core's aggregates do not depend on one another, so a behaviour      *)
(* follows ONE of them, `about`:                                           *)
(*   project   bind_task_manager: read the project, write it back whole    *)
(*   flow      get_flow, edited by the client, update_flow                 *)
(*   demand    get_demand, advance_stage, decide_gate                      *)
(*   budget    get_budget, set_budget, record_usage                        *)
(*   box       list_attention, while the core opens and closes items       *)
(* and, of what the edge only reads,                                       *)
(*   package hits provenance pull factor step_up word                      *)
(*                                                                         *)
(* What the core does with a write (external) is what the comments of the  *)
(* use cases rely on: UpdateProject and UpdateFlow replace the whole.      *)
(***************************************************************************)
EXTENDS Views

CONSTANTS Caller,           \* callers of the edge
          Board,            \* bindings to a board, as callers submit them
          Flows,            \* the flows the core may hold at the start
          Edits,            \* what a client may set in a stage: [field, word]
          MaxItems,         \* bound on the box
          MaxSpent          \* bound on what is ever spent

VARIABLES about,            \* the aggregate this behaviour follows
          stored,           \* the core's message
          hand              \* what each caller, or its use case, holds

vars == <<about, stored, hand>>

(* A stage of a flow, as the core tells it, with the names of its actions. *)
StageSpecs == [key : STRING, type : Nat, artifact : Nat, gate : Nat, actions : Seq(STRING)]

(* A client sets a field of a stage to a word of its vocabulary.           *)
ASSUME CrossingAssumption ==
    /\ MaxItems \in Nat /\ MaxSpent \in Nat
    /\ Flows \subseteq Seq(StageSpecs)
    /\ \A e \in Edits : /\ e.field \in DOMAIN SpecWords
                        /\ \E n \in DOMAIN Core[SpecWords[e.field]] :
                              e.word = Core[SpecWords[e.field]][n]

Port == {"rest", "grpc"}
Idle == [pc |-> "idle"]

-----------------------------------------------------------------------------
(* The messages of the core.  Numbers one past a table stand for a core    *)
(* that is newer than the edge.                                            *)

Date == {Unset(0), Set(0), Set(1)}

Projects == [rest : {"r1", "r2"}, task_manager : {Unset(NoBinding)} \cup {Set(b) : b \in Board}]

Stages(statuses, dates) ==
    {ss \in [1..2 -> [key : {"k1", "k2"}, status : statuses, gate : 1..3, started_at : dates]] :
        ss[1].key = "k1" /\ ss[2].key = "k2"}

Demands == [dop_status : 0..5, stages : Stages({1, 2, 5}, {Unset(0)})]

Budgets == [limit : 0..MaxSpent, spent : {0}]

Whose == {Unset(""), Set("d1"), Set("d2")}

Items == [id : 1..MaxItems, kind : {1, 9}, demand : Whose]

Drops == UNION {[ls -> 0..1] : ls \in SUBSET {"rules", "memories", "a new layer"}}

Hits ==
    UNION {[artifacts : [1..n -> {"a", "b"}], scores : UNION {[1..m -> 0..1] : m \in 0..2}]
            : n \in 0..2}

Resolutions == [flow : {Unset(0)} \cup {Set(n) : n \in 0..2}, origins : 0..2]

Reviews == UNION {[1..n -> {"pending", "approved"}] : n \in 0..3}

Factors == [kind : 0..4, status : 0..4, confirmed_at : Date]

StepUps == [method : 0..4, recovery : BOOLEAN]

Words == UNION {[vocabulary : {v}, number : 0..Len(Core[v]) + 1] : v \in DOMAIN Core}

OnlyRead == {"package", "hits", "provenance", "pull", "factor", "step_up", "word"}

Messages ==
    [ project |-> Projects, flow |-> Flows, demand |-> Demands, budget |-> Budgets,
      box |-> {<<>>}, package |-> Drops, hits |-> Hits, provenance |-> Resolutions,
      pull |-> Reviews, factor |-> Factors, step_up |-> StepUps, word |-> Words ]

-----------------------------------------------------------------------------
Init ==
    /\ about \in DOMAIN Messages
    /\ stored \in Messages[about]
    /\ hand = [c \in Caller |-> Idle]

(* bind_task_manager: called by a router or a servicer with the binding.   *)
Bind(c, b) ==
    /\ about = "project" /\ hand[c].pc = "idle"
    /\ hand' = [hand EXCEPT ![c] = [pc |-> "reading", body |-> b]]
    /\ UNCHANGED <<about, stored>>

GetProject(c) ==
    /\ about = "project" /\ hand[c].pc = "reading"
    /\ hand' = [hand EXCEPT ![c] = [pc |-> "writing", body |-> @.body, current |-> stored]]
    /\ UNCHANGED <<about, stored>>

(* Mutant: the project is sent with its binding only, as if the core merged*)
(* what it gets.                                                           *)
UpdateProject_NoRead(c) ==
    /\ about = "project" /\ hand[c].pc = "writing"
    /\ stored' = [rest |-> "", task_manager |-> Set(hand[c].body)]
    /\ \/ hand' = [hand EXCEPT ![c] = Idle]
       \/ UNCHANGED hand
    /\ UNCHANGED about

(* The core replaces the project by what was sent.  When the answer is     *)
(* lost the channel sends the same message again, the key-less ones too.   *)
UpdateProject(c) ==
    /\ about = "project" /\ hand[c].pc = "writing"
    /\ stored' = [hand[c].current EXCEPT !.task_manager = Set(hand[c].body)]
    /\ \/ hand' = [hand EXCEPT ![c] = Idle]
       \/ UNCHANGED hand
    /\ UNCHANGED about

(* Either call fails, and the use case with it.                            *)
BindFails(c) ==
    /\ about = "project" /\ hand[c].pc \in {"reading", "writing"}
    /\ hand' = [hand EXCEPT ![c] = Idle]
    /\ UNCHANGED <<about, stored>>

-----------------------------------------------------------------------------
(* A client holds a flow as its port showed it: words, from the model or   *)
(* from the edge's numbers.                                                *)
Shown(p, f) == IF p = "rest" THEN flow(f) ELSE read_flow(edge_flow(flow(f)))

GetFlow(c, p) ==
    /\ about = "flow" /\ hand[c].pc = "idle"
    /\ hand' = [hand EXCEPT ![c] = [pc |-> "editing", port |-> p, base |-> stored,
                                    held |-> Shown(p, stored)]]
    /\ UNCHANGED <<about, stored>>

(* The client changes one stage (external).                                *)
Edit(c, i, e) ==
    /\ about = "flow" /\ hand[c].pc = "editing" /\ i \in DOMAIN hand[c].held
    /\ hand' = [hand EXCEPT ![c].held[i][e.field] = e.word, ![c].pc = "edited"]
    /\ UNCHANGED <<about, stored>>

(* Over gRPC the client sends numbers, and _new_flow reads them.           *)
Body(h) == IF h.port = "rest" THEN h.held ELSE new_flow(edge_flow(h.held))

UpdateFlow(c) ==
    /\ about = "flow" /\ hand[c].pc = "edited"
    /\ stored' = flow_for_the_core(Body(hand[c]))
    /\ hand' = [hand EXCEPT ![c] = Idle]
    /\ UNCHANGED about

-----------------------------------------------------------------------------
(* What reaches the use case: the word itself, or the edge's number read   *)
(* back.  StageTransition refuses what is not a word of the vocabulary.    *)
Arrives(p, w) ==
    IF p = "rest" THEN w ELSE edge_stage_status(Number(Edge["StageStatus"], w))

Advance(p, i, w) ==
    /\ about = "demand" /\ i \in DOMAIN stored.stages
    /\ Arrives(p, w) \in {"pending", "running", "blocked", "done"}
    /\ \E at \in {stored.stages[i].started_at, Set(1)} :
          stored' = [stored EXCEPT !.stages[i].status = stage_status_value(Arrives(p, w)),
                                   !.stages[i].started_at = at]
    /\ UNCHANGED <<about, hand>>

(* The core takes a decision only where a human gate is open.              *)
DecideGate(i, approved) ==
    /\ about = "demand" /\ i \in DOMAIN stored.stages
    /\ stored.stages[i].gate = GATE_HUMAN /\ stored.stages[i].status \in OPEN_STAGES
    /\ stored' = [stored EXCEPT !.stages[i].status = IF approved THEN 4 ELSE 3]
    /\ UNCHANGED <<about, hand>>

(* NewBudget refuses a negative limit; the spend is never sent.            *)
SetBudget(limit) ==
    /\ about = "budget"
    /\ stored' = [stored EXCEPT !.limit = limit]
    /\ UNCHANGED <<about, hand>>

RecordUsage(cost) ==
    /\ about = "budget" /\ stored.spent + cost <= MaxSpent
    /\ stored' = [stored EXCEPT !.spent = @ + cost]
    /\ UNCHANGED <<about, hand>>

(* The core orders its queue itself: an item may open anywhere in it.      *)
Open(place, kind, whose) ==
    /\ about = "box" /\ Len(stored) < MaxItems
    /\ place \in 1..Len(stored) + 1
    /\ LET free == CHOOSE id \in 1..MaxItems : \A i \in DOMAIN stored : stored[i].id # id
       IN  stored' = InsertAt(stored, place, [id |-> free, kind |-> kind, demand |-> whose])
    /\ UNCHANGED <<about, hand>>

Resolve(place) ==
    /\ about = "box" /\ place \in DOMAIN stored
    /\ stored' = RemoveAt(stored, place)
    /\ UNCHANGED <<about, hand>>

(* Of what is only read, the core's next answer is any other.              *)
AnswerAgain ==
    /\ about \in OnlyRead
    /\ stored' \in Messages[about]
    /\ UNCHANGED <<about, hand>>

Next ==
    \/ \E c \in Caller :
          \/ \E b \in Board : Bind(c, b)
          \/ GetProject(c)
          \/ UpdateProject(c)
          \/ BindFails(c)
          \/ \E p \in Port : GetFlow(c, p)
          \/ \E i \in 1..2, e \in Edits : Edit(c, i, e)
          \/ UpdateFlow(c)
    \/ \E p \in Port, i \in 1..2, w \in {"pending", "running", "blocked", "done"} :
          Advance(p, i, w)
    \/ \E i \in 1..2, approved \in BOOLEAN : DecideGate(i, approved)
    \/ \E n \in 0..MaxSpent : SetBudget(n) \/ RecordUsage(n)
    \/ \E place \in 1..MaxItems, kind \in {1, 9}, whose \in Whose :
          Open(place, kind, whose)
    \/ \E place \in 1..MaxItems : Resolve(place)
    \/ AnswerAgain

Spec == Init /\ [][Next]_vars

-----------------------------------------------------------------------------
(* A word a screen may show for a vocabulary: one of its own, or none.     *)
Shows(v) == {""} \cup {Core[v][n] : n \in DOMAIN Core[v]}

StageViews ==
    [key : STRING, type : Shows("StageType"), artifact : Shows("Artifact"), gate : Shows("Gate")]

FlowHands ==
    {Idle} \cup {h \in [pc : {"editing", "edited"}, port : Port, base : Seq(StageSpecs),
                        held : Seq(StageViews)] :
                   /\ DOMAIN h.held = DOMAIN h.base
                   /\ \A i \in DOMAIN h.held : h.held[i].key = h.base[i].key}

(* What the core stores stays what a message of it may be, and a client    *)
(* that edits a flow holds the stages it read, under words the edge knows. *)
(* (What update_flow and advance_stage send, and what the ports show.)     *)
TypeOK ==
    /\ about \in DOMAIN Messages
    /\ about \in OnlyRead => stored \in Messages[about]
    /\ about = "flow" => stored \in Seq(StageSpecs) /\ hand \in [Caller -> FlowHands]
    /\ about = "demand" => stored \in [dop_status : 0..5, stages : Stages(1..5, Date)]
    /\ about = "budget" => stored \in [limit : 0..MaxSpent, spent : 0..MaxSpent]
    /\ about = "box" =>
          /\ stored \in Seq(Items) /\ Len(stored) <= MaxItems
          /\ \A i, j \in DOMAIN stored : stored[i].id = stored[j].id => i = j

-----------------------------------------------------------------------------
(* What a caller of each port has in front of it.                          *)

Rest ==
    CASE about = "project"    -> project(stored)
      [] about = "flow"       -> flow(stored)
      [] about = "demand"     -> demand(stored)
      [] about = "budget"     -> budget_view(stored)
      [] about = "box"        -> list_attention(stored)
      [] about = "package"    -> drops(stored)
      [] about = "hits"       -> search_memory(stored)
      [] about = "provenance" -> provenance(stored)
      [] about = "pull"       -> pull_request(stored)
      [] about = "factor"     -> factor(stored)
      [] about = "step_up"    -> step_up(stored)
      [] about = "word"       -> Word(Core[stored.vocabulary], stored.number)

Grpc ==
    CASE about = "project"    -> read_project(edge_project(Rest))
      [] about = "flow"       -> read_flow(edge_flow(Rest))
      [] about = "demand"     -> read_demand(edge_demand(Rest))
      [] about = "budget"     -> read_budget(edge_budget(Rest))
      [] about = "box"        -> read_box(edge_box(Rest))
      [] about = "package"    -> Optional(edge_drops(Rest))
      [] about = "hits"       -> read_hits(edge_hits(Rest))
      [] about = "provenance" -> read_effective_flow(edge_effective_flow(Rest))
      [] about = "pull"       -> Rest
      [] about = "factor"     -> read_factor(edge_factor(Rest))
      [] about = "step_up"    -> read_step_up(edge_step_up(Rest))
      [] about = "word"       -> Word(Edge[stored.vocabulary],
                                      Number(Edge[stored.vocabulary], Rest))

(* Of every message modelled here the two ports tell the same: every word  *)
(* of every vocabulary, what the edge derives, and what is absent, also    *)
(* when the core is newer than the edge.  (The conversions of app/usecases *)
(* and of app/grpcapi, each with tables and None checks of its own.  Two   *)
(* answers are not modelled, on which the ports do differ: the allowed     *)
(* kinds of SecondFactorState and the expires_at of create_invite.)        *)
PortsAgree == Rest = Grpc

-----------------------------------------------------------------------------
(* The demand's screen: it is at the first stage that does not read "done",*)
(* and offers a decision exactly where the words shown say a human gate is *)
(* open; a demand with nothing left neither waits nor is blocked.          *)
DemandIsTrue ==
    about = "demand" =>
        LET d     == demand(stored)
            Stands(i) == d.stages[i].status # "done"
            Gated(i)  == d.stages[i].gate = "human" /\ d.stages[i].status \in {"running", "blocked"}
        IN  /\ \A i \in DOMAIN d.stages :
                  d.current_stage_key = d.stages[i].key
                      <=> Stands(i) /\ \A j \in 1..i - 1 : ~Stands(j)
            /\ d.awaiting_decision <=> \E i \in DOMAIN d.stages : Gated(i)
            /\ d.current_stage_key = "" => ~d.blocked /\ ~d.awaiting_decision

(* The cost's screen: a remainder is shown exactly under a ceiling, is     *)
(* never negative, and with what was spent makes up the ceiling.           *)
BudgetIsTrue ==
    about = "budget" =>
        LET b == budget_view(stored)
        IN  /\ b.remaining = Absent <=> stored.limit = 0
            /\ b.remaining # Absent =>
                  b.remaining[1] + stored.spent = IF stored.spent > stored.limit
                                                  THEN stored.spent ELSE stored.limit

(* The context's screen: nothing reported is told apart from nothing       *)
(* dropped, and a drop in a layer the edge does not know still counts.  A  *)
(* memory has its own score or none.                                       *)
ContextIsTrue ==
    /\ about = "package" =>
          /\ drops(stored) = Absent <=> DOMAIN stored = {}
          /\ drops(stored) # Absent =>
                (~drops(stored)[1].truncated <=> \A l \in DOMAIN stored : stored[l] = 0)
    /\ about = "hits" =>
          LET hits == search_memory(stored)
              Scored(n) == SubSeq(stored.scores, 1, n)
          IN  /\ Each(LAMBDA h : h.artifact, hits) = stored.artifacts
              /\ FlattenSeq(Each(LAMBDA h : h.score, hits))
                    = Scored(IF Len(hits) < Len(stored.scores) THEN Len(hits)
                                                               ELSE Len(stored.scores))

(* What the edge derives says what the core's message says: the demand's   *)
(* current stage, block and pending decision, the budget's remainder, the  *)
(* package's cut, the score of a memory.  (demand.py _demand, cost.py      *)
(* _budget_view, knowledge.py _drops and search_memory.)                   *)
ScreensAreTrue == DemandIsTrue /\ BudgetIsTrue /\ ContextIsTrue

(* A box in which the groups keep the order of the queue.                  *)
InQueueOrder(items, groups) ==
    /\ \A g \in DOMAIN groups :
          /\ groups[g].items # <<>>
          /\ {groups[g].items[k] : k \in DOMAIN groups[g].items}
                = {items[i] : i \in {j \in DOMAIN items :
                                        items[j].demand_id = groups[g].demand_id}}
          /\ \A k, l \in DOMAIN groups[g].items :
                k < l => At(items, groups[g].items[k]) < At(items, groups[g].items[l])
    /\ {items[i].demand_id : i \in DOMAIN items} = {groups[g].demand_id : g \in DOMAIN groups}
    /\ \A g, h \in DOMAIN groups :
          g < h => At(items, groups[g].items[1]) < At(items, groups[h].items[1])

(* Grouping by demand is no second order: every group holds its demand's   *)
(* items as the core's queue has them, each demand has one group, and the  *)
(* groups come in the order of their most urgent items.                    *)
(* (attention.py _group_by_demand.)                                        *)
GroupsKeepTheQueue ==
    about = "box" =>
        LET box == list_attention(stored) IN InQueueOrder(box.items, box.groups)

-----------------------------------------------------------------------------
KnownStage(s) == \A f \in DOMAIN SpecWords : s[f] # ""

(* Editing one stage of a flow through either port changes the words of    *)
(* that stage and of no other: the type, artifacts and gate of a stage the *)
(* caller left alone are stored as they were read, when the edge knows     *)
(* them, and those of an edited one as the caller meant them.  Of a        *)
(* stage's actions nothing is kept: see FlowGoesInWhole.                   *)
(* (workflow.py update_flow, _stage_spec and _flow_for_the_core.)          *)
EditKeepsWords ==
    [][\A c \in Caller : UpdateFlow(c) =>
          LET h == hand[c]
          IN  /\ DOMAIN stored' = DOMAIN h.held
              /\ \A i \in DOMAIN h.held :
                    /\ stored'[i].key = h.base[i].key
                    /\ KnownStage(h.held[i]) =>
                          \A f \in DOMAIN SpecWords :
                              IF h.held[i][f] = flow(h.base)[i][f]
                              THEN stored'[i][f] = h.base[i][f]
                              ELSE flow(stored')[i][f] = h.held[i][f]]_vars

(* What bind_task_manager holds between its two calls is the project as it *)
(* is, its binding apart: nobody changes the rest of a project meanwhile,  *)
(* so that what was read is not stale when it is sent back.                *)
HeldIsCurrent ==
    about = "project" =>
        /\ stored \in Projects
        /\ hand \in [Caller -> {Idle} \cup [pc : {"reading"}, body : Board]
                              \cup [pc : {"writing"}, body : Board, current : Projects]]
        /\ \A c \in Caller :
              hand[c].pc = "writing" => hand[c].current.rest = stored.rest

(* Binding a project to a board, by any number of callers at once, some of *)
(* them failing halfway and some sent twice, leaves the rest of the        *)
(* project as it was, and the binding is always one that a caller          *)
(* submitted whole.  (hierarchy.py bind_task_manager: the core replaces    *)
(* the project by what is sent.)                                           *)
BindTouchesNothingElse ==
    [][about = "project" =>
          /\ stored'.rest = stored.rest
          /\ stored' # stored =>
                \E c \in Caller : /\ hand[c].pc = "writing"
                                  /\ stored'.task_manager = Set(hand[c].body)]_vars

(* A stage moved through either port is shown where the caller moved it,   *)
(* and no other stage is shown to have moved.  (demand.py advance_stage.)  *)
MovesReadBack ==
    [][\A p \in Port, i \in 1..2, w \in {"pending", "running", "blocked", "done"} :
          Advance(p, i, w) =>
              /\ demand(stored').stages[i].status = w
              /\ \A j \in DOMAIN stored.stages \ {i} :
                    demand(stored').stages[j] = demand(stored).stages[j]]_vars

-----------------------------------------------------------------------------
(* What the repository says and the code does not keep; it is refuted.     *)

(* "The flow goes in whole: [...] sending half a flow would be a partial   *)
(* replacement in disguise" (workflow.proto): what update_flow would send  *)
(* for a stage its caller has left alone is the stage that was read.       *)
FlowGoesInWhole ==
    about = "flow" =>
        \A c \in Caller : hand[c].pc = "edited" =>
            LET h == hand[c]
            IN  \A i \in DOMAIN h.held :
                    h.held[i] = Shown(h.port, h.base)[i] /\ KnownStage(h.held[i])
                        => flow_for_the_core(Body(h))[i] = h.base[i]
=============================================================================
