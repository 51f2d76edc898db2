-------------------------------- MODULE Views --------------------------------
(***************************************************************************)
(* From a message of the core to what a screen shows, twice: the use case  *)
(* turns the core's message into the model REST serializes, and a servicer *)
(* turns that model into the edge's own message.  Of a message the model   *)
(* keeps what is not copied untouched: enumerations, fields that may be    *)
(* absent, and what the edge derives.                                      *)
(*                                                                         *)
(* In a model a field that may be absent is a sequence of at most one      *)
(* value.  On the wire it has a presence and a value, and the value of a   *)
(* field that was not set reads as zero: only HasField tells the two apart.*)
(***************************************************************************)
EXTENDS Vocabulary, FiniteSets, SequencesExt

Absent     == <<>>
Present(v) == <<v>>

Set(v)      == [has |-> TRUE,  value |-> v]
Unset(zero) == [has |-> FALSE, value |-> zero]

(* x if msg.HasField(...) else None                                        *)
Optional(field) == IF field.has THEN Present(field.value) ELSE Absent

(* if x is not None: msg.field.CopyFrom(x)                                 *)
Filled(opt, zero) == IF opt # Absent THEN Set(opt[1]) ELSE Unset(zero)

(* The servicer's way out of a record whose fields in DOMAIN voc are words *)
(* of the vocabularies voc names, and a gRPC client's reading of the       *)
(* result, by the names of the edge's contract.                            *)
Numbered(m, voc) ==
    [f \in DOMAIN m |-> IF f \in DOMAIN voc THEN Number(Edge[voc[f]], m[f]) ELSE m[f]]

Understood(m, voc) ==
    [f \in DOMAIN m |-> IF f \in DOMAIN voc THEN Word(Edge[voc[f]], m[f]) ELSE m[f]]

Each(Op(_), seq) == [i \in DOMAIN seq |-> Op(seq[i])]

-----------------------------------------------------------------------------
(* demand.py: the demand and its stages.                                   *)

GATE_HUMAN  == 2
OPEN_STAGES == {2, 3}       \* STAGE_STATUS_RUNNING, STAGE_STATUS_BLOCKED

awaits_decision(s) == s.gate = GATE_HUMAN /\ s.status \in OPEN_STAGES

stage(s) ==
    [ key               |-> s.key,
      status            |-> Word(Core["StageStatus"], s.status),
      gate              |-> Word(Core["Gate"], s.gate),
      started_at        |-> Optional(s.started_at),
      awaiting_decision |-> awaits_decision(s) ]

demand(d) ==
    LET stages  == Each(stage, d.stages)
        current == SelectInSeq(stages, LAMBDA e : e.status # "done")
    IN  [ dop_status        |-> Word(Core["DopStatus"], d.dop_status),
          stages            |-> stages,
          current_stage_key |-> IF current = 0 THEN "" ELSE stages[current].key,
          blocked           |-> \E i \in DOMAIN stages : stages[i].status = "blocked",
          awaiting_decision |-> \E i \in DOMAIN stages : stages[i].awaiting_decision ]

StageWords  == [status |-> "StageStatus", gate |-> "Gate"]
DemandWords == [dop_status |-> "DopStatus"]

edge_stage(s) == [Numbered(s, StageWords) EXCEPT !.started_at = Filled(@, 0)]
read_stage(m) == [Understood(m, StageWords) EXCEPT !.started_at = Optional(@)]

edge_demand(d) ==
    [Numbered(d, DemandWords) EXCEPT !.stages = Each(edge_stage, @)]

read_demand(m) ==
    [Understood(m, DemandWords) EXCEPT !.stages = Each(read_stage, @)]

(* AdvanceStage: the word to the core's number; a number of the edge that  *)
(* is no word is refused by the pattern of StageTransition.                *)
stage_status_value(w) == Number(Core["StageStatus"], w)

(* Mutant: the edge's enumeration read as if it counted from one more.     *)
edge_stage_status_Shifted(n) == Word(Edge["StageStatus"], n - 1)

edge_stage_status(n)  == Word(Edge["StageStatus"], n)

-----------------------------------------------------------------------------
(* workflow.py: a flow, read and written whole.  The edge's StageSpec has  *)
(* no field for the actions of a stage: what is read loses them, and what  *)
(* is written has none.                                                    *)

stage_spec(s) ==
    [ key      |-> s.key,
      type     |-> Word(Core["StageType"], s.type),
      artifact |-> Word(Core["Artifact"], s.artifact),
      gate     |-> Word(Core["Gate"], s.gate) ]

flow(f) == Each(stage_spec, f)

(* Mutant: the stage is sent without its gate.                             *)
flow_for_the_core_NoGate(body) ==
    Each(LAMBDA s : [ key      |-> s.key,
                      type     |-> Number(Core["StageType"], s.type),
                      artifact |-> Number(Core["Artifact"], s.artifact),
                      gate     |-> 0,
                      actions  |-> <<>> ], body)

flow_for_the_core(body) ==
    Each(LAMBDA s : [ key      |-> s.key,
                      type     |-> Number(Core["StageType"], s.type),
                      artifact |-> Number(Core["Artifact"], s.artifact),
                      gate     |-> Number(Core["Gate"], s.gate),
                      actions  |-> <<>> ], body)

SpecWords == [type |-> "StageType", artifact |-> "Artifact", gate |-> "Gate"]

edge_flow(f) == Each(LAMBDA s : Numbered(s, SpecWords), f)
read_flow(m) == Each(LAMBDA s : Understood(s, SpecWords), m)

(* A number the edge does not know becomes the default of the model, save  *)
(* for an artifact, which becomes no word at all.                          *)
new_flow(m) ==
    Each(LAMBDA s :
            [ key      |-> s.key,
              type     |-> IF s.type \in DOMAIN Edge["StageType"]
                           THEN Edge["StageType"][s.type] ELSE "generic",
              artifact |-> Word(Edge["Artifact"], s.artifact),
              gate     |-> IF s.gate \in DOMAIN Edge["Gate"]
                           THEN Edge["Gate"][s.gate] ELSE "none" ], m)

(* The trail of a resolved flow: eff.flow is the number of its stages.     *)
provenance(eff) ==
    LET stage_count == IF eff.flow.has THEN eff.flow.value ELSE 0
    IN  [ flow      |-> Optional(eff.flow),
          origins   |-> eff.origins,
          truncated |-> eff.origins < stage_count ]

edge_effective_flow(eff) == [eff EXCEPT !.flow = Filled(@, 0)]
read_effective_flow(m)   == [m EXCEPT !.flow = Optional(@)]

-----------------------------------------------------------------------------
(* attention.py: the box, and its groups.                                  *)

item(it) ==
    [ id        |-> it.id,
      kind      |-> Word(Core["AttentionKind"], it.kind),
      demand_id |-> IF it.demand.has THEN it.demand.value ELSE "" ]

(* Mutant: only a run of neighbours is a group.                            *)
GroupItem_Runs(groups, it) ==
    IF groups = <<>> \/ groups[Len(groups)].demand_id # it.demand_id
    THEN Append(groups, [demand_id |-> it.demand_id, items |-> <<it>>])
    ELSE [groups EXCEPT ![Len(groups)].items = Append(@, it)]

GroupItem(groups, it) ==
    LET own == {g \in DOMAIN groups : groups[g].demand_id = it.demand_id}
    IN  IF own = {}
        THEN Append(groups, [demand_id |-> it.demand_id, items |-> <<it>>])
        ELSE [groups EXCEPT ![CHOOSE g \in own : TRUE].items = Append(@, it)]

group_by_demand(items) ==
    LET groups[n \in 0..Len(items)] ==
            IF n = 0 THEN <<>> ELSE GroupItem(groups[n - 1], items[n])
    IN  groups[Len(items)]

(* Where an item stands in a queue.                                        *)
At(items, it) == CHOOSE i \in DOMAIN items : items[i] = it

list_attention(queue) ==
    LET items == Each(item, queue)
    IN  [items |-> items, groups |-> group_by_demand(items)]

ItemWords == [kind |-> "AttentionKind"]

edge_items(items) == Each(LAMBDA i : Numbered(i, ItemWords), items)
read_items(items) == Each(LAMBDA i : Understood(i, ItemWords), items)

EveryItem(Op(_), box) ==
    [ items  |-> Op(box.items),
      groups |-> Each(LAMBDA g : [g EXCEPT !.items = Op(@)], box.groups) ]

edge_box(box) == EveryItem(edge_items, box)
read_box(box) == EveryItem(read_items, box)

-----------------------------------------------------------------------------
(* cost.py: a budget.  No ceiling is a limit of zero, and has no remainder.*)

budget_view(b) ==
    [ limit     |-> b.limit,
      spent     |-> b.spent,
      remaining |-> IF b.limit > 0
                    THEN Present(IF b.limit > b.spent THEN b.limit - b.spent ELSE 0)
                    ELSE Absent ]

(* Mutant: the remainder is filled in without asking whether there is one. *)
edge_budget_Zeroed(b) ==
    [b EXCEPT !.remaining = Set(IF @ = Absent THEN 0 ELSE @[1])]

edge_budget(b) == [b EXCEPT !.remaining = Filled(@, 0)]
read_budget(m) == [m EXCEPT !.remaining = Optional(@)]

-----------------------------------------------------------------------------
(* knowledge.py: what the context package dropped, per layer, and the      *)
(* scores that come in a list of their own beside the memories.            *)

LAYERS == {"rules", "findings", "index", "memories"}

(* Mutant: the cut is derived from the layers the edge knows.              *)
drops_Known(d) ==
    LET counts == [l \in LAYERS |-> IF l \in DOMAIN d THEN d[l] ELSE 0]
    IN  IF DOMAIN d = {}
        THEN Absent
        ELSE Present([counts |-> counts, truncated |-> \E l \in LAYERS : counts[l] > 0])

drops(d) ==
    IF DOMAIN d = {}
    THEN Absent
    ELSE Present([ counts    |-> [l \in LAYERS |-> IF l \in DOMAIN d THEN d[l] ELSE 0],
                   truncated |-> \E l \in DOMAIN d : d[l] > 0 ])

search_memory(resp) ==
    [i \in DOMAIN resp.artifacts |->
        [ artifact |-> resp.artifacts[i],
          score    |-> IF i <= Len(resp.scores) THEN Present(resp.scores[i]) ELSE Absent ]]

NoDrops == [counts |-> [l \in LAYERS |-> 0], truncated |-> FALSE]

edge_drops(d) == Filled(d, NoDrops)
edge_hits(hs) == Each(LAMBDA h : [h EXCEPT !.score = Filled(@, 0)], hs)
read_hits(ms) == Each(LAMBDA h : [h EXCEPT !.score = Optional(@)], ms)

-----------------------------------------------------------------------------
(* secondfactor.py: the date is read without HasField, so that one set to  *)
(* zero is no date either.  A recovery code is no kind of factor: the      *)
(* edge's contract says it by a flag of its own.                           *)

ts(field) == IF field.value # 0 THEN Present(field.value) ELSE Absent

factor(f) ==
    [ kind         |-> Word(Core["FactorKind"], f.kind),
      status       |-> Word(Core["FactorStatus"], f.status),
      confirmed_at |-> ts(f.confirmed_at) ]

FactorWords == [kind |-> "FactorKind", status |-> "FactorStatus"]

edge_factor(f) == [Numbered(f, FactorWords) EXCEPT !.confirmed_at = Filled(@, 0)]
read_factor(m) == [Understood(m, FactorWords) EXCEPT !.confirmed_at = Optional(@)]

step_up(r) ==
    [ method   |-> IF r.recovery THEN "recovery_code" ELSE Word(Core["FactorKind"], r.method),
      recovery |-> r.recovery ]

StepUpWords == [method |-> "FactorKind"]

edge_step_up(r) == Numbered(r, StepUpWords)

read_step_up(m) ==
    IF m.recovery THEN [m EXCEPT !.method = "recovery_code"] ELSE Understood(m, StepUpWords)

-----------------------------------------------------------------------------
(* delivery.py: how many reviewers have not spoken yet.                    *)

PENDING_REVIEW == "pending"

pull_request(statuses) ==
    [ reviewers       |-> statuses,
      pending_reviews |-> Cardinality({i \in DOMAIN statuses : statuses[i] = PENDING_REVIEW}) ]

-----------------------------------------------------------------------------
(* hierarchy.py: a project and its binding to a board, which it may lack.  *)

project(p) == [rest |-> p.rest, task_manager |-> Optional(p.task_manager)]

NoBinding == ""

edge_project(p) == [p EXCEPT !.task_manager = Filled(@, NoBinding)]
read_project(m) == [m EXCEPT !.task_manager = Optional(@)]
=============================================================================
