----------------------------- MODULE ViewsProofs -----------------------------
(***************************************************************************)
(* What the conversions of Views do to every message, of any length: the   *)
(* two ports agree on each of them, what the edge derives is true, and     *)
(* grouping keeps the core's queue.                                        *)
(*                                                                         *)
(* Induction is used in its first-order form: a set of numbers that is not *)
(* empty has a least one (WFMin of WellFoundedInduction).                  *)
(***************************************************************************)
EXTENDS Views, WellFoundedInduction, TLAPS

(***************************************************************************)
(* Numbers.                                                                *)
(***************************************************************************)

LEMMA LeastNumber ==
    ASSUME NEW T \in SUBSET Nat, T # {}
    PROVE  \E x \in T : \A y \in T : x <= y
<1> DEFINE R == OpToRel(<, Nat)
<1>1. IsWellFoundedOn(R, Nat)
  BY NatLessThanWellFounded
<1>2. ASSUME NEW x \in Nat, NEW y \in Nat, <<x, y>> \notin R
      PROVE  y <= x
  BY <1>2 DEF OpToRel
<1> HIDE DEF R
<1>3. \E x \in T : \A y \in T : ~(<<y, x>> \in R)
  BY <1>1, WFMin
<1> QED
  BY <1>2, <1>3

(* Induction up to a bound, as a property of a set.                        *)
LEMMA Climb ==
    ASSUME NEW m \in Nat, NEW S, 0 \in S, \A n \in 0 .. m - 1 : n \in S => n + 1 \in S
    PROVE  \A n \in 0 .. m : n \in S
<1> DEFINE T == {n \in 0 .. m : n \notin S}
<1> SUFFICES ASSUME T # {} PROVE FALSE
  OBVIOUS
<1>1. T \in SUBSET Nat
  OBVIOUS
<1>2. PICK x \in T : \A y \in T : x <= y
  <2> HIDE DEF T
  <2> QED
    BY <1>1, LeastNumber
<1>3. x \in 0 .. m /\ x \notin S /\ x # 0 /\ x - 1 \in 0 .. m - 1
  BY <1>2
<1>4. x - 1 \in S
  BY <1>2, <1>3
<1> QED
  BY <1>3, <1>4

LEMMA MinOfNumbers ==
    ASSUME NEW T \in SUBSET Nat, T # {}
    PROVE  Min(T) \in T /\ \A y \in T : Min(T) <= y
BY LeastNumber DEF Min

(***************************************************************************)
(* The vocabularies.                                                       *)
(***************************************************************************)

(* A word crosses a table both ways, whatever the table; a number no table *)
(* knows is no word on both sides.                                         *)
LEMMA WordIsRead ==
    ASSUME NEW table, 0 \notin DOMAIN table, NEW n
    PROVE  Word(table, Number(table, Word(table, n))) = Word(table, n)
<1> DEFINE w == Word(table, n)
           k == Number(table, w)
<1>1. CASE \E m \in DOMAIN table : table[m] = w
  <2>1. k \in DOMAIN table /\ table[k] = w
    BY <1>1 DEF Number
  <2> QED
    BY <2>1 DEF Word
<1>2. CASE ~\E m \in DOMAIN table : table[m] = w
  <2>1. k = 0
    BY <1>2 DEF Number
  <2>2. n \notin DOMAIN table
    BY <1>2 DEF Word
  <2> QED
    BY <2>1, <2>2 DEF Word
<1> QED
  BY <1>1, <1>2

LEMMA KnownWordIsRead ==
    ASSUME NEW table, NEW w, \E m \in DOMAIN table : table[m] = w
    PROVE  Number(table, w) \in DOMAIN table /\ table[Number(table, w)] = w
BY DEF Number

(* The tables of app/usecases and those of app/grpcapi have the same words *)
(* under the same numbers.                                                 *)
THEOREM TablesAgree == Edge = Core
<1>1. /\ CoreAttention = EdgeAttention /\ CoreWorkflow = EdgeWorkflow /\ CoreDemand = EdgeDemand
      /\ CoreDelivery = EdgeDelivery /\ CoreExecution = EdgeExecution
      /\ CoreKnowledge = EdgeKnowledge /\ CoreResource = EdgeResource
      /\ CoreSecondFactor = EdgeSecondFactor /\ CoreIdentity = EdgeIdentity
  BY DEF CoreAttention, EdgeAttention, CoreWorkflow, EdgeWorkflow, CoreDemand, EdgeDemand,
         CoreDelivery, EdgeDelivery, CoreExecution, EdgeExecution, CoreKnowledge, EdgeKnowledge,
         CoreResource, EdgeResource, CoreSecondFactor, EdgeSecondFactor, CoreIdentity, EdgeIdentity
<1> QED
  BY <1>1 DEF Core, Edge

LEMMA BesideEach ==
    ASSUME NEW f, NEW g
    PROVE  /\ DOMAIN Beside(f, g) = DOMAIN f \cup DOMAIN g
           /\ \A v \in DOMAIN f : Beside(f, g)[v] = f[v]
           /\ \A v \in DOMAIN g \ DOMAIN f : Beside(f, g)[v] = g[v]
BY DEF Beside

(* The tables whose words these messages use.                              *)
LEMMA Tables ==
    /\ Core["AttentionKind"] = CoreAttention.AttentionKind
    /\ Core["StageType"] = CoreWorkflow.StageType
    /\ Core["Artifact"] = CoreWorkflow.Artifact
    /\ Core["Gate"] = CoreWorkflow.Gate
    /\ Core["DopStatus"] = CoreDemand.DopStatus
    /\ Core["StageStatus"] = CoreDemand.StageStatus
    /\ Core["FactorKind"] = CoreSecondFactor.FactorKind
    /\ Core["FactorStatus"] = CoreSecondFactor.FactorStatus
BY DEF Core, Beside, CoreAttention, CoreWorkflow, CoreDemand, CoreDelivery, CoreExecution,
       CoreKnowledge, CoreResource, CoreSecondFactor, CoreIdentity

(* No table gives a word to UNSPECIFIED.                                   *)
LEMMA ZeroIsNoWord == \A v \in DOMAIN Core : 0 \notin DOMAIN Core[v]
<1> DEFINE Good(f) == \A v \in DOMAIN f : 0 \notin DOMAIN f[v]
<1>1. ASSUME NEW f, NEW g, Good(f), Good(g)
      PROVE  Good(Beside(f, g))
  <2> SUFFICES ASSUME NEW v \in DOMAIN Beside(f, g)
               PROVE  0 \notin DOMAIN (Beside(f, g)[v])
    OBVIOUS
  <2>1. /\ v \in DOMAIN f \cup DOMAIN g
        /\ Beside(f, g)[v] = IF v \in DOMAIN f THEN f[v] ELSE g[v]
    BY DEF Beside
  <2> QED
    BY <1>1, <2>1
<1>2. Good(CoreAttention) /\ Good(CoreWorkflow) /\ Good(CoreDemand)
  BY DEF CoreAttention, CoreWorkflow, CoreDemand
<1>3. Good(CoreDelivery) /\ Good(CoreExecution) /\ Good(CoreKnowledge)
  BY DEF CoreDelivery, CoreExecution, CoreKnowledge
<1>4. Good(CoreResource) /\ Good(CoreSecondFactor) /\ Good(CoreIdentity)
  BY DEF CoreResource, CoreSecondFactor, CoreIdentity
<1> HIDE DEF Good
<1>5. Good(Core)
  BY <1>1, <1>2, <1>3, <1>4 DEF Core
<1> QED
  BY <1>5 DEF Good

(* A word that a gRPC client understands as the one REST shows.            *)
Crosses(v, w) == Word(Edge[v], Number(Edge[v], w)) = w

LEMMA WordsCross ==
    ASSUME NEW v \in DOMAIN Core, NEW n
    PROVE  Crosses(v, Word(Core[v], n))
BY TablesAgree, ZeroIsNoWord, WordIsRead DEF Crosses

(***************************************************************************)
(* Records: the words and the fields that may be absent.                   *)
(***************************************************************************)

MayBeAbsent(x) == x = Absent \/ \E v : x = Present(v)

LEMMA AbsenceCrosses ==
    ASSUME NEW x, MayBeAbsent(x), NEW zero
    PROVE  Optional(Filled(x, zero)) = x
<1>1. CASE x = Absent
  BY <1>1 DEF Optional, Filled, Unset
<1>2. CASE \E v : x = Present(v)
  <2>1. PICK v : x = Present(v)
    BY <1>2
  <2>2. x # Absent /\ x[1] = v
    BY <2>1 DEF Present, Absent
  <2> QED
    BY <2>1, <2>2 DEF Optional, Filled, Set
<1> QED
  BY <1>1, <1>2 DEF MayBeAbsent

LEMMA OptionalMayBeAbsent == \A field : MayBeAbsent(Optional(field))
BY DEF MayBeAbsent, Optional

(* A record of words reads the same on the other side.                     *)
LEMMA WordedCrosses ==
    ASSUME NEW m, m = [f \in DOMAIN m |-> m[f]], NEW voc,
           \A f \in DOMAIN m : f \in DOMAIN voc => Crosses(voc[f], m[f])
    PROVE  Understood(Numbered(m, voc), voc) = m
<1> DEFINE n == Numbered(m, voc)
<1>1. DOMAIN n = DOMAIN m
  BY DEF Numbered
<1>2. ASSUME NEW f \in DOMAIN m
      PROVE  Understood(n, voc)[f] = m[f]
  <2>1. CASE f \in DOMAIN voc
    <3>1. n[f] = Number(Edge[voc[f]], m[f])
      BY <2>1 DEF Numbered
    <3> QED
      BY <1>1, <2>1, <3>1 DEF Understood, Crosses
  <2>2. CASE f \notin DOMAIN voc
    BY <1>1, <2>2 DEF Understood, Numbered
  <2> QED
    BY <2>1, <2>2
<1>3. Understood(n, voc) = [f \in DOMAIN m |-> Understood(n, voc)[f]]
  BY <1>1 DEF Understood
<1> QED
  BY <1>2, <1>3

(* The same with a field that may be absent beside the words.              *)
Sent(m, voc, o, zero) == [Numbered(m, voc) EXCEPT ![o] = Filled(@, zero)]
Got(m, voc, o)        == [Understood(m, voc) EXCEPT ![o] = Optional(@)]

LEMMA RecordCrosses ==
    ASSUME NEW m, m = [f \in DOMAIN m |-> m[f]], NEW voc,
           \A f \in DOMAIN m : f \in DOMAIN voc => Crosses(voc[f], m[f]),
           NEW o \in DOMAIN m, o \notin DOMAIN voc, MayBeAbsent(m[o]), NEW zero
    PROVE  Got(Sent(m, voc, o, zero), voc, o) = m
<1> DEFINE n == Numbered(m, voc)
           e == [n EXCEPT ![o] = Filled(@, zero)]
           u == Understood(e, voc)
<1>1. DOMAIN n = DOMAIN m /\ n[o] = m[o] /\ DOMAIN e = DOMAIN m
  BY DEF Numbered
<1>2. e[o] = Filled(m[o], zero) /\ \A f \in DOMAIN m : f # o => e[f] = n[f]
  BY <1>1 DEF Numbered
<1>3. DOMAIN u = DOMAIN m /\ u[o] = e[o]
  BY <1>1 DEF Understood
<1>4. ASSUME NEW f \in DOMAIN m, f # o
      PROVE  u[f] = m[f]
  <2>1. Understood(n, voc)[f] = m[f]
    BY WordedCrosses
  <2>2. u[f] = Understood(n, voc)[f]
    BY <1>1, <1>2, <1>4 DEF Understood
  <2> QED
    BY <2>1, <2>2
<1>5. Optional(u[o]) = m[o]
  BY <1>2, <1>3, AbsenceCrosses
<1>6. u = [f \in DOMAIN m |-> u[f]]
  BY <1>3 DEF Understood
<1> HIDE DEF u
<1>7. [u EXCEPT ![o] = Optional(@)] = m
  BY <1>3, <1>4, <1>5, <1>6
<1> QED
  BY <1>7 DEF u, Sent, Got

(***************************************************************************)
(* The messages, one by one: whatever the core's message, what a client    *)
(* reads on the gRPC port is the model that REST serializes.               *)
(***************************************************************************)

LEMMA Vocabularies ==
    {"StageStatus", "Gate", "DopStatus", "StageType", "Artifact", "AttentionKind",
     "FactorKind", "FactorStatus"} \subseteq DOMAIN Core
BY DEF Core, Beside, CoreAttention, CoreWorkflow, CoreDemand, CoreDelivery, CoreExecution,
       CoreKnowledge, CoreResource, CoreSecondFactor, CoreIdentity

LEMMA StageCrosses ==
    ASSUME NEW s
    PROVE  read_stage(edge_stage(stage(s))) = stage(s)
<1> DEFINE m == stage(s)
<1>1. m = [f \in DOMAIN m |-> m[f]] /\ "started_at" \in DOMAIN m
  BY DEF stage
<1>2. m.status = Word(Core["StageStatus"], s.status) /\ m.gate = Word(Core["Gate"], s.gate)
      /\ m.started_at = Optional(s.started_at)
  BY DEF stage
<1>3. DOMAIN StageWords = {"status", "gate"}
      /\ StageWords["status"] = "StageStatus" /\ StageWords["gate"] = "Gate"
  BY DEF StageWords
<1>4. Crosses("StageStatus", m.status) /\ Crosses("Gate", m.gate)
  BY <1>2, WordsCross, Vocabularies
<1>5. MayBeAbsent(m["started_at"])
  BY <1>2, OptionalMayBeAbsent
<1> HIDE DEF m
<1>6. \A f \in DOMAIN m : f \in DOMAIN StageWords => Crosses(StageWords[f], m[f])
  BY <1>3, <1>4
<1>7. "started_at" \notin DOMAIN StageWords
  BY <1>3
<1>8. Got(Sent(m, StageWords, "started_at", 0), StageWords, "started_at") = m
  BY <1>1, <1>5, <1>6, <1>7, RecordCrosses
<1>9. read_stage(edge_stage(m)) = m
  BY <1>8 DEF read_stage, edge_stage, Sent, Got
<1> QED
  BY <1>9 DEF m

(* The fields that the edge derives are copied as they are.                *)
LEMMA DemandFields ==
    ASSUME NEW d
    PROVE  \E key, blocked, awaiting :
              demand(d) = [ dop_status        |-> Word(Core["DopStatus"], d.dop_status),
                            stages            |-> [i \in DOMAIN d.stages |-> stage(d.stages[i])],
                            current_stage_key |-> key,
                            blocked           |-> blocked,
                            awaiting_decision |-> awaiting ]
<1> DEFINE stages == Each(stage, d.stages)
           current == SelectInSeq(stages, LAMBDA e : e.status # "done")
           key == IF current = 0 THEN "" ELSE stages[current].key
           blocked == \E i \in DOMAIN stages : stages[i].status = "blocked"
           awaiting == \E i \in DOMAIN stages : stages[i].awaiting_decision
<1>1. demand(d) = [ dop_status        |-> Word(Core["DopStatus"], d.dop_status),
                    stages            |-> [i \in DOMAIN d.stages |-> stage(d.stages[i])],
                    current_stage_key |-> key,
                    blocked           |-> blocked,
                    awaiting_decision |-> awaiting ]
  BY Zenon DEF demand, Each
<1> HIDE DEF key, blocked, awaiting
<1> QED
  BY <1>1, Zenon

LEMMA DemandCrosses ==
    ASSUME NEW d
    PROVE  read_demand(edge_demand(demand(d))) = demand(d)
<1> DEFINE m == demand(d)
           n == Numbered(m, DemandWords)
           e == [n EXCEPT !.stages = Each(edge_stage, @)]
           u == Understood(e, DemandWords)
<1>0. PICK key, blocked, awaiting :
          m = [ dop_status        |-> Word(Core["DopStatus"], d.dop_status),
                stages            |-> [i \in DOMAIN d.stages |-> stage(d.stages[i])],
                current_stage_key |-> key,
                blocked           |-> blocked,
                awaiting_decision |-> awaiting ]
  BY DemandFields, Zenon
<1> HIDE DEF m
<1>1. /\ m = [f \in DOMAIN m |-> m[f]]
      /\ DOMAIN m = {"dop_status", "stages", "current_stage_key", "blocked", "awaiting_decision"}
      /\ m.stages = [i \in DOMAIN d.stages |-> stage(d.stages[i])]
      /\ m.dop_status = Word(Core["DopStatus"], d.dop_status)
  BY <1>0
<1>2. DOMAIN DemandWords = {"dop_status"} /\ DemandWords["dop_status"] = "DopStatus"
  BY DEF DemandWords
<1>3. Crosses("DopStatus", m.dop_status)
  BY <1>1, WordsCross, Vocabularies
<1>4. Understood(n, DemandWords) = m
  <2>1. \A f \in DOMAIN m : f \in DOMAIN DemandWords => Crosses(DemandWords[f], m[f])
    BY <1>2, <1>3
  <2> QED
    BY <1>1, <2>1, WordedCrosses
<1>5. DOMAIN n = DOMAIN m /\ DOMAIN e = DOMAIN m /\ DOMAIN u = DOMAIN m
  BY DEF Numbered, Understood
<1>6. n.stages = m.stages /\ e.stages = Each(edge_stage, m.stages) /\ u.stages = e.stages
  BY <1>1, <1>2, <1>5 DEF Numbered, Understood
<1>7. \A f \in DOMAIN m : f # "stages" => u[f] = Understood(n, DemandWords)[f]
  BY <1>5 DEF Understood
<1>8. Each(read_stage, u.stages) = m.stages
  <2>1. DOMAIN m.stages = DOMAIN d.stages /\ DOMAIN u.stages = DOMAIN d.stages
    BY <1>1, <1>6 DEF Each
  <2>2. ASSUME NEW i \in DOMAIN d.stages
        PROVE  read_stage(u.stages[i]) = m.stages[i]
    <3>1. m.stages[i] = stage(d.stages[i]) /\ u.stages[i] = edge_stage(m.stages[i])
      BY <1>1, <1>6, <2>1 DEF Each
    <3> QED
      BY <3>1, StageCrosses
  <2> QED
    BY <1>1, <2>1, <2>2 DEF Each
<1>9. u = [f \in DOMAIN m |-> u[f]]
  BY <1>5 DEF Understood
<1> HIDE DEF u
<1>10. [u EXCEPT !.stages = Each(read_stage, @)] = m
  BY <1>1, <1>4, <1>5, <1>7, <1>8, <1>9
<1>11. read_demand(edge_demand(m)) = m
  BY <1>10 DEF read_demand, edge_demand, u
<1> QED
  BY <1>11 DEF m

LEMMA FlowCrosses ==
    ASSUME NEW f
    PROVE  read_flow(edge_flow(flow(f))) = flow(f)
<1>1. ASSUME NEW s
      PROVE  Understood(Numbered(stage_spec(s), SpecWords), SpecWords) = stage_spec(s)
  <2> DEFINE m == stage_spec(s)
  <2>1. /\ m = [x \in DOMAIN m |-> m[x]]
        /\ m.type = Word(Core["StageType"], s.type)
        /\ m.artifact = Word(Core["Artifact"], s.artifact)
        /\ m.gate = Word(Core["Gate"], s.gate)
    BY DEF stage_spec
  <2>2. /\ DOMAIN SpecWords = {"type", "artifact", "gate"}
        /\ SpecWords["type"] = "StageType" /\ SpecWords["artifact"] = "Artifact"
        /\ SpecWords["gate"] = "Gate"
    BY DEF SpecWords
  <2>3. Crosses("StageType", m.type) /\ Crosses("Artifact", m.artifact) /\ Crosses("Gate", m.gate)
    BY <2>1, WordsCross, Vocabularies
  <2> HIDE DEF m
  <2>4. \A x \in DOMAIN m : x \in DOMAIN SpecWords => Crosses(SpecWords[x], m[x])
    BY <2>2, <2>3
  <2>5. Understood(Numbered(m, SpecWords), SpecWords) = m
    BY <2>1, <2>4, WordedCrosses
  <2> QED
    BY <2>5 DEF m
<1>2. flow(f) = [i \in DOMAIN f |-> stage_spec(f[i])]
  BY DEF flow, Each
<1>3. edge_flow(flow(f)) = [i \in DOMAIN f |-> Numbered(stage_spec(f[i]), SpecWords)]
  BY <1>2 DEF edge_flow, Each
<1>4. read_flow(edge_flow(flow(f)))
          = [i \in DOMAIN f |-> Understood(Numbered(stage_spec(f[i]), SpecWords), SpecWords)]
  BY <1>3 DEF read_flow, Each
<1> QED
  BY <1>1, <1>2, <1>4

LEMMA BudgetCrosses ==
    ASSUME NEW b
    PROVE  read_budget(edge_budget(budget_view(b))) = budget_view(b)
<1> DEFINE r == IF b.limit > 0
                THEN Present(IF b.limit > b.spent THEN b.limit - b.spent ELSE 0)
                ELSE Absent
<1>1. budget_view(b) = [limit |-> b.limit, spent |-> b.spent, remaining |-> r]
  BY DEF budget_view
<1>2. MayBeAbsent(r)
  BY DEF MayBeAbsent
<1> HIDE DEF r
<1>3. Optional(Filled(r, 0)) = r
  BY <1>2, AbsenceCrosses
<1>4. edge_budget(budget_view(b))
          = [limit |-> b.limit, spent |-> b.spent, remaining |-> Filled(r, 0)]
  BY <1>1 DEF edge_budget
<1>5. read_budget(edge_budget(budget_view(b)))
          = [limit |-> b.limit, spent |-> b.spent, remaining |-> Optional(Filled(r, 0))]
  BY <1>4 DEF read_budget
<1> QED
  BY <1>1, <1>3, <1>5

LEMMA DropsCross ==
    ASSUME NEW d
    PROVE  Optional(edge_drops(drops(d))) = drops(d)
<1>1. MayBeAbsent(drops(d))
  BY Zenon DEF MayBeAbsent, drops
<1> QED
  BY <1>1, AbsenceCrosses DEF edge_drops

LEMMA HitsCross ==
    ASSUME NEW resp
    PROVE  read_hits(edge_hits(search_memory(resp))) = search_memory(resp)
<1> DEFINE I == DOMAIN resp.artifacts
           score(i) == IF i <= Len(resp.scores) THEN Present(resp.scores[i]) ELSE Absent
<1>1. search_memory(resp) = [i \in I |-> [artifact |-> resp.artifacts[i], score |-> score(i)]]
  BY DEF search_memory
<1>2. \A i \in I : Optional(Filled(score(i), 0)) = score(i)
  <2> TAKE i \in I
  <2>1. MayBeAbsent(score(i))
    BY DEF MayBeAbsent
  <2> QED
    BY <2>1, AbsenceCrosses
<1> HIDE DEF I, score
<1>3. edge_hits(search_memory(resp))
          = [i \in I |-> [artifact |-> resp.artifacts[i], score |-> Filled(score(i), 0)]]
  BY <1>1 DEF edge_hits, Each
<1>4. read_hits(edge_hits(search_memory(resp)))
          = [i \in I |-> [artifact |-> resp.artifacts[i], score |-> Optional(Filled(score(i), 0))]]
  BY <1>3 DEF read_hits, Each
<1> QED
  BY <1>1, <1>2, <1>4

LEMMA ProvenanceCrosses ==
    ASSUME NEW eff
    PROVE  read_effective_flow(edge_effective_flow(provenance(eff))) = provenance(eff)
<1> DEFINE cut == eff.origins < (IF eff.flow.has THEN eff.flow.value ELSE 0)
           shown == Optional(eff.flow)
<1>1. provenance(eff) = [flow |-> shown, origins |-> eff.origins, truncated |-> cut]
  BY Zenon DEF provenance
<1>2. Optional(Filled(shown, 0)) = shown
  BY OptionalMayBeAbsent, AbsenceCrosses
<1> HIDE DEF cut, shown
<1>3. edge_effective_flow(provenance(eff))
          = [flow |-> Filled(shown, 0), origins |-> eff.origins, truncated |-> cut]
  BY <1>1 DEF edge_effective_flow
<1>4. read_effective_flow(edge_effective_flow(provenance(eff)))
          = [flow |-> Optional(Filled(shown, 0)), origins |-> eff.origins, truncated |-> cut]
  BY <1>3 DEF read_effective_flow
<1> QED
  BY <1>1, <1>2, <1>4

LEMMA ProjectCrosses ==
    ASSUME NEW p
    PROVE  read_project(edge_project(project(p))) = project(p)
<1> DEFINE shown == Optional(p.task_manager)
<1>1. project(p) = [rest |-> p.rest, task_manager |-> shown]
  BY DEF project
<1>2. Optional(Filled(shown, NoBinding)) = shown
  BY OptionalMayBeAbsent, AbsenceCrosses
<1> HIDE DEF shown
<1>3. edge_project(project(p)) = [rest |-> p.rest, task_manager |-> Filled(shown, NoBinding)]
  BY <1>1 DEF edge_project
<1>4. read_project(edge_project(project(p)))
          = [rest |-> p.rest, task_manager |-> Optional(Filled(shown, NoBinding))]
  BY <1>3 DEF read_project
<1> QED
  BY <1>1, <1>2, <1>4

LEMMA FactorCrosses ==
    ASSUME NEW f
    PROVE  read_factor(edge_factor(factor(f))) = factor(f)
<1> DEFINE m == factor(f)
<1>1. m = [x \in DOMAIN m |-> m[x]] /\ "confirmed_at" \in DOMAIN m
  BY DEF factor
<1>2. m.kind = Word(Core["FactorKind"], f.kind) /\ m.status = Word(Core["FactorStatus"], f.status)
      /\ m["confirmed_at"] = ts(f.confirmed_at)
  BY DEF factor
<1>3. DOMAIN FactorWords = {"kind", "status"}
      /\ FactorWords["kind"] = "FactorKind" /\ FactorWords["status"] = "FactorStatus"
  BY DEF FactorWords
<1>4. Crosses("FactorKind", m.kind) /\ Crosses("FactorStatus", m.status)
  BY <1>2, WordsCross, Vocabularies
<1>5. MayBeAbsent(m["confirmed_at"])
  BY <1>2 DEF MayBeAbsent, ts
<1> HIDE DEF m
<1>6. \A x \in DOMAIN m : x \in DOMAIN FactorWords => Crosses(FactorWords[x], m[x])
  BY <1>3, <1>4
<1>7. "confirmed_at" \notin DOMAIN FactorWords
  BY <1>3
<1>8. Got(Sent(m, FactorWords, "confirmed_at", 0), FactorWords, "confirmed_at") = m
  BY <1>1, <1>5, <1>6, <1>7, RecordCrosses
<1>9. read_factor(edge_factor(m)) = m
  BY <1>8 DEF read_factor, edge_factor, Sent, Got
<1> QED
  BY <1>9 DEF m

(* A recovery code is no kind of factor and has no number: the flag of the *)
(* edge's contract carries it across.                                      *)
LEMMA StepUpCrosses ==
    ASSUME NEW r, r.recovery \in BOOLEAN
    PROVE  read_step_up(edge_step_up(step_up(r))) = step_up(r)
<1> DEFINE w == Word(Core["FactorKind"], r.method)
<1>1. StepUpWords = [method |-> "FactorKind"]
  BY DEF StepUpWords
<1>2. CASE r.recovery = TRUE
  <2>0. PICK yes : yes = TRUE
    OBVIOUS
  <2> DEFINE n == Number(Edge["FactorKind"], "recovery_code")
             v == [method |-> "recovery_code", recovery |-> yes]
             m == [method |-> n, recovery |-> yes]
  <2>1. step_up(r) = v
    BY <1>2, <2>0, Zenon DEF step_up
  <2>2. edge_step_up(v) = m
    <3>1. DOMAIN v = {"method", "recovery"} /\ v.method = "recovery_code" /\ v.recovery = yes
      OBVIOUS
    <3> HIDE DEF v, n
    <3>2. n = Number(Edge["FactorKind"], "recovery_code")
      BY DEF n
    <3> QED
      BY <1>1, <3>1, <3>2 DEF edge_step_up, Numbered
  <2>3. read_step_up(m) = [m EXCEPT !.method = "recovery_code"]
    BY <2>0 DEF read_step_up
  <2>4. [m EXCEPT !.method = "recovery_code"] = v
    <3> HIDE DEF n
    <3> QED
      OBVIOUS
  <2> QED
    BY <2>1, <2>2, <2>3, <2>4
<1>3. CASE r.recovery = FALSE
  <2> DEFINE m == [method |-> w, recovery |-> FALSE]
  <2>1. step_up(r) = m
    BY <1>3 DEF step_up
  <2>2. Crosses("FactorKind", w)
    BY WordsCross, Vocabularies
  <2> HIDE DEF w
  <2>3. m = [f \in DOMAIN m |-> m[f]] /\ m.method = w
    OBVIOUS
  <2>4. \A f \in DOMAIN m : f \in DOMAIN StepUpWords => Crosses(StepUpWords[f], m[f])
    BY <1>1, <2>2
  <2>5. Understood(Numbered(m, StepUpWords), StepUpWords) = m
    <3> HIDE DEF m
    <3> QED
      BY <2>3, <2>4, WordedCrosses
  <2>6. Numbered(m, StepUpWords).recovery = FALSE
    BY <1>1 DEF Numbered
  <2> QED
    BY <2>1, <2>5, <2>6 DEF read_step_up, edge_step_up
<1> QED
  BY <1>2, <1>3

(***************************************************************************)
(* The groups of the attention box.  `Kept` is the invariant of the loop   *)
(* of _group_by_demand once n items were taken.                            *)
(***************************************************************************)

Distinct(items) == \A i, j \in DOMAIN items : items[i] = items[j] => i = j

Groups(items) ==
    Seq([ demand_id : {items[i].demand_id : i \in DOMAIN items},
          items     : Seq({items[i] : i \in DOMAIN items}) ])

Kept(items, n, G) ==
    /\ G \in Groups(items)
    /\ \A g \in DOMAIN G :
          /\ G[g].items # <<>>
          /\ \A k \in DOMAIN G[g].items :
                /\ At(items, G[g].items[k]) <= n
                /\ G[g].items[k].demand_id = G[g].demand_id
          /\ \A k, l \in DOMAIN G[g].items :
                k < l => At(items, G[g].items[k]) < At(items, G[g].items[l])
    /\ \A p \in 1..n : \E g \in DOMAIN G : \E k \in DOMAIN G[g].items : G[g].items[k] = items[p]
    /\ \A g, h \in DOMAIN G :
          g < h => /\ G[g].demand_id # G[h].demand_id
                   /\ At(items, G[g].items[1]) < At(items, G[h].items[1])

LEMMA PlaceOfItem ==
    ASSUME NEW items, Distinct(items), NEW i \in DOMAIN items
    PROVE  At(items, items[i]) = i
BY DEF At, Distinct

LEMMA GroupStep ==
    ASSUME NEW S, NEW items \in Seq(S), Distinct(items), NEW n \in 1..Len(items),
           NEW G, Kept(items, n - 1, G)
    PROVE  Kept(items, n, GroupItem(G, items[n]))
<1> DEFINE it == items[n]
           I  == {items[i] : i \in DOMAIN items}
           D  == {items[i].demand_id : i \in DOMAIN items}
           own == {g \in DOMAIN G : G[g].demand_id = it.demand_id}
<1>1. n \in DOMAIN items /\ it \in I /\ it.demand_id \in D /\ At(items, it) = n /\ n \in Nat
  BY PlaceOfItem
<1>2. G \in Seq([demand_id : D, items : Seq(I)])
  BY DEF Kept, Groups
<1>3. \A g \in DOMAIN G : G[g].items \in Seq(I) /\ G[g].demand_id \in D
                          /\ G[g] \in [demand_id : D, items : Seq(I)]
  <2> HIDE DEF I, D
  <2> DEFINE R == [demand_id : D, items : Seq(I)]
  <2>1. \A r \in R : r.items \in Seq(I) /\ r.demand_id \in D
    OBVIOUS
  <2>2. G \in Seq(R)
    BY <1>2
  <2> HIDE DEF R
  <2>3. \A g \in DOMAIN G : G[g] \in R
    BY <2>2
  <2> QED
    BY <2>1, <2>3 DEF R
<1>4. \A x \in I : At(items, x) \in Nat
  BY PlaceOfItem
<1> HIDE DEF I, D
<1>5. CASE own = {}
  <2> DEFINE new == [demand_id |-> it.demand_id, items |-> <<it>>]
             H   == Append(G, new)
             m   == Len(G)
  <2>1. GroupItem(G, it) = H
    BY <1>5 DEF GroupItem
  <2>2. new \in [demand_id : D, items : Seq(I)]
    BY <1>1
  <2>3. /\ H \in Seq([demand_id : D, items : Seq(I)]) /\ m \in Nat
        /\ DOMAIN G = 1..m /\ DOMAIN H = 1..m + 1
        /\ H[m + 1] = new /\ \A g \in DOMAIN G : H[g] = G[g]
    <3> HIDE DEF new
    <3> QED
      BY <1>2, <2>2
  <2>4. /\ new.items # <<>> /\ new.demand_id = it.demand_id
        /\ DOMAIN new.items = {1} /\ new.items[1] = it
    OBVIOUS
  <2> HIDE DEF H, new, m
  <2>5. ASSUME NEW g \in DOMAIN H
        PROVE  /\ H[g].items # <<>>
               /\ \A k \in DOMAIN H[g].items :
                     /\ At(items, H[g].items[k]) <= n
                     /\ H[g].items[k].demand_id = H[g].demand_id
               /\ \A k, l \in DOMAIN H[g].items :
                     k < l => At(items, H[g].items[k]) < At(items, H[g].items[l])
    <3>1. CASE g = m + 1
      BY <1>1, <2>3, <2>4, <3>1
    <3>2. CASE g \in DOMAIN G
      <4>1. H[g] = G[g] /\ G[g].items \in Seq(I)
        BY <1>3, <2>3, <3>2
      <4>2. \A k \in DOMAIN G[g].items : At(items, G[g].items[k]) \in Nat
        BY <1>4, <4>1
      <4>3. \A k \in DOMAIN G[g].items : At(items, G[g].items[k]) <= n - 1
        BY <3>2 DEF Kept
      <4> QED
        BY <1>1, <3>2, <4>1, <4>2, <4>3 DEF Kept
    <3> QED
      BY <2>3, <3>1, <3>2
  <2>6. ASSUME NEW p \in 1..n
        PROVE  \E g \in DOMAIN H : \E k \in DOMAIN H[g].items : H[g].items[k] = items[p]
    <3>1. CASE p = n
      <4>1. m + 1 \in DOMAIN H /\ 1 \in DOMAIN H[m + 1].items /\ H[m + 1].items[1] = items[p]
        BY <2>3, <2>4, <3>1
      <4> QED
        BY <4>1
    <3>2. CASE p \in 1..n - 1
      <4>1. PICK g \in DOMAIN G : \E k \in DOMAIN G[g].items : G[g].items[k] = items[p]
        BY <3>2 DEF Kept
      <4>2. g \in DOMAIN H /\ H[g] = G[g]
        BY <2>3
      <4> QED
        BY <4>1, <4>2
    <3> QED
      BY <3>1, <3>2
  <2>7. ASSUME NEW g \in DOMAIN H, NEW h \in DOMAIN H, g < h
        PROVE  /\ H[g].demand_id # H[h].demand_id
               /\ At(items, H[g].items[1]) < At(items, H[h].items[1])
    <3>1. g \in DOMAIN G /\ H[g] = G[g]
      BY <2>3, <2>7
    <3>2. CASE h = m + 1
      <4>1. G[g].demand_id # it.demand_id
        BY <1>5, <3>1
      <4>2. 1 \in DOMAIN G[g].items
        BY <1>3, <3>1 DEF Kept
      <4>3. At(items, G[g].items[1]) <= n - 1 /\ At(items, G[g].items[1]) \in Nat
        BY <1>3, <1>4, <3>1, <4>2 DEF Kept
      <4> QED
        BY <1>1, <2>3, <2>4, <3>1, <3>2, <4>1, <4>3
    <3>3. CASE h \in DOMAIN G
      BY <2>3, <2>7, <3>1, <3>3 DEF Kept
    <3> QED
      BY <2>3, <3>2, <3>3
  <2>8. H \in Groups(items)
    BY <2>3 DEF Groups, I, D
  <2> QED
    BY <2>1, <2>5, <2>6, <2>7, <2>8 DEF Kept
<1>6. CASE own # {}
  <2> DEFINE q == CHOOSE g \in own : TRUE
             H == [G EXCEPT ![q].items = Append(@, it)]
             m == Len(G[q].items)
  <2>1. GroupItem(G, it) = H
    BY <1>6 DEF GroupItem
  <2>2. q \in DOMAIN G /\ G[q].demand_id = it.demand_id
    BY <1>6
  <2> HIDE DEF q
  <2>3. /\ DOMAIN H = DOMAIN G
        /\ \A g \in DOMAIN G : g # q => H[g] = G[g]
        /\ H[q] = [G[q] EXCEPT !.items = Append(@, it)]
    BY <1>2, <2>2
  <2>4. G[q].items \in Seq(I) /\ G[q].items # <<>> /\ m \in Nat /\ m # 0
        /\ DOMAIN G[q].items = 1..m
    BY <1>3, <2>2 DEF Kept
  <2>5. H[q].demand_id = it.demand_id /\ H[q].items = Append(G[q].items, it)
        /\ H[q] \in [demand_id : D, items : Seq(I)]
    <3>1. Append(G[q].items, it) \in Seq(I)
      BY <1>1, <2>4
    <3> QED
      BY <1>3, <2>2, <2>3, <3>1
  <2>6. H \in Seq([demand_id : D, items : Seq(I)])
    <3>1. \A g \in DOMAIN G : H[g] \in [demand_id : D, items : Seq(I)]
      BY <1>3, <2>3, <2>5
    <3>2. DOMAIN G = 1..Len(G) /\ Len(G) \in Nat
      BY <1>2
    <3>3. H = [g \in DOMAIN G |-> H[g]]
      BY Zenon
    <3> HIDE DEF H
    <3> QED
      BY <3>1, <3>2, <3>3
  <2>7. /\ DOMAIN H[q].items = 1..m + 1 /\ H[q].items[m + 1] = it
        /\ \A k \in 1..m : H[q].items[k] = G[q].items[k]
    BY <2>4, <2>5
  <2> HIDE DEF H, m
  <2>8. \A g \in DOMAIN G : /\ H[g].demand_id = G[g].demand_id
                            /\ H[g].items[1] = G[g].items[1]
                            /\ \A k \in DOMAIN G[g].items : /\ k \in DOMAIN H[g].items
                                                             /\ H[g].items[k] = G[g].items[k]
    <3> TAKE g \in DOMAIN G
    <3>1. CASE g = q
      <4>1. 1 \in 1..m /\ \A k \in 1..m : k \in 1..m + 1
        BY <2>4 DEF m
      <4> QED
        BY <2>2, <2>4, <2>5, <2>7, <3>1, <4>1
    <3>2. CASE g # q
      BY <2>3, <3>2
    <3> QED
      BY <3>1, <3>2
  <2>9. ASSUME NEW g \in DOMAIN G
        PROVE  \A k \in DOMAIN G[g].items : At(items, G[g].items[k]) \in Nat
                                           /\ At(items, G[g].items[k]) <= n - 1
                                           /\ At(items, G[g].items[k]) <= n
                                           /\ At(items, G[g].items[k]) < n
    <3> TAKE k \in DOMAIN G[g].items
    <3>1. G[g].items[k] \in I
      BY <1>3
    <3>2. At(items, G[g].items[k]) <= n - 1
      BY DEF Kept
    <3> QED
      BY <1>1, <1>4, <3>1, <3>2
  <2>10. ASSUME NEW g \in DOMAIN H
         PROVE  /\ H[g].items # <<>>
                /\ \A k \in DOMAIN H[g].items :
                      /\ At(items, H[g].items[k]) <= n
                      /\ H[g].items[k].demand_id = H[g].demand_id
                /\ \A k, l \in DOMAIN H[g].items :
                      k < l => At(items, H[g].items[k]) < At(items, H[g].items[l])
    <3>1. CASE g = q
      <4>1. H[q].items # <<>>
        <5>1. m + 1 \in 1..m + 1
          BY <2>4 DEF m
        <5>2. m + 1 \in DOMAIN H[q].items
          BY <2>7, <5>1
        <5> QED
          BY <5>2
      <4>2. ASSUME NEW k \in DOMAIN H[q].items
            PROVE  At(items, H[q].items[k]) <= n /\ H[q].items[k].demand_id = H[q].demand_id
        <5>1. CASE k = m + 1
          BY <1>1, <2>5, <2>7, <5>1
        <5>2. CASE k \in 1..m
          BY <2>2, <2>4, <2>5, <2>7, <2>9, <5>2 DEF Kept
        <5> QED
          BY <2>4, <2>7, <5>1, <5>2
      <4>3. ASSUME NEW k \in DOMAIN H[q].items, NEW l \in DOMAIN H[q].items, k < l
            PROVE  At(items, H[q].items[k]) < At(items, H[q].items[l])
        <5>1. k \in 1..m
          BY <2>4, <2>7, <4>3
        <5>2. CASE l = m + 1
          BY <1>1, <2>2, <2>4, <2>7, <2>9, <5>1, <5>2
        <5>3. CASE l \in 1..m
          BY <2>2, <2>4, <2>7, <4>3, <5>1, <5>3 DEF Kept
        <5> QED
          BY <2>4, <2>7, <5>2, <5>3
      <4> QED
        BY <3>1, <4>1, <4>2, <4>3
    <3>2. CASE g # q
      <4>1. g \in DOMAIN G /\ H[g] = G[g]
        BY <2>3, <3>2
      <4> QED
        BY <2>9, <4>1 DEF Kept
    <3> QED
      BY <3>1, <3>2
  <2>11. ASSUME NEW p \in 1..n
         PROVE  \E g \in DOMAIN H : \E k \in DOMAIN H[g].items : H[g].items[k] = items[p]
    <3>1. CASE p = n
      <4>1. q \in DOMAIN H /\ m + 1 \in DOMAIN H[q].items /\ H[q].items[m + 1] = items[p]
        BY <2>2, <2>3, <2>4, <2>7, <3>1
      <4> QED
        BY <4>1
    <3>2. CASE p \in 1..n - 1
      <4>1. PICK g \in DOMAIN G : \E k \in DOMAIN G[g].items : G[g].items[k] = items[p]
        BY <3>2 DEF Kept
      <4> QED
        BY <2>3, <2>8, <4>1
    <3> QED
      BY <3>1, <3>2
  <2>12. ASSUME NEW g \in DOMAIN H, NEW h \in DOMAIN H, g < h
         PROVE  /\ H[g].demand_id # H[h].demand_id
                /\ At(items, H[g].items[1]) < At(items, H[h].items[1])
    BY <2>3, <2>8, <2>12 DEF Kept
  <2>13. H \in Groups(items)
    BY <2>6 DEF Groups, I, D
  <2> QED
    BY <2>1, <2>10, <2>11, <2>12, <2>13 DEF Kept
<1> QED
  BY <1>5, <1>6

(* The loop of _group_by_demand: a function on 0..Len(items) of the groups *)
(* once that many items were taken.                                        *)
Loop(items, f, n) ==
    f = [k \in 0..n |-> IF k = 0 THEN <<>> ELSE GroupItem(f[k - 1], items[k])]

LEMMA LoopExists ==
    ASSUME NEW items, NEW m \in Nat
    PROVE  \E f : Loop(items, f, m)
<1> DEFINE S == {n \in Nat : \E f : Loop(items, f, n)}
<1>1. 0 \in S
  <2>1. Loop(items, [k \in 0..0 |-> <<>>], 0)
    BY DEF Loop
  <2> QED
    BY <2>1
<1>2. ASSUME NEW n \in 0..m - 1, n \in S
      PROVE  n + 1 \in S
  <2>1. PICK f : Loop(items, f, n)
    BY <1>2
  <2> DEFINE h == [k \in 0..n + 1 |-> IF k = n + 1 THEN GroupItem(f[n], items[k]) ELSE f[k]]
  <2>2. \A k \in 0..n : h[k] = f[k]
    OBVIOUS
  <2>3. ASSUME NEW k \in 0..n + 1
        PROVE  h[k] = IF k = 0 THEN <<>> ELSE GroupItem(h[k - 1], items[k])
    <3>1. CASE k = n + 1
      BY <2>2, <3>1
    <3>2. CASE k # n + 1 /\ k # 0
      <4>1. k \in 0..n /\ k - 1 \in 0..n
        BY <3>2
      <4>2. f[k] = GroupItem(f[k - 1], items[k])
        BY <2>1, <3>2, <4>1 DEF Loop
      <4> QED
        BY <2>2, <3>2, <4>1, <4>2
    <3>3. CASE k # n + 1 /\ k = 0
      <4>1. k \in 0..n
        BY <3>3
      <4> QED
        BY <2>1, <2>2, <3>3, <4>1 DEF Loop
    <3> QED
      BY <3>1, <3>2, <3>3
  <2>4. Loop(items, h, n + 1)
    BY <2>3 DEF Loop
  <2> QED
    BY <2>4
<1> HIDE DEF S
<1>3. m \in S
  BY <1>1, <1>2, Climb
<1> QED
  BY <1>3 DEF S

(* attention.py _group_by_demand, for a queue of any length: each demand   *)
(* has one group, every item is in its own demand's, and within a group    *)
(* and between groups the order is that of the queue.                      *)
THEOREM GroupsKept ==
    ASSUME NEW S, NEW items \in Seq(S), Distinct(items)
    PROVE  Kept(items, Len(items), group_by_demand(items))
<1> DEFINE m == Len(items)
           groups == CHOOSE f : Loop(items, f, m)
<1>1. m \in Nat
  OBVIOUS
<1>2. group_by_demand(items) = groups[m]
  BY Zenon DEF group_by_demand, Loop
<1>3. Loop(items, groups, m)
  BY <1>1, LoopExists
<1> DEFINE T == {n \in 0..m : Kept(items, n, groups[n])}
<1> HIDE DEF groups
<1>4. 0 \in T
  <2>1. groups[0] = <<>>
    BY <1>1, <1>3 DEF Loop
  <2>2. Kept(items, 0, <<>>)
    BY DEF Kept, Groups
  <2> QED
    BY <1>1, <2>1, <2>2
<1>5. ASSUME NEW n \in 0..m - 1, n \in T
      PROVE  n + 1 \in T
  <2>1. n + 1 \in 1..m /\ n + 1 \in 0..m /\ (n + 1) - 1 = n /\ n + 1 # 0
    BY <1>1
  <2>2. groups[n + 1] = GroupItem(groups[n], items[n + 1])
    BY <1>3, <2>1 DEF Loop
  <2>3. Kept(items, n + 1, groups[n + 1])
    BY <1>5, <2>1, <2>2, GroupStep
  <2> QED
    BY <2>1, <2>3
<1>6. m \in T
  <2> HIDE DEF T, m
  <2>1. \A n \in 0..m - 1 : n \in T => n + 1 \in T
    BY <1>5
  <2>2. \A n \in 0..m : n \in T
    BY <1>1, <1>4, <2>1, Climb
  <2> QED
    BY <1>1, <2>2
<1> QED
  BY <1>2, <1>6

(* An item of the box and, with it, the whole box.                         *)
LEMMA ItemCrosses ==
    ASSUME NEW it
    PROVE  Understood(Numbered(item(it), ItemWords), ItemWords) = item(it)
<1> DEFINE m == item(it)
<1>1. m = [f \in DOMAIN m |-> m[f]] /\ m.kind = Word(Core["AttentionKind"], it.kind)
  BY DEF item
<1>2. DOMAIN ItemWords = {"kind"} /\ ItemWords["kind"] = "AttentionKind"
  BY DEF ItemWords
<1>3. Crosses("AttentionKind", m.kind)
  BY <1>1, WordsCross, Vocabularies
<1> HIDE DEF m
<1>4. \A f \in DOMAIN m : f \in DOMAIN ItemWords => Crosses(ItemWords[f], m[f])
  BY <1>2, <1>3
<1>5. Understood(Numbered(m, ItemWords), ItemWords) = m
  BY <1>1, <1>4, WordedCrosses
<1> QED
  BY <1>5 DEF m

LEMMA ItemsCross ==
    ASSUME NEW V, \A v \in V : Understood(Numbered(v, ItemWords), ItemWords) = v,
           NEW items \in Seq(V)
    PROVE  read_items(edge_items(items)) = items
<1>1. edge_items(items) = [i \in DOMAIN items |-> Numbered(items[i], ItemWords)]
  BY DEF edge_items, Each
<1>2. read_items(edge_items(items))
          = [i \in DOMAIN items |-> Understood(Numbered(items[i], ItemWords), ItemWords)]
  BY <1>1 DEF read_items, Each
<1> QED
  BY <1>2

LEMMA BoxCrosses ==
    ASSUME NEW queue, NEW S, queue \in Seq(S), Distinct([i \in DOMAIN queue |-> item(queue[i])])
    PROVE  read_box(edge_box(list_attention(queue))) = list_attention(queue)
<1> DEFINE items == [i \in DOMAIN queue |-> item(queue[i])]
           G == group_by_demand(items)
           V == {items[i] : i \in DOMAIN items}
           D == {items[i].demand_id : i \in DOMAIN items}
<1>1. list_attention(queue) = [items |-> items, groups |-> G]
  BY Zenon DEF list_attention, Each
<1>2. items \in Seq(V)
  OBVIOUS
<1>3. \A v \in V : Understood(Numbered(v, ItemWords), ItemWords) = v
  BY ItemCrosses
<1>4. G \in Seq([demand_id : D, items : Seq(V)])
  <2> HIDE DEF items, V
  <2>1. Distinct(items)
    BY DEF items
  <2>2. G \in Groups(items)
    BY <1>2, <2>1, GroupsKept DEF Kept
  <2> HIDE DEF G
  <2> QED
    BY <2>2 DEF Groups, V
<1> HIDE DEF items, G, V, D
<1>5. edge_box([items |-> items, groups |-> G])
          = [ items  |-> edge_items(items),
              groups |-> [g \in DOMAIN G |-> [G[g] EXCEPT !.items = edge_items(@)]] ]
  BY DEF edge_box, EveryItem, Each
<1> DEFINE E == [g \in DOMAIN G |-> [G[g] EXCEPT !.items = edge_items(@)]]
<1>6. read_box([items |-> edge_items(items), groups |-> E])
          = [ items  |-> read_items(edge_items(items)),
              groups |-> [g \in DOMAIN E |-> [E[g] EXCEPT !.items = read_items(@)]] ]
  <2> HIDE DEF E
  <2> QED
    BY DEF read_box, EveryItem, Each
<1>7. ASSUME NEW g \in DOMAIN G
      PROVE  [E[g] EXCEPT !.items = read_items(@)] = G[g]
  <2>1. G[g] \in [demand_id : D, items : Seq(V)]
    <3> DEFINE R == [demand_id : D, items : Seq(V)]
    <3>1. G \in Seq(R)
      BY <1>4
    <3> HIDE DEF R
    <3>2. G[g] \in R
      BY <3>1
    <3> QED
      BY <3>2 DEF R
  <2>2. PICK d \in D, l \in Seq(V) : G[g] = [demand_id |-> d, items |-> l]
    BY <2>1
  <2>3. E[g] = [demand_id |-> d, items |-> edge_items(l)]
    BY <2>2
  <2>4. read_items(edge_items(l)) = l
    BY <1>3, ItemsCross
  <2> HIDE DEF E
  <2> QED
    BY <2>2, <2>3, <2>4
<1>8. DOMAIN E = DOMAIN G
  OBVIOUS
<1>9. G = [g \in DOMAIN G |-> G[g]]
  BY <1>4
<1> HIDE DEF E
<1>10. [g \in DOMAIN E |-> [E[g] EXCEPT !.items = read_items(@)]] = G
  BY <1>7, <1>8, <1>9
<1>11. read_items(edge_items(items)) = items
  BY <1>2, <1>3, ItemsCross
<1>12. edge_box([items |-> items, groups |-> G]) = [items |-> edge_items(items), groups |-> E]
  BY <1>5 DEF E
<1> QED
  BY <1>1, <1>6, <1>10, <1>11, <1>12

(***************************************************************************)
(* What the edge derives.                                                  *)
(***************************************************************************)

(* The words for an open human gate are those of the core's numbers.       *)
LEMMA GateWords ==
    ASSUME NEW s
    PROVE  awaits_decision(s) <=> /\ Word(Core["Gate"], s.gate) = "human"
                                  /\ Word(Core["StageStatus"], s.status) \in {"running", "blocked"}
<1>1. Core["Gate"] = <<"none", "human">>
      /\ Core["StageStatus"] = <<"pending", "running", "blocked", "done">>
  BY Tables DEF CoreWorkflow, CoreDemand
<1>2. Word(<<"none", "human">>, s.gate) = "human" <=> s.gate = 2
  BY DEF Word
<1>3. Word(<<"pending", "running", "blocked", "done">>, s.status) \in {"running", "blocked"}
          <=> s.status \in {2, 3}
  BY DEF Word
<1> QED
  BY <1>1, <1>2, <1>3 DEF awaits_decision, GATE_HUMAN, OPEN_STAGES

Keyed(stages) ==
    /\ \A i, j \in DOMAIN stages : stages[i].key = stages[j].key => i = j
    /\ \A i \in DOMAIN stages : stages[i].key # ""

(* demand.py _demand, for any number of stages with keys of their own: the *)
(* demand is at the first stage that does not read "done", awaits a        *)
(* decision exactly where the words shown say a human gate is open, and    *)
(* with nothing left it neither waits nor is blocked.                      *)
THEOREM DemandScreen ==
    ASSUME NEW d, NEW S, NEW q \in Seq(S), d.stages = q, Keyed(q)
    PROVE  LET v == demand(d)
               Stands(i) == v.stages[i].status # "done"
               Gated(i)  == v.stages[i].gate = "human" /\ v.stages[i].status \in {"running", "blocked"}
           IN  /\ \A i \in DOMAIN v.stages :
                     v.current_stage_key = v.stages[i].key
                         <=> Stands(i) /\ \A j \in 1..i - 1 : ~Stands(j)
               /\ v.awaiting_decision <=> \E i \in DOMAIN v.stages : Gated(i)
               /\ v.current_stage_key = "" => ~v.blocked /\ ~v.awaiting_decision
<1> DEFINE v == demand(d)
           ss == [i \in DOMAIN d.stages |-> stage(d.stages[i])]
           I  == {i \in 1..Len(ss) : ss[i].status # "done"}
           current == IF I # {} THEN Min(I) ELSE 0
           Stands(i) == ss[i].status # "done"
<1>1. /\ v.stages = ss
      /\ v.current_stage_key = IF current = 0 THEN "" ELSE ss[current].key
      /\ v.blocked <=> \E i \in DOMAIN ss : ss[i].status = "blocked"
      /\ v.awaiting_decision <=> \E i \in DOMAIN ss : ss[i].awaiting_decision
  <2>1. v = [ dop_status        |-> Word(Core["DopStatus"], d.dop_status),
              stages            |-> ss,
              current_stage_key |-> IF current = 0 THEN "" ELSE ss[current].key,
              blocked           |-> \E i \in DOMAIN ss : ss[i].status = "blocked",
              awaiting_decision |-> \E i \in DOMAIN ss : ss[i].awaiting_decision ]
    BY Zenon DEF demand, Each, SelectInSeq
  <2> HIDE DEF v, ss, current
  <2> QED
    BY <2>1, Zenon
<1>2. /\ DOMAIN ss = 1..Len(ss) /\ Len(ss) \in Nat /\ DOMAIN ss = DOMAIN q
      /\ \A i \in DOMAIN ss : ss[i] = stage(q[i])
  <2>1. DOMAIN q = 1..Len(q) /\ Len(q) \in Nat
    OBVIOUS
  <2>2. ss = [i \in DOMAIN q |-> stage(q[i])]
    OBVIOUS
  <2> HIDE DEF ss
  <2>3. DOMAIN ss = 1..Len(q)
    BY <2>1, <2>2
  <2> QED
    BY <2>1, <2>2, <2>3
<1>3. \A i \in DOMAIN ss : /\ ss[i].key = q[i].key
                           /\ ss[i].status = Word(Core["StageStatus"], q[i].status)
                           /\ ss[i].gate = Word(Core["Gate"], q[i].gate)
  BY <1>2 DEF stage
<1>4. \A i \in DOMAIN ss :
         ss[i].awaiting_decision <=> ss[i].gate = "human" /\ ss[i].status \in {"running", "blocked"}
  <2> TAKE i \in DOMAIN ss
  <2>1. ss[i].awaiting_decision <=> awaits_decision(q[i])
    BY <1>2, Zenon DEF stage
  <2> QED
    BY <1>3, <2>1, GateWords
<1>5. /\ \A i, j \in DOMAIN ss : ss[i].key = ss[j].key => i = j
      /\ \A i \in DOMAIN ss : ss[i].key # ""
  <2> HIDE DEF ss
  <2> QED
    BY <1>2, <1>3 DEF Keyed
<1> HIDE DEF v, ss
<1>6. CASE I = {}
  <2>1. current = 0 /\ \A i \in DOMAIN ss : ss[i].status = "done"
    BY <1>2, <1>6
  <2> HIDE DEF I, current
  <2> QED
    BY <1>1, <1>4, <1>5, <2>1 DEF v
<1>7. CASE I # {}
  <2>1. I \in SUBSET Nat
    BY <1>2
  <2>2. current = Min(I)
    BY <1>7
  <2> HIDE DEF current
  <2>3. current \in I /\ \A y \in I : current <= y
    <3> HIDE DEF I
    <3> QED
      BY <1>7, <2>1, <2>2, MinOfNumbers
  <2>4. current \in DOMAIN ss /\ current # 0 /\ ss[current].status # "done"
        /\ current \in Nat /\ \A j \in DOMAIN ss : ss[j].status # "done" => current <= j
    BY <1>2, <2>3
  <2> HIDE DEF I, current
  <2>5. v.current_stage_key = ss[current].key
    BY <1>1, <2>4
  <2>6. ASSUME NEW i \in DOMAIN ss
        PROVE  v.current_stage_key = ss[i].key
                   <=> ss[i].status # "done" /\ \A j \in 1..i - 1 : ss[j].status = "done"
    <3>1. v.current_stage_key = ss[i].key <=> i = current
      BY <1>5, <2>4, <2>5
    <3>2. i = current => ss[i].status # "done" /\ \A j \in 1..i - 1 : ss[j].status = "done"
      BY <1>2, <2>4
    <3>3. ss[i].status # "done" /\ (\A j \in 1..i - 1 : ss[j].status = "done") => i = current
      BY <1>2, <2>4
    <3> QED
      BY <3>1, <3>2, <3>3
  <2>7. v.current_stage_key # ""
    BY <1>5, <2>4, <2>5
  <2> QED
    BY <1>1, <1>4, <2>6, <2>7 DEF v
<1> QED
  BY <1>6, <1>7

(* cost.py _budget_view.                                                   *)
LEMMA BudgetScreen ==
    ASSUME NEW b, b.limit \in Nat, b.spent \in Nat
    PROVE  LET v == budget_view(b)
           IN  /\ v.remaining = Absent <=> b.limit = 0
               /\ v.remaining # Absent =>
                     v.remaining[1] + b.spent = IF b.spent > b.limit THEN b.spent ELSE b.limit
<1> DEFINE r == IF b.limit > b.spent THEN b.limit - b.spent ELSE 0
<1>1. budget_view(b).remaining = IF b.limit > 0 THEN Present(r) ELSE Absent
  BY DEF budget_view
<1>2. r + b.spent = IF b.spent > b.limit THEN b.spent ELSE b.limit
  OBVIOUS
<1>3. Present(r) # Absent /\ Present(r)[1] = r
  BY DEF Present, Absent
<1> HIDE DEF r
<1>4. CASE b.limit = 0
  BY <1>1, <1>4
<1>5. CASE b.limit # 0
  <2>1. budget_view(b).remaining = Present(r)
    BY <1>1, <1>5
  <2> QED
    BY <1>2, <1>3, <1>5, <2>1
<1> QED
  BY <1>4, <1>5

(* knowledge.py _drops, for any layers.                                    *)
LEMMA DropsScreen ==
    ASSUME NEW d, \A l \in DOMAIN d : d[l] \in Nat
    PROVE  /\ drops(d) = Absent <=> DOMAIN d = {}
           /\ drops(d) # Absent =>
                 (~drops(d)[1].truncated <=> \A l \in DOMAIN d : d[l] = 0)
<1> DEFINE counts == [l \in LAYERS |-> IF l \in DOMAIN d THEN d[l] ELSE 0]
           cut == \E l \in DOMAIN d : d[l] > 0
           r == [counts |-> counts, truncated |-> cut]
<1>1. drops(d) = IF DOMAIN d = {} THEN Absent ELSE Present(r)
  BY Zenon DEF drops
<1>2. r.truncated <=> cut
  <2> HIDE DEF counts, cut
  <2> QED
    BY Zenon
<1>3. ~cut <=> \A l \in DOMAIN d : d[l] = 0
  OBVIOUS
<1> HIDE DEF r, cut
<1>4. Present(r) # Absent /\ Present(r)[1] = r
  BY DEF Present, Absent
<1>5. CASE DOMAIN d = {}
  BY <1>1, <1>5
<1>6. CASE DOMAIN d # {}
  <2>1. drops(d) = Present(r)
    BY <1>1, <1>6
  <2> QED
    BY <1>2, <1>3, <1>4, <1>6, <2>1
<1> QED
  BY <1>5, <1>6

(* Scores of at most one each, in the order of the memories, put together  *)
(* again are a prefix of the core's list.                                  *)
Upto(scores, n) == SubSeq(scores, 1, IF n < Len(scores) THEN n ELSE Len(scores))

Single(scores, i) == IF i <= Len(scores) THEN <<scores[i]>> ELSE <<>>

LEMMA UptoGrows ==
    ASSUME NEW S, NEW scores \in Seq(S), NEW i \in Nat
    PROVE  Upto(scores, i + 1) = Upto(scores, i) \o Single(scores, i + 1)
<1>1. Len(scores) \in Nat
  OBVIOUS
<1>2. CASE i < Len(scores)
  <2>1. Upto(scores, i) = SubSeq(scores, 1, i) /\ Upto(scores, i + 1) = SubSeq(scores, 1, i + 1)
        /\ Single(scores, i + 1) = <<scores[i + 1]>>
    BY <1>1, <1>2 DEF Upto, Single
  <2> DEFINE a == SubSeq(scores, 1, i + 1)
             b == SubSeq(scores, 1, i) \o <<scores[i + 1]>>
  <2>2. a = [k \in 1..i + 1 |-> scores[k]]
    BY <1>1, <1>2
  <2>3. SubSeq(scores, 1, i) \in Seq(S) /\ Len(SubSeq(scores, 1, i)) = i
        /\ scores[i + 1] \in S /\ \A k \in 1..i : SubSeq(scores, 1, i)[k] = scores[k]
    BY <1>1, <1>2
  <2>4. b \in Seq(S) /\ Len(b) = i + 1 /\ \A k \in 1..i + 1 : b[k] = scores[k]
    <3> DEFINE l == SubSeq(scores, 1, i)
               x == scores[i + 1]
    <3> HIDE DEF l, x
    <3>1. l \in Seq(S) /\ Len(l) = i /\ x \in S /\ \A k \in 1..i : l[k] = scores[k]
      BY <2>3 DEF l, x
    <3>2. l \o <<x>> \in Seq(S) /\ Len(l \o <<x>>) = i + 1 /\ (l \o <<x>>)[i + 1] = x
          /\ \A k \in 1..i : (l \o <<x>>)[k] = l[k]
      BY <3>1
    <3>3. b = l \o <<x>>
      BY DEF l, x
    <3> HIDE DEF b
    <3> QED
      BY <3>1, <3>2, <3>3 DEF x
  <2> HIDE DEF a, b
  <2>5. b = [k \in 1..i + 1 |-> b[k]]
    BY <2>4
  <2>6. a = b
    BY <2>2, <2>4, <2>5
  <2> QED
    BY <2>1, <2>6 DEF a, b
<1>3. CASE ~(i < Len(scores))
  <2>1. Upto(scores, i) = SubSeq(scores, 1, Len(scores)) /\ Single(scores, i + 1) = <<>>
        /\ Upto(scores, i + 1) = SubSeq(scores, 1, Len(scores))
    BY <1>1, <1>3 DEF Upto, Single
  <2>2. SubSeq(scores, 1, Len(scores)) \in Seq(S)
    BY <1>1
  <2>3. \A l \in Seq(S) : l \o <<>> = l
    OBVIOUS
  <2> QED
    BY <2>1, <2>2, <2>3
<1> QED
  BY <1>2, <1>3

LEMMA ScoresFlattened ==
    ASSUME NEW S, NEW scores \in Seq(S), NEW n \in Nat
    PROVE  FlattenSeq([i \in 1..n |-> Single(scores, i)]) = Upto(scores, n)
<1> DEFINE seqs == [i \in 1..n |-> Single(scores, i)]
           Q(f) == f = [i \in 1..Len(seqs) |-> IF i = 1 THEN seqs[i] ELSE f[i - 1] \o seqs[i]]
           F == [i \in 1..n |-> Upto(scores, i)]
<1>1. Len(seqs) = n /\ \A i \in 1..n : seqs[i] = Single(scores, i)
  OBVIOUS
<1>2. Upto(scores, 0) = <<>>
  BY DEF Upto
<1>3. CASE n = 0
  <2>1. seqs = <<>>
    BY <1>3
  <2>2. FlattenSeq(seqs) = seqs
    <3> HIDE DEF seqs
    <3> QED
      BY <1>1, <1>3 DEF FlattenSeq
  <2> QED
    BY <1>2, <1>3, <2>1, <2>2
<1>4. CASE n # 0
  <2> HIDE DEF seqs
  <2>0. Upto(scores, 1) = Single(scores, 1)
    <3>1. Single(scores, 1) \in Seq(S)
      BY DEF Single
    <3>2. Upto(scores, 0 + 1) = Upto(scores, 0) \o Single(scores, 0 + 1)
      BY UptoGrows
    <3> QED
      BY <1>2, <3>1, <3>2
  <2>1. FlattenSeq(seqs) = (CHOOSE f : Q(f))[n]
    <3>1. Len(seqs) # 0
      BY <1>1, <1>4
    <3>2. FlattenSeq(seqs) = (CHOOSE f : Q(f))[Len(seqs)]
      BY <3>1, Zenon DEF FlattenSeq
    <3> QED
      BY <1>1, <3>2
  <2>2. Q(F)
    <3>1. ASSUME NEW i \in 1..n
          PROVE  F[i] = IF i = 1 THEN seqs[i] ELSE F[i - 1] \o seqs[i]
      <4>1. CASE i = 1
        BY <1>1, <2>0, <4>1
      <4>2. CASE i # 1
        <5>1. i - 1 \in 1..n /\ i - 1 \in Nat /\ (i - 1) + 1 = i
          BY <4>2
        <5>2. Upto(scores, i) = Upto(scores, i - 1) \o Single(scores, i)
          BY <5>1, UptoGrows
        <5> QED
          BY <1>1, <4>2, <5>1, <5>2
      <4> QED
        BY <4>1, <4>2
    <3> QED
      BY <1>1, <3>1
  <2>3. ASSUME NEW f, Q(f)
        PROVE  f[n] = Upto(scores, n)
    <3> DEFINE T == {k \in 0..n : k = 0 \/ f[k] = Upto(scores, k)}
    <3>1. 0 \in T
      OBVIOUS
    <3>2. ASSUME NEW k \in 0..n - 1, k \in T
          PROVE  k + 1 \in T
      <4>1. k + 1 \in 1..n /\ k + 1 \in 0..n /\ (k + 1) - 1 = k
        OBVIOUS
      <4>2. f[k + 1] = IF k + 1 = 1 THEN seqs[k + 1] ELSE f[k] \o seqs[k + 1]
        BY <1>1, <2>3, <4>1
      <4>3. CASE k = 0
        BY <1>1, <2>0, <4>1, <4>2, <4>3
      <4>4. CASE k # 0
        <5>1. f[k] = Upto(scores, k)
          BY <3>2, <4>4
        <5>2. Upto(scores, k + 1) = Upto(scores, k) \o Single(scores, k + 1)
          BY UptoGrows
        <5>3. f[k + 1] = f[k] \o seqs[k + 1]
          <6>1. k + 1 # 1
            BY <4>4
          <6> QED
            BY <4>2, <6>1
        <5>4. seqs[k + 1] = Single(scores, k + 1)
          BY <1>1, <4>1
        <5>5. f[k + 1] = Upto(scores, k + 1)
          BY <5>1, <5>2, <5>3, <5>4, Zenon
        <5> QED
          BY <4>1, <5>5
      <4> QED
        BY <4>3, <4>4
    <3>3. \A k \in 0..n : k \in T
      <4> HIDE DEF T
      <4>1. \A k \in 0..n - 1 : k \in T => k + 1 \in T
        BY <3>2
      <4> QED
        BY <3>1, <4>1, Climb
    <3> QED
      BY <1>4, <3>3
  <2>4. Q(CHOOSE f : Q(f))
    <3> HIDE DEF Q, F
    <3> QED
      BY <2>2
  <2> QED
    <3> HIDE DEF Q
    <3> QED
      BY <2>1, <2>3, <2>4 DEF seqs
<1> QED
  BY <1>3, <1>4

(* knowledge.py search_memory, for any number of memories and scores: each *)
(* memory has the score at its own place, or none.                         *)
THEOREM HitsScreen ==
    ASSUME NEW A, NEW artifacts \in Seq(A), NEW S, NEW scores \in Seq(S),
           NEW resp, resp = [artifacts |-> artifacts, scores |-> scores]
    PROVE  LET hits == search_memory(resp)
           IN  /\ Each(LAMBDA h : h.artifact, hits) = resp.artifacts
               /\ FlattenSeq(Each(LAMBDA h : h.score, hits)) = Upto(resp.scores, Len(hits))
<1> DEFINE hits == search_memory(resp)
           n == Len(artifacts)
<1>1. n \in Nat /\ DOMAIN artifacts = 1..n /\ resp.artifacts = artifacts /\ resp.scores = scores
  OBVIOUS
<1>2. hits = [i \in 1..n |-> [artifact |-> artifacts[i], score |-> Single(scores, i)]]
  BY <1>1 DEF search_memory, Single, Present, Absent
<1> HIDE DEF n, hits
<1>3. DOMAIN hits = 1..n /\ Len(hits) = n
      /\ \A i \in 1..n : hits[i].artifact = artifacts[i] /\ hits[i].score = Single(scores, i)
  BY <1>1, <1>2
<1>4. Each(LAMBDA h : h.artifact, hits) = [i \in 1..n |-> artifacts[i]]
  BY <1>3 DEF Each
<1>5. Each(LAMBDA h : h.score, hits) = [i \in 1..n |-> Single(scores, i)]
  BY <1>3 DEF Each
<1>6. artifacts = [i \in 1..n |-> artifacts[i]]
  BY <1>1
<1>7. FlattenSeq(Each(LAMBDA h : h.score, hits)) = Upto(scores, n)
  BY <1>1, <1>5, ScoresFlattened, Zenon
<1> QED
  BY <1>1, <1>3, <1>4, <1>6, <1>7, Zenon DEF hits
=============================================================================
