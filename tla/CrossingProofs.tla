--------------------------- MODULE CrossingProofs ---------------------------
(***************************************************************************)
(* What callers of both ports read and change, for any number of callers,  *)
(* boards, flows and edits, and boxes and budgets of any bound.            *)
(*                                                                         *)
(* First bind_task_manager: what is held between its two calls is current, *)
(* and binding touches nothing else.  Then the shape of what is stored and *)
(* held, from which the ports agree, the screens are true, the groups keep *)
(* the queue, and edits and moves do what their callers meant.             *)
(***************************************************************************)
EXTENDS Crossing, ViewsProofs, FiniteSetTheorems

(* The steps of a behaviour about a project are those of its use case.     *)
LEMMA ProjectSteps ==
    ASSUME about = "project", [Next]_vars
    PROVE  /\ about' = "project"
           /\ \/ \E c \in Caller : \/ \E b \in Board : Bind(c, b)
                                   \/ GetProject(c) \/ UpdateProject(c) \/ BindFails(c)
              \/ UNCHANGED vars
<1>1. CASE UNCHANGED vars
  BY <1>1 DEF vars
<1>2. CASE Next
  BY <1>2 DEF Next, Bind, GetProject, UpdateProject, BindFails, GetFlow, Edit, UpdateFlow,
              Advance, DecideGate, SetBudget, RecordUsage, Open, Resolve, AnswerAgain, OnlyRead
<1> QED
  BY <1>1, <1>2

(* A step keeps the aggregate the behaviour is about.                      *)
LEMMA AboutStays ==
    ASSUME [Next]_vars
    PROVE  about' = about
BY DEF Next, vars, Bind, GetProject, UpdateProject, BindFails, GetFlow, Edit, UpdateFlow,
       Advance, DecideGate, SetBudget, RecordUsage, Open, Resolve, AnswerAgain

LEMMA HeldIsCurrentAtFirst == Init => HeldIsCurrent
BY DEF Init, HeldIsCurrent, Messages, Idle

(* What the core stores once a binding was sent to it.                     *)
LEMMA BoundProject ==
    ASSUME NEW p \in Projects, NEW b \in Board
    PROVE  /\ [p EXCEPT !.task_manager = Set(b)] \in Projects
           /\ [p EXCEPT !.task_manager = Set(b)].rest = p.rest
           /\ [p EXCEPT !.task_manager = Set(b)].task_manager = Set(b)
<1>1. p \in [rest : {"r1", "r2"},
             task_manager : {Unset(NoBinding)} \cup {Set(x) : x \in Board}]
  BY DEF Projects
<1>2. Set(b) \in {Unset(NoBinding)} \cup {Set(x) : x \in Board}
  OBVIOUS
<1> QED
  BY <1>1, <1>2 DEF Projects

LEMMA HeldStaysCurrent ==
    ASSUME HeldIsCurrent, [Next]_vars
    PROVE  HeldIsCurrent'
<1> DEFINE Hands == {Idle} \cup [pc : {"reading"}, body : Board]
                     \cup [pc : {"writing"}, body : Board, current : Projects]
<1> SUFFICES ASSUME about' = "project"
             PROVE  HeldIsCurrent'
  BY DEF HeldIsCurrent
<1>1. about = "project"
  BY AboutStays
<1>2. /\ stored \in Projects
      /\ hand \in [Caller -> Hands]
      /\ \A c \in Caller : hand[c].pc = "writing" => hand[c].current.rest = stored.rest
  BY <1>1 DEF HeldIsCurrent
<1>3. SUFFICES /\ stored' \in Projects
               /\ hand' \in [Caller -> Hands]
               /\ \A c \in Caller :
                     hand'[c].pc = "writing" => hand'[c].current.rest = stored'.rest
  BY DEF HeldIsCurrent
<1>4. /\ Idle \in Hands /\ Idle.pc # "writing"
      /\ \A c \in Caller : hand[c] \in Hands
      /\ \A h \in Hands : h.pc = "reading" => h.body \in Board
      /\ \A h \in Hands : h.pc = "writing" => h.body \in Board /\ h.current \in Projects
  <2>1. Idle \in Hands /\ Idle.pc # "writing" /\ Idle.pc # "reading"
    BY DEF Idle
  <2>2. \A h \in [pc : {"reading"}, body : Board] : h.pc = "reading" /\ h.body \in Board
    OBVIOUS
  <2>3. \A h \in [pc : {"writing"}, body : Board, current : Projects] :
           h.pc = "writing" /\ h.body \in Board /\ h.current \in Projects
    OBVIOUS
  <2> QED
    BY <1>2, <2>1, <2>2, <2>3
<1> HIDE DEF Hands
<1>5. ASSUME NEW c \in Caller, NEW b \in Board, Bind(c, b)
      PROVE  /\ stored' = stored
             /\ \E h \in Hands : h.pc # "writing" /\ hand' = [hand EXCEPT ![c] = h]
  <2>1. [pc |-> "reading", body |-> b] \in Hands
    BY DEF Hands
  <2> QED
    BY <1>5, <2>1 DEF Bind
<1>6. ASSUME NEW c \in Caller, GetProject(c)
      PROVE  /\ stored' = stored
             /\ \E h \in Hands : h.current = stored /\ hand' = [hand EXCEPT ![c] = h]
  <2> DEFINE h == [pc |-> "writing", body |-> hand[c].body, current |-> stored]
  <2>1. hand[c].body \in Board
    BY <1>4, <1>6 DEF GetProject
  <2>2. h \in Hands
    BY <1>2, <2>1 DEF Hands
  <2>3. h.current = stored
    OBVIOUS
  <2>4. stored' = stored /\ hand' = [hand EXCEPT ![c] = h]
    BY <1>6 DEF GetProject
  <2> QED
    BY <2>2, <2>3, <2>4
<1>7. ASSUME NEW c \in Caller, UpdateProject(c)
      PROVE  /\ stored' \in Projects /\ stored'.rest = stored.rest
             /\ hand' = hand \/ hand' = [hand EXCEPT ![c] = Idle]
  <2>1. hand[c].pc = "writing" /\ stored' = [hand[c].current EXCEPT !.task_manager = Set(hand[c].body)]
    BY <1>7 DEF UpdateProject
  <2>2. hand[c].body \in Board /\ hand[c].current \in Projects
    BY <1>4, <2>1
  <2>3. stored' \in Projects /\ stored'.rest = hand[c].current.rest
    BY <2>1, <2>2, BoundProject
  <2> QED
    BY <1>2, <1>7, <2>1, <2>3 DEF UpdateProject
<1>8. ASSUME NEW c \in Caller, BindFails(c)
      PROVE  stored' = stored /\ hand' = [hand EXCEPT ![c] = Idle]
  BY <1>8 DEF BindFails
<1>9. CASE UNCHANGED vars
  BY <1>2, <1>9 DEF vars
<1>10. CASE \E c \in Caller : \E b \in Board : Bind(c, b)
  BY <1>2, <1>4, <1>5, <1>10
<1>11. CASE \E c \in Caller : GetProject(c)
  BY <1>2, <1>4, <1>6, <1>11
<1>12. CASE \E c \in Caller : UpdateProject(c)
  BY <1>2, <1>4, <1>7, <1>12
<1>13. CASE \E c \in Caller : BindFails(c)
  BY <1>2, <1>4, <1>8, <1>13
<1> QED
  BY <1>1, <1>9, <1>10, <1>11, <1>12, <1>13, ProjectSteps

(* hierarchy.py bind_task_manager: what a call holds between its read and  *)
(* its write is the project as it is, for any callers and boards.          *)
THEOREM HeldInvariance == Spec => []HeldIsCurrent
<1>1. HeldIsCurrent /\ [Next]_vars => HeldIsCurrent'
  BY HeldStaysCurrent
<1> QED
  BY HeldIsCurrentAtFirst, <1>1, PTL DEF Spec

(* hierarchy.py bind_task_manager: the rest of the project is never        *)
(* touched, and every binding is one that a caller submitted whole.        *)
THEOREM BindingIsContained == Spec => BindTouchesNothingElse
<1> DEFINE Contained ==
      about = "project" =>
          /\ stored'.rest = stored.rest
          /\ stored' # stored =>
                \E c \in Caller : /\ hand[c].pc = "writing"
                                  /\ stored'.task_manager = Set(hand[c].body)
<1>1. HeldIsCurrent /\ [Next]_vars => [Contained]_vars
  <2> SUFFICES ASSUME HeldIsCurrent, Next, about = "project"
               PROVE  Contained
    BY DEF vars
  <2>1. CASE \E c \in Caller : (\E b \in Board : Bind(c, b)) \/ GetProject(c) \/ BindFails(c)
    BY <2>1 DEF Bind, GetProject, BindFails
  <2>2. ASSUME NEW c \in Caller, UpdateProject(c)
        PROVE  Contained
    <3>1. /\ hand[c].pc = "writing"
          /\ stored' = [hand[c].current EXCEPT !.task_manager = Set(hand[c].body)]
      BY <2>2 DEF UpdateProject
    <3>2. hand[c].current.rest = stored.rest
      BY <3>1 DEF HeldIsCurrent
    <3>3. hand[c] \in [pc : {"writing"}, body : Board, current : Projects]
      BY <3>1 DEF HeldIsCurrent, Idle
    <3>4. hand[c].body \in Board /\ hand[c].current \in Projects
      BY <3>3
    <3>5. stored'.rest = stored.rest /\ stored'.task_manager = Set(hand[c].body)
      BY <3>1, <3>2, <3>4, BoundProject
    <3> QED
      BY <3>1, <3>5
  <2>3. CASE UNCHANGED vars
    BY <2>3 DEF vars
  <2> QED
    BY <2>1, <2>2, <2>3, ProjectSteps
<1> QED
  BY HeldInvariance, <1>1, PTL DEF Spec, BindTouchesNothingElse

(***************************************************************************)
(* The shape of what is stored and held.                                   *)
(***************************************************************************)

LEMMA Aggregates ==
    /\ DOMAIN Messages = {"project", "flow", "demand", "budget", "box"} \cup OnlyRead
    /\ Messages["flow"] = Flows /\ Messages["demand"] = Demands
    /\ Messages["budget"] = Budgets /\ Messages["box"] = {<<>>}
    /\ Messages["step_up"] = StepUps /\ Messages["word"] = Words
    /\ Messages["package"] = Drops /\ Messages["hits"] = Hits
    /\ {"project", "flow", "demand", "budget", "box"} \cap OnlyRead = {}
BY DEF Messages, OnlyRead

LEMMA TypedAtFirst == Init => TypeOK
<1> SUFFICES ASSUME Init PROVE TypeOK
  OBVIOUS
<1>1. about \in DOMAIN Messages /\ stored \in Messages[about] /\ hand = [c \in Caller |-> Idle]
  BY DEF Init
<1>2. about = "flow" => stored \in Seq(StageSpecs) /\ hand \in [Caller -> FlowHands]
  BY <1>1, Aggregates, CrossingAssumption DEF FlowHands
<1>3. about = "demand" => stored \in [dop_status : 0..5, stages : Stages(1..5, Date)]
  <2>1. Stages({1, 2, 5}, {Unset(0)}) \subseteq Stages(1..5, Date)
    BY DEF Stages, Date
  <2>2. Demands \subseteq [dop_status : 0..5, stages : Stages(1..5, Date)]
    <3> DEFINE A == Stages({1, 2, 5}, {Unset(0)})
               B == Stages(1..5, Date)
    <3> HIDE DEF A, B
    <3>1. [dop_status : 0..5, stages : A] \subseteq [dop_status : 0..5, stages : B]
      BY <2>1 DEF A, B
    <3> QED
      BY <3>1 DEF A, B, Demands
  <2> QED
    BY <1>1, <2>2, Aggregates
<1>4. about = "budget" => stored \in [limit : 0..MaxSpent, spent : 0..MaxSpent]
  <2>1. MaxSpent \in Nat
    BY CrossingAssumption
  <2>2. 0 \in 0..MaxSpent
    BY <2>1
  <2>3. Budgets \subseteq [limit : 0..MaxSpent, spent : 0..MaxSpent]
    BY <2>2 DEF Budgets
  <2> QED
    BY <1>1, <2>3, Aggregates
<1>5. about = "box" => /\ stored \in Seq(Items) /\ Len(stored) <= MaxItems
                       /\ \A i, j \in DOMAIN stored : stored[i].id = stored[j].id => i = j
  <2>1. MaxItems \in Nat
    BY CrossingAssumption
  <2>2. about = "box" => stored = <<>>
    BY <1>1, Aggregates
  <2> QED
    BY <2>1, <2>2
<1> QED
  BY <1>1, <1>2, <1>3, <1>4, <1>5 DEF TypeOK

(* Of each aggregate, the steps that concern it.                           *)
LEMMA FlowSteps ==
    ASSUME about = "flow", [Next]_vars
    PROVE  \/ \E c \in Caller : \/ \E p \in Port : GetFlow(c, p)
                                \/ \E i \in 1..2, e \in Edits : Edit(c, i, e)
                                \/ UpdateFlow(c)
           \/ UNCHANGED vars
BY DEF Next, vars, Bind, GetProject, UpdateProject, BindFails, Advance, DecideGate, SetBudget,
       RecordUsage, Open, Resolve, AnswerAgain, OnlyRead

LEMMA DemandSteps ==
    ASSUME about = "demand", [Next]_vars
    PROVE  \/ \E p \in Port, i \in 1..2, w \in {"pending", "running", "blocked", "done"} :
                 Advance(p, i, w)
           \/ \E i \in 1..2, approved \in BOOLEAN : DecideGate(i, approved)
           \/ UNCHANGED vars
BY DEF Next, vars, Bind, GetProject, UpdateProject, BindFails, GetFlow, Edit, UpdateFlow,
       SetBudget, RecordUsage, Open, Resolve, AnswerAgain, OnlyRead

LEMMA BudgetSteps ==
    ASSUME about = "budget", [Next]_vars
    PROVE  \/ \E n \in 0..MaxSpent : SetBudget(n) \/ RecordUsage(n)
           \/ UNCHANGED vars
BY DEF Next, vars, Bind, GetProject, UpdateProject, BindFails, GetFlow, Edit, UpdateFlow,
       Advance, DecideGate, Open, Resolve, AnswerAgain, OnlyRead

LEMMA BoxSteps ==
    ASSUME about = "box", [Next]_vars
    PROVE  \/ \E place \in 1..MaxItems, kind \in {1, 9}, whose \in Whose :
                 Open(place, kind, whose)
           \/ \E place \in 1..MaxItems : Resolve(place)
           \/ UNCHANGED vars
BY DEF Next, vars, Bind, GetProject, UpdateProject, BindFails, GetFlow, Edit, UpdateFlow,
       Advance, DecideGate, SetBudget, RecordUsage, AnswerAgain, OnlyRead

LEMMA ReadSteps ==
    ASSUME about \in OnlyRead, [Next]_vars
    PROVE  AnswerAgain \/ UNCHANGED vars
BY DEF Next, vars, Bind, GetProject, UpdateProject, BindFails, GetFlow, Edit, UpdateFlow,
       Advance, DecideGate, SetBudget, RecordUsage, Open, Resolve, OnlyRead

(* Flows: what a client is shown, what it edits, and what is sent.         *)
LEMMA NumbersAreNatural ==
    ASSUME NEW v \in {"StageType", "Artifact", "Gate", "StageStatus"}, NEW w
    PROVE  Number(Core[v], w) \in Nat /\ Number(Core[v], w) <= 8
<1>1. DOMAIN Core[v] \subseteq 1..8
  BY Tables DEF CoreWorkflow, CoreDemand
<1> QED
  BY <1>1 DEF Number

LEMMA WordsAreShown == \A v, n : Word(Core[v], n) \in Shows(v)
BY DEF Word, Shows

LEMMA SpecIsShown ==
    ASSUME NEW s \in StageSpecs
    PROVE  stage_spec(s) \in StageViews /\ stage_spec(s).key = s.key
BY WordsAreShown DEF stage_spec, StageSpecs, StageViews

LEMMA FlowIsShown ==
    ASSUME NEW f \in Seq(StageSpecs)
    PROVE  /\ flow(f) \in Seq(StageViews) /\ DOMAIN flow(f) = DOMAIN f
           /\ \A i \in DOMAIN f : flow(f)[i] = stage_spec(f[i]) /\ flow(f)[i].key = f[i].key
<1>1. flow(f) = [i \in 1..Len(f) |-> stage_spec(f[i])] /\ DOMAIN f = 1..Len(f) /\ Len(f) \in Nat
  BY DEF flow, Each
<1>2. \A i \in 1..Len(f) : f[i] \in StageSpecs
  BY <1>1
<1>3. \A i \in 1..Len(f) : stage_spec(f[i]) \in StageViews /\ stage_spec(f[i]).key = f[i].key
  BY <1>2, SpecIsShown
<1> QED
  BY <1>1, <1>3

(* A stage as it is sent: its words, through the port, as numbers.         *)
ForTheCore(s) ==
    [ key |-> s.key, type |-> Number(Core["StageType"], s.type),
      artifact |-> Number(Core["Artifact"], s.artifact), gate |-> Number(Core["Gate"], s.gate),
      actions |-> <<>> ]

(* A word that came in over gRPC, with the default of the model for none.  *)
Came(v, w, default) ==
    IF Number(Edge[v], w) \in DOMAIN Edge[v] THEN Edge[v][Number(Edge[v], w)] ELSE default

NewSpec(s) ==
    [ key |-> s.key, type |-> Came("StageType", s.type, "generic"),
      artifact |-> Came("Artifact", s.artifact, ""), gate |-> Came("Gate", s.gate, "none") ]

LEMMA SentFlow ==
    ASSUME NEW body
    PROVE  flow_for_the_core(body) = [i \in DOMAIN body |-> ForTheCore(body[i])]
BY DEF flow_for_the_core, Each, ForTheCore

LEMMA NewFlow ==
    ASSUME NEW held \in Seq(StageViews)
    PROVE  new_flow(edge_flow(held)) = [i \in DOMAIN held |-> NewSpec(held[i])]
<1> DEFINE e == [i \in DOMAIN held |-> Numbered(held[i], SpecWords)]
           Spec1(s) == [ key      |-> s.key,
                         type     |-> IF s.type \in DOMAIN Edge["StageType"]
                                      THEN Edge["StageType"][s.type] ELSE "generic",
                         artifact |-> Word(Edge["Artifact"], s.artifact),
                         gate     |-> IF s.gate \in DOMAIN Edge["Gate"]
                                      THEN Edge["Gate"][s.gate] ELSE "none" ]
<1>1. edge_flow(held) = e
  BY DEF edge_flow, Each
<1>2. ASSUME NEW s \in StageViews
      PROVE  Spec1(Numbered(s, SpecWords)) = NewSpec(s)
  <2> DEFINE m == Numbered(s, SpecWords)
  <2>1. DOMAIN s = {"key", "type", "artifact", "gate"}
    BY DEF StageViews
  <2>2. /\ m.key = s.key /\ m.type = Number(Edge["StageType"], s.type)
        /\ m.artifact = Number(Edge["Artifact"], s.artifact)
        /\ m.gate = Number(Edge["Gate"], s.gate)
    BY <2>1 DEF Numbered, SpecWords
  <2> HIDE DEF m
  <2>3. Spec1(m) = NewSpec(s)
    BY <2>2 DEF NewSpec, Came, Word
  <2> QED
    BY <2>3 DEF m
<1>3. \A i \in DOMAIN held : held[i] \in StageViews
  OBVIOUS
<1>4. new_flow(e) = [i \in DOMAIN e |-> Spec1(e[i])]
  <2> HIDE DEF e
  <2> QED
    BY DEF new_flow, Each
<1>5. \A i \in DOMAIN held : Spec1(e[i]) = NewSpec(held[i])
  <2> TAKE i \in DOMAIN held
  <2>1. e[i] = Numbered(held[i], SpecWords)
    OBVIOUS
  <2> HIDE DEF Spec1, e
  <2> QED
    BY <1>2, <1>3, <2>1
<1>6. DOMAIN e = DOMAIN held
  OBVIOUS
<1> HIDE DEF e, Spec1
<1> QED
  BY <1>1, <1>4, <1>5, <1>6

(* The stage that arrives at the use case, by either port.                 *)
Arrived(h, i) == IF h.port = "rest" THEN h.held[i] ELSE NewSpec(h.held[i])

LEMMA BodyOfHand ==
    ASSUME NEW h, NEW held \in Seq(StageViews), h.held = held
    PROVE  /\ flow_for_the_core(Body(h)) = [i \in DOMAIN held |-> ForTheCore(Arrived(h, i))]
           /\ \A i \in DOMAIN held : Arrived(h, i).key = held[i].key
<1>1. Body(h) = [i \in DOMAIN held |-> Arrived(h, i)]
  <2>1. CASE h.port = "rest"
    <3>1. held = [i \in DOMAIN held |-> held[i]]
      OBVIOUS
    <3> QED
      BY <2>1, <3>1 DEF Body, Arrived
  <2>2. CASE h.port # "rest"
    BY <2>2, NewFlow DEF Body, Arrived
  <2> QED
    BY <2>1, <2>2
<1>2. flow_for_the_core(Body(h)) = [i \in DOMAIN held |-> ForTheCore(Arrived(h, i))]
  BY <1>1, SentFlow
<1>3. \A i \in DOMAIN held : Arrived(h, i).key = held[i].key
  BY DEF Arrived, NewSpec
<1> QED
  BY <1>2, <1>3

LEMMA SentIsAFlow ==
    ASSUME NEW h, NEW held \in Seq(StageViews), h.held = held
    PROVE  flow_for_the_core(Body(h)) \in Seq(StageSpecs)
<1>1. DOMAIN held = 1..Len(held) /\ Len(held) \in Nat /\ \A i \in DOMAIN held : held[i] \in StageViews
  OBVIOUS
<1>2. \A i \in DOMAIN held : ForTheCore(Arrived(h, i)) \in StageSpecs
  <2> TAKE i \in DOMAIN held
  <2>1. Arrived(h, i).key \in STRING
    <3>1. \A x \in StageViews : x.key \in STRING
      BY DEF StageViews
    <3>2. Arrived(h, i).key = held[i].key
      BY BodyOfHand
    <3> QED
      BY <1>1, <3>1, <3>2
  <2>2. <<>> \in Seq(STRING)
    OBVIOUS
  <2> QED
    BY <2>1, <2>2, NumbersAreNatural DEF ForTheCore, StageSpecs
<1> QED
  BY <1>1, <1>2, BodyOfHand

(* What an edit leaves in a client's hand.                                 *)
LEMMA StageIsEdited ==
    ASSUME NEW s \in StageViews, NEW e \in Edits
    PROVE  [s EXCEPT ![e.field] = e.word] \in StageViews
           /\ [s EXCEPT ![e.field] = e.word].key = s.key
<1>1. /\ e.field \in {"type", "artifact", "gate"}
      /\ SpecWords["type"] = "StageType" /\ SpecWords["artifact"] = "Artifact"
      /\ SpecWords["gate"] = "Gate"
  BY CrossingAssumption DEF SpecWords
<1>2. e.word \in Shows(SpecWords[e.field])
  BY CrossingAssumption DEF Shows
<1>3. s \in [key : STRING, type : Shows("StageType"), artifact : Shows("Artifact"), gate : Shows("Gate")]
  BY DEF StageViews
<1>4. CASE e.field = "type"
  BY <1>1, <1>2, <1>3, <1>4 DEF StageViews
<1>5. CASE e.field = "artifact"
  BY <1>1, <1>2, <1>3, <1>5 DEF StageViews
<1>6. CASE e.field = "gate"
  BY <1>1, <1>2, <1>3, <1>6 DEF StageViews
<1> QED
  BY <1>1, <1>4, <1>5, <1>6

(* The hand of a client that edits, and that of one that does not.         *)
Editing(pc, p, base, held) == [pc |-> pc, port |-> p, base |-> base, held |-> held]

LEMMA HandsThatEdit ==
    ASSUME NEW h \in FlowHands, h.pc # "idle"
    PROVE  /\ h.pc \in {"editing", "edited"} /\ h.port \in Port
           /\ h.base \in Seq(StageSpecs) /\ h.held \in Seq(StageViews)
           /\ h = Editing(h.pc, h.port, h.base, h.held)
           /\ DOMAIN h.held = DOMAIN h.base
           /\ \A i \in DOMAIN h.held : h.held[i].key = h.base[i].key
<1> DEFINE B == Seq(StageSpecs)
           V == Seq(StageViews)
           R == [pc : {"editing", "edited"}, port : Port, base : B, held : V]
<1>1. h \in R /\ DOMAIN h.held = DOMAIN h.base /\ \A i \in DOMAIN h.held : h.held[i].key = h.base[i].key
  BY DEF FlowHands, Idle
<1> HIDE DEF B, V
<1>2. h.pc \in {"editing", "edited"} /\ h.port \in Port /\ h.base \in B /\ h.held \in V
  BY <1>1
<1>3. h = Editing(h.pc, h.port, h.base, h.held)
  BY <1>1 DEF Editing
<1> QED
  BY <1>1, <1>2, <1>3 DEF B, V

LEMMA MakesAHand ==
    ASSUME NEW pc \in {"editing", "edited"}, NEW p \in Port, NEW base \in Seq(StageSpecs),
           NEW held \in Seq(StageViews), DOMAIN held = DOMAIN base,
           \A i \in DOMAIN held : held[i].key = base[i].key
    PROVE  Editing(pc, p, base, held) \in FlowHands
<1> DEFINE B == Seq(StageSpecs)
           V == Seq(StageViews)
           h == Editing(pc, p, base, held)
<1>1. base \in B /\ held \in V
  OBVIOUS
<1> HIDE DEF B, V
<1>2. h \in [pc : {"editing", "edited"}, port : Port, base : B, held : V]
      /\ h.held = held /\ h.base = base
  BY <1>1 DEF Editing
<1> HIDE DEF h
<1>3. h \in {x \in [pc : {"editing", "edited"}, port : Port, base : B, held : V] :
                /\ DOMAIN x.held = DOMAIN x.base
                /\ \A i \in DOMAIN x.held : x.held[i].key = x.base[i].key}
  BY <1>2
<1>4. h \in FlowHands
  BY <1>3 DEF FlowHands, B, V
<1> QED
  BY <1>4 DEF h

LEMMA FlowStays ==
    ASSUME TypeOK, about = "flow", [Next]_vars
    PROVE  stored' \in Seq(StageSpecs) /\ hand' \in [Caller -> FlowHands]
<1>1. stored \in Seq(StageSpecs) /\ hand \in [Caller -> FlowHands]
  BY DEF TypeOK
<1>2. ASSUME NEW c \in Caller, NEW p \in Port, GetFlow(c, p)
      PROVE  stored' = stored /\ \E h \in FlowHands : hand' = [hand EXCEPT ![c] = h]
  <2> DEFINE h == Editing("editing", p, stored, Shown(p, stored))
  <2>1. stored' = stored /\ hand' = [hand EXCEPT ![c] = h]
    BY <1>2 DEF GetFlow, Editing
  <2>2. Shown(p, stored) = flow(stored)
    BY FlowCrosses DEF Shown
  <2>3. h \in FlowHands
    BY <1>1, <2>2, FlowIsShown, MakesAHand
  <2> QED
    BY <2>1, <2>3
<1>3. ASSUME NEW c \in Caller, NEW i \in 1..2, NEW e \in Edits, Edit(c, i, e)
      PROVE  stored' = stored /\ \E h \in FlowHands : hand' = [hand EXCEPT ![c] = h]
  <2> DEFINE h == hand[c]
             s == [h.held[i] EXCEPT ![e.field] = e.word]
             l == [h.held EXCEPT ![i] = s]
  <2>1. h \in FlowHands /\ h.pc # "idle" /\ i \in DOMAIN h.held /\ stored' = stored
    BY <1>1, <1>3 DEF Edit
  <2>2. hand' = [hand EXCEPT ![c] = [[h EXCEPT !.held = l] EXCEPT !.pc = "edited"]]
    BY <1>1, <1>3 DEF Edit
  <2> HIDE DEF h
  <2>3. h.held[i] \in StageViews
    BY <2>1, HandsThatEdit
  <2>4. s \in StageViews /\ s.key = h.held[i].key
    BY <2>3, StageIsEdited
  <2> HIDE DEF s
  <2>5. l \in Seq(StageViews) /\ DOMAIN l = DOMAIN h.held /\ \A j \in DOMAIN l : l[j].key = h.held[j].key
    <3>1. h.held \in Seq(StageViews)
      BY <2>1, HandsThatEdit
    <3> QED
      BY <2>1, <2>4, <3>1
  <2> HIDE DEF l
  <2>6. Editing("edited", h.port, h.base, l) \in FlowHands
    <3>1. /\ h.port \in Port /\ h.base \in Seq(StageSpecs) /\ DOMAIN l = DOMAIN h.base
          /\ \A j \in DOMAIN l : l[j].key = h.base[j].key
      BY <2>1, <2>5, HandsThatEdit
    <3> QED
      BY <2>5, <3>1, MakesAHand
  <2>7. [[h EXCEPT !.held = l] EXCEPT !.pc = "edited"] = Editing("edited", h.port, h.base, l)
    <3>1. PICK pc, p, b, o : h = [pc |-> pc, port |-> p, base |-> b, held |-> o]
      BY <2>1, HandsThatEdit DEF Editing
    <3>2. [h EXCEPT !.held = l] = [pc |-> pc, port |-> p, base |-> b, held |-> l]
      BY <3>1
    <3>3. [[pc |-> pc, port |-> p, base |-> b, held |-> l] EXCEPT !.pc = "edited"]
              = [pc |-> "edited", port |-> p, base |-> b, held |-> l]
      OBVIOUS
    <3>4. h.port = p /\ h.base = b
      BY <3>1
    <3> QED
      BY <3>2, <3>3, <3>4 DEF Editing
  <2> QED
    BY <2>1, <2>2, <2>6, <2>7
<1>4. ASSUME NEW c \in Caller, UpdateFlow(c)
      PROVE  stored' \in Seq(StageSpecs) /\ hand' = [hand EXCEPT ![c] = Idle]
  <2>1. hand[c] \in FlowHands /\ hand[c].pc # "idle"
    BY <1>1, <1>4 DEF UpdateFlow
  <2>2. hand[c].held \in Seq(StageViews)
    BY <2>1, HandsThatEdit
  <2> QED
    BY <1>4, <2>2, SentIsAFlow DEF UpdateFlow
<1>5. CASE UNCHANGED vars
  BY <1>1, <1>5 DEF vars
<1>6. Idle \in FlowHands
  BY DEF FlowHands
<1> QED
  BY <1>1, <1>2, <1>3, <1>4, <1>5, <1>6, FlowSteps

(* The box: an item opens anywhere in the queue, under an id of its own.   *)
ItemAfter(q, n, x, k) == IF k < n THEN q[k] ELSE IF k = n THEN x ELSE q[k - 1]

LEMMA Inserted ==
    ASSUME NEW S, NEW q \in Seq(S), NEW x \in S, NEW n \in 1..Len(q) + 1
    PROVE  /\ InsertAt(q, n, x) \in Seq(S) /\ Len(InsertAt(q, n, x)) = Len(q) + 1
           /\ \A k \in 1..Len(q) + 1 : InsertAt(q, n, x)[k] = ItemAfter(q, n, x, k)
<1> DEFINE a == SubSeq(q, 1, n - 1)
           b == SubSeq(q, n, Len(q))
           m == Len(q)
<1>1. m \in Nat /\ n \in Nat /\ n - 1 \in Nat
  OBVIOUS
<1>2. a \in Seq(S) /\ Len(a) = n - 1 /\ \A k \in 1..n - 1 : a[k] = q[k]
  OBVIOUS
<1>3. b \in Seq(S) /\ Len(b) = m - n + 1 /\ \A k \in 1..m - n + 1 : b[k] = q[k + n - 1]
  OBVIOUS
<1>4. InsertAt(q, n, x) = (a \o <<x>>) \o b
  BY DEF InsertAt
<1> HIDE DEF a, b
<1> DEFINE c == a \o <<x>>
<1>5. c \in Seq(S) /\ Len(c) = n /\ c[n] = x /\ \A k \in 1..n - 1 : c[k] = q[k]
  BY <1>1, <1>2
<1> HIDE DEF c, m
<1>6. c \o b \in Seq(S) /\ Len(c \o b) = m + 1
  <2>1. c \in Seq(S) /\ b \in Seq(S)
    BY <1>3, <1>5
  <2>2. c \o b \in Seq(S) /\ Len(c \o b) = Len(c) + Len(b)
    BY <2>1
  <2>3. Len(c) + Len(b) = m + 1
    BY <1>1, <1>3, <1>5
  <2> QED
    BY <2>2, <2>3
<1>7. ASSUME NEW k \in 1..m + 1
      PROVE  (c \o b)[k] = ItemAfter(q, n, x, k)
  <2>1. CASE k <= n
    <3>1. (c \o b)[k] = c[k]
      BY <1>1, <1>3, <1>5, <2>1
    <3> QED
      BY <1>1, <1>5, <2>1, <3>1 DEF ItemAfter
  <2>2. CASE ~(k <= n)
    <3>1. (c \o b)[k] = b[k - n] /\ k - n \in 1..m - n + 1
      BY <1>1, <1>3, <1>5, <2>2
    <3>2. b[k - n] = q[(k - n) + n - 1] /\ (k - n) + n - 1 = k - 1
      BY <1>1, <1>3, <3>1
    <3> QED
      BY <1>1, <2>2, <3>1, <3>2 DEF ItemAfter
  <2> QED
    BY <2>1, <2>2
<1> QED
  BY <1>4, <1>6, <1>7 DEF c, m

LEMMA Removed ==
    ASSUME NEW S, NEW q \in Seq(S), NEW n \in 1..Len(q)
    PROVE  /\ RemoveAt(q, n) \in Seq(S) /\ Len(RemoveAt(q, n)) = Len(q) - 1
           /\ \A k \in 1..Len(q) - 1 : RemoveAt(q, n)[k] = IF k < n THEN q[k] ELSE q[k + 1]
<1> DEFINE a == SubSeq(q, 1, n - 1)
           b == SubSeq(q, n + 1, Len(q))
           m == Len(q)
<1>1. m \in Nat /\ n \in Nat /\ n - 1 \in Nat
  OBVIOUS
<1>2. a \in Seq(S) /\ Len(a) = n - 1 /\ \A k \in 1..n - 1 : a[k] = q[k]
  OBVIOUS
<1>3. b \in Seq(S) /\ Len(b) = m - n /\ \A k \in 1..m - n : b[k] = q[k + n]
  OBVIOUS
<1>4. RemoveAt(q, n) = a \o b
  BY DEF RemoveAt
<1> HIDE DEF a, b, m
<1>5. a \o b \in Seq(S) /\ Len(a \o b) = m - 1
  <2>1. a \in Seq(S) /\ b \in Seq(S)
    BY <1>2, <1>3
  <2>2. a \o b \in Seq(S) /\ Len(a \o b) = Len(a) + Len(b)
    BY <2>1
  <2>3. Len(a) + Len(b) = m - 1
    BY <1>1, <1>2, <1>3
  <2> QED
    BY <2>2, <2>3
<1>6. ASSUME NEW k \in 1..m - 1
      PROVE  (a \o b)[k] = IF k < n THEN q[k] ELSE q[k + 1]
  <2>1. CASE k < n
    BY <1>1, <1>2, <1>3, <2>1
  <2>2. CASE ~(k < n)
    <3>1. (a \o b)[k] = b[k - (n - 1)] /\ k - (n - 1) \in 1..m - n
      BY <1>1, <1>2, <1>3, <2>2
    <3>2. b[k - (n - 1)] = q[(k - (n - 1)) + n] /\ (k - (n - 1)) + n = k + 1
      BY <1>1, <1>3, <3>1
    <3> QED
      BY <1>1, <2>2, <3>1, <3>2
  <2> QED
    BY <2>1, <2>2
<1> QED
  BY <1>4, <1>5, <1>6 DEF m

(* Where fewer items stand than there are ids, one of the ids is free.     *)
LEMMA AnIdIsFree ==
    ASSUME NEW q \in Seq(Items), Len(q) < MaxItems
    PROVE  \E id \in 1..MaxItems : \A i \in DOMAIN q : q[i].id # id
<1> DEFINE n == Len(q)
<1>1. n \in Nat /\ DOMAIN q = 1..n /\ MaxItems \in Nat
  BY CrossingAssumption
<1> SUFFICES ASSUME \A id \in 1..MaxItems : \E i \in 1..n : q[i].id = id
             PROVE  FALSE
  BY <1>1
<1> DEFINE f == [id \in 1..MaxItems |-> CHOOSE i \in 1..n : q[i].id = id]
<1>2. \A id \in 1..MaxItems : f[id] \in 1..n /\ q[f[id]].id = id
  OBVIOUS
<1>3. f \in [1..MaxItems -> 1..n]
  BY <1>2
<1>4. /\ IsFiniteSet(1..MaxItems) /\ Cardinality(1..MaxItems) = MaxItems
      /\ IsFiniteSet(1..n) /\ Cardinality(1..n) = n
  <2> HIDE DEF n
  <2> QED
    BY <1>1, FS_Interval
<1>5. Cardinality(1..n) < Cardinality(1..MaxItems)
  BY <1>4
<1> HIDE DEF f
<1>6. \E x, y \in 1..MaxItems : x # y /\ f[x] = f[y]
  <2> DEFINE S == 1..MaxItems
             T == 1..n
  <2>1. IsFiniteSet(S) /\ IsFiniteSet(T) /\ Cardinality(T) < Cardinality(S) /\ f \in [S -> T]
    BY <1>3, <1>4, <1>5
  <2> HIDE DEF S, T
  <2>2. \E x, y \in S : x # y /\ f[x] = f[y]
    BY <2>1, FS_PigeonHole
  <2> QED
    BY <2>2 DEF S
<1> QED
  BY <1>2, <1>6

OwnIds(q) == \A i, j \in DOMAIN q : q[i].id = q[j].id => i = j

LEMMA InsertedKeepsIds ==
    ASSUME NEW q \in Seq(Items), OwnIds(q), NEW x \in Items, \A i \in DOMAIN q : q[i].id # x.id,
           NEW n \in 1..Len(q) + 1
    PROVE  OwnIds(InsertAt(q, n, x))
<1> DEFINE m == Len(q)
           t == InsertAt(q, n, x)
           from(k) == IF k < n THEN k ELSE k - 1
<1>1. m \in Nat /\ n \in 1..m + 1 /\ DOMAIN q = 1..m
  OBVIOUS
<1>2. /\ t \in Seq(Items) /\ Len(t) = m + 1
      /\ \A k \in 1..m + 1 : t[k] = ItemAfter(q, n, x, k)
  BY Inserted
<1>3. DOMAIN t = 1..m + 1
  <2> HIDE DEF t, m
  <2> QED
    BY <1>2
<1> HIDE DEF t, m
<1>4. ASSUME NEW k \in 1..m + 1, k # n
      PROVE  from(k) \in 1..m /\ t[k] = q[from(k)]
  BY <1>1, <1>2, <1>4 DEF ItemAfter
<1>5. t[n] = x
  BY <1>1, <1>2 DEF ItemAfter
<1>6. \A i, j \in 1..m + 1 : i # n /\ j # n /\ from(i) = from(j) => i = j
  BY <1>1
<1> HIDE DEF from
<1>7. ASSUME NEW i \in 1..m + 1, NEW j \in 1..m + 1, t[i].id = t[j].id
      PROVE  i = j
  <2>1. CASE i # n /\ j # n
    <3>1. q[from(i)].id = q[from(j)].id /\ from(i) \in DOMAIN q /\ from(j) \in DOMAIN q
      BY <1>1, <1>4, <1>7, <2>1
    <3>2. from(i) = from(j)
      BY <3>1 DEF OwnIds
    <3> QED
      BY <1>6, <2>1, <3>2
  <2>2. CASE i = n /\ j # n
    BY <1>1, <1>4, <1>5, <1>7, <2>2
  <2>3. CASE i # n /\ j = n
    BY <1>1, <1>4, <1>5, <1>7, <2>3
  <2> QED
    BY <2>1, <2>2, <2>3
<1>8. OwnIds(t)
  BY <1>3, <1>7 DEF OwnIds
<1> QED
  BY <1>8 DEF t

LEMMA RemovedKeepsIds ==
    ASSUME NEW q \in Seq(Items), OwnIds(q), NEW n \in 1..Len(q)
    PROVE  OwnIds(RemoveAt(q, n))
<1> DEFINE m == Len(q)
           t == RemoveAt(q, n)
           from(k) == IF k < n THEN k ELSE k + 1
<1>1. m \in Nat /\ n \in 1..m /\ DOMAIN q = 1..m
  OBVIOUS
<1>2. /\ t \in Seq(Items) /\ Len(t) = m - 1
      /\ \A k \in 1..m - 1 : t[k] = IF k < n THEN q[k] ELSE q[k + 1]
  BY Removed, Zenon
<1>3. DOMAIN t = 1..m - 1
  <2> HIDE DEF t, m
  <2> QED
    BY <1>2
<1> HIDE DEF t, m
<1>4. ASSUME NEW k \in 1..m - 1
      PROVE  from(k) \in 1..m /\ t[k] = q[from(k)]
  BY <1>1, <1>2
<1>5. \A i, j \in 1..m - 1 : from(i) = from(j) => i = j
  BY <1>1
<1> HIDE DEF from
<1>6. ASSUME NEW i \in 1..m - 1, NEW j \in 1..m - 1, t[i].id = t[j].id
      PROVE  i = j
  <2>1. q[from(i)].id = q[from(j)].id /\ from(i) \in DOMAIN q /\ from(j) \in DOMAIN q
    BY <1>1, <1>4, <1>6
  <2>2. from(i) = from(j)
    BY <2>1 DEF OwnIds
  <2> QED
    BY <1>5, <2>2
<1>7. OwnIds(t)
  BY <1>3, <1>6 DEF OwnIds
<1> QED
  BY <1>7 DEF t

LEMMA BoxStays ==
    ASSUME TypeOK, about = "box", [Next]_vars
    PROVE  stored' \in Seq(Items) /\ Len(stored') <= MaxItems /\ OwnIds(stored')
<1> DEFINE m == Len(stored)
<1>1. stored \in Seq(Items) /\ m <= MaxItems /\ OwnIds(stored) /\ m \in Nat /\ MaxItems \in Nat
  BY CrossingAssumption DEF TypeOK, OwnIds
<1>2. ASSUME NEW place \in 1..MaxItems, NEW kind \in {1, 9}, NEW whose \in Whose,
             Open(place, kind, whose)
      PROVE  stored' \in Seq(Items) /\ Len(stored') <= MaxItems /\ OwnIds(stored')
  <2> DEFINE free == CHOOSE id \in 1..MaxItems : \A i \in DOMAIN stored : stored[i].id # id
             x == [id |-> free, kind |-> kind, demand |-> whose]
  <2>1. m < MaxItems /\ place \in 1..m + 1 /\ stored' = InsertAt(stored, place, x)
    BY <1>2 DEF Open
  <2>2. free \in 1..MaxItems /\ \A i \in DOMAIN stored : stored[i].id # free
    BY <1>1, <2>1, AnIdIsFree
  <2> HIDE DEF free
  <2>3. x \in Items /\ x.id = free
    BY <2>2 DEF Items
  <2> HIDE DEF x
  <2>4. InsertAt(stored, place, x) \in Seq(Items) /\ Len(InsertAt(stored, place, x)) = m + 1
    BY <1>1, <2>1, <2>3, Inserted
  <2>5. OwnIds(InsertAt(stored, place, x))
    BY <1>1, <2>1, <2>2, <2>3, InsertedKeepsIds
  <2> QED
    BY <1>1, <2>1, <2>4, <2>5
<1>3. ASSUME NEW place \in 1..MaxItems, Resolve(place)
      PROVE  stored' \in Seq(Items) /\ Len(stored') <= MaxItems /\ OwnIds(stored')
  <2>1. place \in 1..m /\ stored' = RemoveAt(stored, place) /\ DOMAIN stored = 1..m
    BY <1>1, <1>3 DEF Resolve
  <2>2. RemoveAt(stored, place) \in Seq(Items) /\ Len(RemoveAt(stored, place)) = m - 1
    BY <1>1, <2>1, Removed
  <2>3. OwnIds(RemoveAt(stored, place))
    BY <1>1, <2>1, RemovedKeepsIds
  <2> QED
    BY <1>1, <2>1, <2>2, <2>3
<1>4. CASE UNCHANGED vars
  BY <1>1, <1>4 DEF vars, OwnIds
<1> QED
  BY <1>2, <1>3, <1>4, BoxSteps

(* The demand: a stage moves, and keeps its key and its gate.              *)
StageMsgs == [key : {"k1", "k2"}, status : 1..5, gate : 1..3, started_at : Date]

Moved(s, n, at) == [key |-> s.key, status |-> n, gate |-> s.gate, started_at |-> at]

LEMMA StoredDemand ==
    ASSUME TypeOK, about = "demand"
    PROVE  /\ stored = [dop_status |-> stored.dop_status, stages |-> stored.stages]
           /\ stored.dop_status \in 0..5 /\ stored.stages \in Stages(1..5, Date)
           /\ stored.stages \in [1..2 -> StageMsgs]
           /\ stored.stages[1].key = "k1" /\ stored.stages[2].key = "k2"
<1> DEFINE S == Stages(1..5, Date)
<1>1. stored \in [dop_status : 0..5, stages : S]
  BY DEF TypeOK
<1> HIDE DEF S
<1>2. /\ stored = [dop_status |-> stored.dop_status, stages |-> stored.stages]
      /\ stored.dop_status \in 0..5 /\ stored.stages \in S
  BY <1>1
<1> QED
  BY <1>2 DEF S, Stages, StageMsgs

LEMMA StageMoves ==
    ASSUME NEW s \in StageMsgs, NEW n \in 1..5, NEW at \in Date
    PROVE  /\ Moved(s, n, at) \in StageMsgs /\ Moved(s, n, at).key = s.key
           /\ [[s EXCEPT !.status = n] EXCEPT !.started_at = at] = Moved(s, n, at)
<1>1. PICK k \in {"k1", "k2"}, x \in 1..5, g \in 1..3, d \in Date :
          s = [key |-> k, status |-> x, gate |-> g, started_at |-> d]
  BY DEF StageMsgs
<1> HIDE DEF Date
<1>2. Moved(s, n, at) = [key |-> k, status |-> n, gate |-> g, started_at |-> at]
  BY <1>1 DEF Moved
<1>3. [s EXCEPT !.status = n] = [key |-> k, status |-> n, gate |-> g, started_at |-> d]
  BY <1>1
<1>4. [[key |-> k, status |-> n, gate |-> g, started_at |-> d] EXCEPT !.started_at = at]
          = [key |-> k, status |-> n, gate |-> g, started_at |-> at]
  OBVIOUS
<1>5. Moved(s, n, at) \in StageMsgs
  BY <1>2 DEF StageMsgs
<1>6. Moved(s, n, at).key = s.key
  BY DEF Moved
<1> QED
  BY <1>2, <1>3, <1>4, <1>5, <1>6

(* The demand with one stage moved.                                        *)
WithStage(d, i, s) == [dop_status |-> d.dop_status, stages |-> [d.stages EXCEPT ![i] = s]]

LEMMA ArrivesAsSent ==
    ASSUME NEW p, NEW w \in {"pending", "running", "blocked", "done"}
    PROVE  /\ Arrives(p, w) = w /\ stage_status_value(w) \in 1..4
           /\ Word(Core["StageStatus"], stage_status_value(w)) = w
<1> DEFINE T == Core["StageStatus"]
<1>1. T = <<"pending", "running", "blocked", "done">> /\ Edge["StageStatus"] = T
  BY Tables, TablesAgree DEF CoreDemand
<1>2. DOMAIN T = 1..4 /\ \E n \in DOMAIN T : T[n] = w
  <2>1. DOMAIN T = 1..4 /\ T[1] = "pending" /\ T[2] = "running" /\ T[3] = "blocked" /\ T[4] = "done"
    BY <1>1
  <2> HIDE DEF T
  <2> QED
    BY <2>1
<1> HIDE DEF T
<1>3. Number(T, w) \in DOMAIN T /\ T[Number(T, w)] = w
  BY <1>2, KnownWordIsRead
<1>4. Word(T, Number(T, w)) = w
  BY <1>3 DEF Word
<1>5. Arrives(p, w) = w
  BY <1>1, <1>4 DEF Arrives, edge_stage_status
<1> QED
  BY <1>2, <1>3, <1>4, <1>5 DEF stage_status_value, T

LEMMA AdvanceMoves ==
    ASSUME TypeOK, NEW p \in Port, NEW i \in 1..2,
           NEW w \in {"pending", "running", "blocked", "done"}, Advance(p, i, w)
    PROVE  \E at \in Date :
              stored' = WithStage(stored, i, Moved(stored.stages[i], stage_status_value(w), at))
<1> DEFINE ss == stored.stages
           n == stage_status_value(w)
<1>1. about = "demand" /\ Arrives(p, w) = w /\ n \in 1..5
  BY ArrivesAsSent DEF Advance
<1>2. PICK at \in {ss[i].started_at, Set(1)} :
          stored' = [stored EXCEPT !.stages[i].status = n, !.stages[i].started_at = at]
  BY <1>1 DEF Advance
<1>3. /\ stored = [dop_status |-> stored.dop_status, stages |-> ss]
      /\ ss \in [1..2 -> StageMsgs]
  BY <1>1, StoredDemand
<1> HIDE DEF n
<1>4. at \in Date
  <2>1. ss[i].started_at \in Date
    BY <1>3 DEF StageMsgs
  <2>2. Set(1) \in Date
    BY DEF Date
  <2> QED
    BY <1>2, <2>1, <2>2
<1>5. stored' = [dop_status |-> stored.dop_status,
                 stages |-> [ss EXCEPT ![i] = [[ss[i] EXCEPT !.status = n] EXCEPT !.started_at = at]]]
  BY <1>2, <1>3
<1>6. stored' = WithStage(stored, i, Moved(ss[i], n, at))
  <2>1. [[ss[i] EXCEPT !.status = n] EXCEPT !.started_at = at] = Moved(ss[i], n, at)
    <3> DEFINE x == ss[i]
    <3>1. n \in 1..5 /\ x \in StageMsgs
      BY <1>1, <1>3 DEF n
    <3> HIDE DEF x
    <3>2. [[x EXCEPT !.status = n] EXCEPT !.started_at = at] = Moved(x, n, at)
      BY <1>4, <3>1, StageMoves
    <3> QED
      BY <3>2 DEF x
  <2> QED
    BY <1>5, <2>1 DEF WithStage
<1> QED
  BY <1>4, <1>6 DEF n

LEMMA DecisionMoves ==
    ASSUME TypeOK, NEW i \in 1..2, NEW approved \in BOOLEAN, DecideGate(i, approved)
    PROVE  \E n \in 1..5, at \in Date : stored' = WithStage(stored, i, Moved(stored.stages[i], n, at))
<1> DEFINE ss == stored.stages
           n == IF approved THEN 4 ELSE 3
           at == ss[i].started_at
<1>1. about = "demand" /\ stored' = [stored EXCEPT !.stages[i].status = n]
  BY DEF DecideGate
<1>2. /\ stored = [dop_status |-> stored.dop_status, stages |-> ss]
      /\ ss \in [1..2 -> StageMsgs]
  BY <1>1, StoredDemand
<1>3. n \in 1..5 /\ at \in Date
  BY <1>2 DEF StageMsgs
<1> HIDE DEF n
<1>4. [ss[i] EXCEPT !.status = n] = Moved(ss[i], n, at)
  <2>1. ss[i] \in StageMsgs
    BY <1>2
  <2>2. PICK k \in {"k1", "k2"}, x \in 1..5, g \in 1..3, d \in Date :
            ss[i] = [key |-> k, status |-> x, gate |-> g, started_at |-> d]
    BY <2>1 DEF StageMsgs
  <2>3. [ss[i] EXCEPT !.status = n] = [key |-> k, status |-> n, gate |-> g, started_at |-> d]
    BY <2>2
  <2> QED
    BY <2>2, <2>3 DEF Moved
<1>5. stored' = [dop_status |-> stored.dop_status, stages |-> [ss EXCEPT ![i] = [ss[i] EXCEPT !.status = n]]]
  BY <1>1, <1>2
<1>6. stored' = WithStage(stored, i, Moved(ss[i], n, at))
  BY <1>4, <1>5 DEF WithStage
<1> QED
  BY <1>3, <1>6

LEMMA MovedIsADemand ==
    ASSUME TypeOK, about = "demand", NEW i \in 1..2, NEW n \in 1..5, NEW at \in Date
    PROVE  WithStage(stored, i, Moved(stored.stages[i], n, at))
               \in [dop_status : 0..5, stages : Stages(1..5, Date)]
<1> DEFINE ss == stored.stages
           s == Moved(ss[i], n, at)
           t == [ss EXCEPT ![i] = s]
<1>1. /\ stored.dop_status \in 0..5 /\ ss \in [1..2 -> StageMsgs]
      /\ ss[1].key = "k1" /\ ss[2].key = "k2"
  BY StoredDemand
<1>2. s \in StageMsgs /\ s.key = ss[i].key
  <2>1. ss[i] \in StageMsgs
    BY <1>1
  <2> QED
    BY <2>1, StageMoves
<1> HIDE DEF s, ss
<1>3. t \in [1..2 -> StageMsgs] /\ t[1].key = "k1" /\ t[2].key = "k2"
  BY <1>1, <1>2
<1>4. t \in Stages(1..5, Date)
  BY <1>3 DEF Stages, StageMsgs
<1> HIDE DEF t
<1>5. WithStage(stored, i, s) = [dop_status |-> stored.dop_status, stages |-> t]
  BY DEF WithStage, t, ss
<1>6. WithStage(stored, i, s) \in [dop_status : 0..5, stages : Stages(1..5, Date)]
  <2> DEFINE S == Stages(1..5, Date)
  <2> HIDE DEF S
  <2>1. t \in S
    BY <1>4 DEF S
  <2>2. WithStage(stored, i, s) \in [dop_status : 0..5, stages : S]
    BY <1>1, <1>5, <2>1
  <2> QED
    BY <2>2 DEF S
<1> QED
  BY <1>6 DEF s, ss

LEMMA DemandStays ==
    ASSUME TypeOK, about = "demand", [Next]_vars
    PROVE  stored' \in [dop_status : 0..5, stages : Stages(1..5, Date)]
<1>1. ASSUME NEW p \in Port, NEW i \in 1..2, NEW w \in {"pending", "running", "blocked", "done"},
             Advance(p, i, w)
      PROVE  stored' \in [dop_status : 0..5, stages : Stages(1..5, Date)]
  <2>1. stage_status_value(w) \in 1..5
    BY ArrivesAsSent
  <2> QED
    BY <1>1, <2>1, AdvanceMoves, MovedIsADemand
<1>2. ASSUME NEW i \in 1..2, NEW approved \in BOOLEAN, DecideGate(i, approved)
      PROVE  stored' \in [dop_status : 0..5, stages : Stages(1..5, Date)]
  BY <1>2, DecisionMoves, MovedIsADemand
<1>3. CASE UNCHANGED vars
  BY <1>3 DEF vars, TypeOK
<1> QED
  BY <1>1, <1>2, <1>3, DemandSteps

LEMMA BudgetStays ==
    ASSUME TypeOK, about = "budget", [Next]_vars
    PROVE  stored' \in [limit : 0..MaxSpent, spent : 0..MaxSpent]
<1>1. stored \in [limit : 0..MaxSpent, spent : 0..MaxSpent] /\ MaxSpent \in Nat
  BY CrossingAssumption DEF TypeOK
<1>2. ASSUME NEW n \in 0..MaxSpent, SetBudget(n)
      PROVE  stored' \in [limit : 0..MaxSpent, spent : 0..MaxSpent]
  BY <1>1, <1>2 DEF SetBudget
<1>3. ASSUME NEW n \in 0..MaxSpent, RecordUsage(n)
      PROVE  stored' \in [limit : 0..MaxSpent, spent : 0..MaxSpent]
  <2>1. stored' = [stored EXCEPT !.spent = @ + n] /\ stored.spent + n \in 0..MaxSpent
    BY <1>1, <1>3 DEF RecordUsage
  <2> QED
    BY <1>1, <2>1
<1>4. CASE UNCHANGED vars
  BY <1>1, <1>4 DEF vars
<1> QED
  BY <1>2, <1>3, <1>4, BudgetSteps

LEMMA StaysTyped == TypeOK /\ [Next]_vars => TypeOK'
<1> SUFFICES ASSUME TypeOK, [Next]_vars PROVE TypeOK'
  OBVIOUS
<1>1. about' = about /\ about' \in DOMAIN Messages
  BY AboutStays DEF TypeOK
<1>2. about' \in OnlyRead => stored' \in Messages[about']
  BY <1>1, ReadSteps DEF AnswerAgain, vars, TypeOK
<1>3. about' = "flow" => stored' \in Seq(StageSpecs) /\ hand' \in [Caller -> FlowHands]
  BY <1>1, FlowStays
<1>4. about' = "demand" => stored' \in [dop_status : 0..5, stages : Stages(1..5, Date)]
  BY <1>1, DemandStays
<1>5. about' = "budget" => stored' \in [limit : 0..MaxSpent, spent : 0..MaxSpent]
  BY <1>1, BudgetStays
<1>6. about' = "box" => stored' \in Seq(Items) /\ Len(stored') <= MaxItems /\ OwnIds(stored')
  BY <1>1, BoxStays
<1> QED
  BY <1>1, <1>2, <1>3, <1>4, <1>5, <1>6, Zenon DEF TypeOK, OwnIds

(* What the edge sends to the core is always a message of the core, and a  *)
(* client that edits a flow holds the stages it read, for any callers,     *)
(* flows and edits, and a box and a budget of any bound.                   *)
THEOREM CrossingTypes == Spec => []TypeOK
BY TypedAtFirst, StaysTyped, PTL DEF Spec

(***************************************************************************)
(* The ports agree.                                                        *)
(***************************************************************************)

(* The items of a box with ids of their own are told apart.                *)
LEMMA ItemsToldApart ==
    ASSUME NEW q \in Seq(Items), OwnIds(q)
    PROVE  Distinct([i \in DOMAIN q |-> item(q[i])])
<1> DEFINE items == [i \in DOMAIN q |-> item(q[i])]
<1>1. \A i \in DOMAIN q : items[i].id = q[i].id
  BY DEF item
<1>2. DOMAIN items = DOMAIN q
  OBVIOUS
<1> HIDE DEF items
<1>3. Distinct(items)
  BY <1>1, <1>2 DEF Distinct, OwnIds
<1> QED
  BY <1>3 DEF items

LEMMA AgreesWhenTyped == TypeOK => PortsAgree
<1> SUFFICES ASSUME TypeOK PROVE Rest = Grpc
  BY DEF PortsAgree
<1>1. about \in {"project", "flow", "demand", "budget", "box", "package", "hits", "provenance",
                 "pull", "factor", "step_up", "word"}
  BY Aggregates DEF TypeOK, OnlyRead
<1>2. CASE about = "project"
  BY <1>2, ProjectCrosses DEF Rest, Grpc
<1>3. CASE about = "flow"
  BY <1>3, FlowCrosses DEF Rest, Grpc
<1>4. CASE about = "demand"
  BY <1>4, DemandCrosses DEF Rest, Grpc
<1>5. CASE about = "budget"
  BY <1>5, BudgetCrosses DEF Rest, Grpc
<1>6. CASE about = "box"
  <2>1. stored \in Seq(Items) /\ OwnIds(stored)
    BY <1>6 DEF TypeOK, OwnIds
  <2>2. read_box(edge_box(list_attention(stored))) = list_attention(stored)
    BY <2>1, ItemsToldApart, BoxCrosses
  <2> QED
    BY <1>6, <2>2 DEF Rest, Grpc
<1>7. CASE about = "package"
  BY <1>7, DropsCross DEF Rest, Grpc
<1>8. CASE about = "hits"
  BY <1>8, HitsCross DEF Rest, Grpc
<1>9. CASE about = "provenance"
  BY <1>9, ProvenanceCrosses DEF Rest, Grpc
<1>10. CASE about = "pull"
  BY <1>10 DEF Grpc
<1>11. CASE about = "factor"
  BY <1>11, FactorCrosses DEF Rest, Grpc
<1>12. CASE about = "step_up"
  <2>1. stored \in StepUps
    BY <1>12, Aggregates DEF TypeOK, OnlyRead
  <2>2. stored.recovery \in BOOLEAN
    BY <2>1 DEF StepUps
  <2> QED
    BY <1>12, <2>2, StepUpCrosses DEF Rest, Grpc
<1>13. CASE about = "word"
  <2>1. stored \in Words
    BY <1>13, Aggregates DEF TypeOK, OnlyRead
  <2>2. stored.vocabulary \in DOMAIN Core
    BY <2>1 DEF Words
  <2>3. Crosses(stored.vocabulary, Word(Core[stored.vocabulary], stored.number))
    BY <2>2, WordsCross
  <2> QED
    BY <1>13, <2>3 DEF Rest, Grpc, Crosses
<1> QED
  BY <1>1, <1>2, <1>3, <1>4, <1>5, <1>6, <1>7, <1>8, <1>9, <1>10, <1>11, <1>12, <1>13

(* The conversions of app/usecases and app/grpcapi: of every message       *)
(* modelled here, with whatever numbers the core stores in it, a client of *)
(* the gRPC port reads what REST serializes.                               *)
THEOREM BothPortsTellTheSame == Spec => []PortsAgree
BY CrossingTypes, AgreesWhenTyped, PTL

(***************************************************************************)
(* The screens are true.                                                   *)
(***************************************************************************)

LEMMA FunctionIsSequence ==
    ASSUME NEW S, NEW n \in Nat, NEW f \in [1..n -> S]
    PROVE  f \in Seq(S)
OBVIOUS

LEMMA SmallNumbers == \A x \in 0..1 : x \in Nat
OBVIOUS

LEMMA TrueWhenTyped == TypeOK => ScreensAreTrue
<1> SUFFICES ASSUME TypeOK PROVE ScreensAreTrue
  OBVIOUS
<1>1. DemandIsTrue
  <2> SUFFICES ASSUME about = "demand" PROVE DemandIsTrue
    BY DEF DemandIsTrue
  <2> DEFINE q == stored.stages
  <2>1. q \in [1..2 -> StageMsgs] /\ q[1].key = "k1" /\ q[2].key = "k2"
    BY StoredDemand
  <2> HIDE DEF q
  <2>2. q \in Seq(StageMsgs)
    BY <2>1, FunctionIsSequence
  <2>3. Keyed(q)
    <3>1. DOMAIN q = {1, 2}
      BY <2>1
    <3> QED
      BY <2>1, <3>1 DEF Keyed
  <2>4. stored.stages = q
    BY DEF q
  <2> QED
    BY <2>2, <2>3, <2>4, DemandScreen, Zenon DEF DemandIsTrue
<1>2. BudgetIsTrue
  <2> SUFFICES ASSUME about = "budget" PROVE BudgetIsTrue
    BY DEF BudgetIsTrue
  <2>1. stored \in [limit : 0..MaxSpent, spent : 0..MaxSpent] /\ MaxSpent \in Nat
    BY CrossingAssumption DEF TypeOK
  <2>2. stored.limit \in Nat /\ stored.spent \in Nat
    BY <2>1
  <2> QED
    BY <2>2, BudgetScreen DEF BudgetIsTrue
<1>3. ASSUME about = "package"
      PROVE  /\ drops(stored) = Absent <=> DOMAIN stored = {}
             /\ drops(stored) # Absent =>
                   (~drops(stored)[1].truncated <=> \A l \in DOMAIN stored : stored[l] = 0)
  <2>1. stored \in Drops
    BY <1>3, Aggregates DEF TypeOK, OnlyRead
  <2>2. PICK ls \in SUBSET {"rules", "memories", "a new layer"} : stored \in [ls -> 0..1]
    BY <2>1 DEF Drops
  <2>3. \A l \in DOMAIN stored : stored[l] \in Nat
    <3>1. \A l \in DOMAIN stored : stored[l] \in 0..1
      BY <2>2
    <3> QED
      BY <3>1, SmallNumbers, Zenon
  <2> QED
    BY <2>3, DropsScreen
<1>4. ASSUME about = "hits"
      PROVE  LET hits == search_memory(stored)
             IN  /\ Each(LAMBDA h : h.artifact, hits) = stored.artifacts
                 /\ FlattenSeq(Each(LAMBDA h : h.score, hits)) = Upto(stored.scores, Len(hits))
  <2>1. stored \in Hits
    BY <1>4, Aggregates DEF TypeOK, OnlyRead
  <2>2. PICK n \in 0..2 :
            stored \in [artifacts : [1..n -> {"a", "b"}], scores : UNION {[1..m -> 0..1] : m \in 0..2}]
    BY <2>1 DEF Hits
  <2> DEFINE A == [1..n -> {"a", "b"}]
             B == UNION {[1..m -> 0..1] : m \in 0..2}
  <2>3. A \subseteq Seq({"a", "b"}) /\ B \subseteq Seq(0..1)
    <3>1. \A f \in A : f \in Seq({"a", "b"})
      BY FunctionIsSequence
    <3>2. \A m \in 0..2 : \A f \in [1..m -> 0..1] : f \in Seq(0..1)
      BY FunctionIsSequence
    <3> QED
      BY <3>1, <3>2
  <2> HIDE DEF A, B
  <2>4. PICK a \in A, b \in B : stored = [artifacts |-> a, scores |-> b]
    <3>1. stored \in [artifacts : A, scores : B]
      BY <2>2 DEF A, B
    <3> QED
      BY <3>1
  <2>5. a \in Seq({"a", "b"}) /\ b \in Seq(0..1)
    BY <2>3
  <2> QED
    BY <2>4, <2>5, HitsScreen, Zenon
<1>5. ContextIsTrue
  BY <1>3, <1>4, Zenon DEF ContextIsTrue, Upto
<1> QED
  BY <1>1, <1>2, <1>5 DEF ScreensAreTrue

(* demand.py _demand, cost.py _budget_view, knowledge.py _drops and        *)
(* search_memory: what the edge derives says what the core's message says. *)
THEOREM ScreensStayTrue == Spec => []ScreensAreTrue
BY CrossingTypes, TrueWhenTyped, PTL

(***************************************************************************)
(* The groups keep the queue.                                              *)
(***************************************************************************)

LEMMA GroupsOfQueue ==
    ASSUME NEW S, NEW items \in Seq(S), Distinct(items), NEW G, Kept(items, Len(items), G)
    PROVE  InQueueOrder(items, G)
<1> DEFINE I == {items[i] : i \in DOMAIN items}
           D == {items[i].demand_id : i \in DOMAIN items}
<1>1. DOMAIN items = 1..Len(items) /\ Len(items) \in Nat
  OBVIOUS
<1>2. \A g \in DOMAIN G : G[g].demand_id \in D /\ G[g].items \in Seq(I)
  <2> DEFINE R == [demand_id : D, items : Seq(I)]
  <2>1. G \in Seq(R)
    BY DEF Kept, Groups
  <2> HIDE DEF D, I
  <2>2. \A r \in R : r.demand_id \in D /\ r.items \in Seq(I)
    OBVIOUS
  <2> HIDE DEF R
  <2>3. \A g \in DOMAIN G : G[g] \in R
    BY <2>1
  <2> QED
    BY <2>2, <2>3
<1>3. \A g, h \in DOMAIN G : G[g].demand_id = G[h].demand_id => g = h
  <2>1. G \in Groups(items)
    BY DEF Kept
  <2>2. DOMAIN G \subseteq Nat
    BY <2>1 DEF Groups
  <2> QED
    BY <2>2 DEF Kept
<1>4. ASSUME NEW g \in DOMAIN G
      PROVE  {G[g].items[k] : k \in DOMAIN G[g].items}
                 = {items[i] : i \in {j \in DOMAIN items : items[j].demand_id = G[g].demand_id}}
  <2>1. ASSUME NEW k \in DOMAIN G[g].items
        PROVE  \E i \in DOMAIN items : items[i].demand_id = G[g].demand_id /\ G[g].items[k] = items[i]
    <3>1. G[g].items[k] \in I
      <4> DEFINE l == G[g].items
      <4> HIDE DEF l, I
      <4>1. l \in Seq(I) /\ k \in DOMAIN l
        BY <1>2 DEF l
      <4>2. l[k] \in I
        BY <4>1
      <4> QED
        BY <4>2 DEF l
    <3>2. G[g].items[k].demand_id = G[g].demand_id
      BY DEF Kept
    <3> QED
      BY <3>1, <3>2
  <2>2. ASSUME NEW i \in DOMAIN items, items[i].demand_id = G[g].demand_id
        PROVE  \E k \in DOMAIN G[g].items : items[i] = G[g].items[k]
    <3>1. PICK h \in DOMAIN G : \E k \in DOMAIN G[h].items : G[h].items[k] = items[i]
      BY <1>1 DEF Kept
    <3>2. G[h].demand_id = items[i].demand_id
      BY <3>1 DEF Kept
    <3>3. h = g
      BY <1>3, <2>2, <3>2
    <3> QED
      BY <3>1, <3>3
  <2> QED
    BY <2>1, <2>2
<1>5. {items[i].demand_id : i \in DOMAIN items} = {G[g].demand_id : g \in DOMAIN G}
  <2>1. ASSUME NEW i \in DOMAIN items
        PROVE  \E g \in DOMAIN G : items[i].demand_id = G[g].demand_id
    <3>1. PICK h \in DOMAIN G : \E k \in DOMAIN G[h].items : G[h].items[k] = items[i]
      BY <1>1 DEF Kept
    <3> QED
      BY <3>1 DEF Kept
  <2>2. ASSUME NEW g \in DOMAIN G
        PROVE  \E i \in DOMAIN items : G[g].demand_id = items[i].demand_id
    BY <1>2
  <2>3. \A i \in DOMAIN items : items[i].demand_id \in {G[g].demand_id : g \in DOMAIN G}
    BY <2>1
  <2>4. \A g \in DOMAIN G : G[g].demand_id \in {items[i].demand_id : i \in DOMAIN items}
    BY <2>2
  <2> QED
    BY <2>3, <2>4
<1>6. \A g \in DOMAIN G :
         /\ G[g].items # <<>>
         /\ \A k, l \in DOMAIN G[g].items :
               k < l => At(items, G[g].items[k]) < At(items, G[g].items[l])
  BY DEF Kept
<1>7. \A g, h \in DOMAIN G : g < h => At(items, G[g].items[1]) < At(items, G[h].items[1])
  BY DEF Kept
<1> QED
  BY <1>4, <1>5, <1>6, <1>7, Zenon DEF InQueueOrder

LEMMA GroupedWhenTyped == TypeOK => GroupsKeepTheQueue
<1> SUFFICES ASSUME TypeOK, about = "box" PROVE GroupsKeepTheQueue
  BY DEF GroupsKeepTheQueue
<1> DEFINE items == [i \in DOMAIN stored |-> item(stored[i])]
           G == group_by_demand(items)
           V == {items[i] : i \in DOMAIN items}
<1>1. stored \in Seq(Items) /\ OwnIds(stored)
  BY DEF TypeOK, OwnIds
<1>2. Distinct(items)
  BY <1>1, ItemsToldApart
<1>3. items \in Seq(V)
  <2>1. DOMAIN stored = 1..Len(stored) /\ Len(stored) \in Nat
    BY <1>1
  <2>2. items \in [1..Len(stored) -> V]
    BY <2>1
  <2> HIDE DEF items, V
  <2> QED
    BY <2>1, <2>2, FunctionIsSequence
<1>4. list_attention(stored) = [items |-> items, groups |-> G]
  BY Zenon DEF list_attention, Each
<1> HIDE DEF items, V
<1>5. Kept(items, Len(items), G)
  BY <1>2, <1>3, GroupsKept
<1> HIDE DEF G
<1>6. list_attention(stored).items = items /\ list_attention(stored).groups = G
  BY <1>4
<1>7. InQueueOrder(items, G)
  BY <1>2, <1>3, <1>5, GroupsOfQueue
<1> QED
  BY <1>6, <1>7 DEF GroupsKeepTheQueue

(* attention.py _group_by_demand: for a queue of any length, whatever      *)
(* opens and closes in it, grouping is no second order.                    *)
THEOREM GroupsStayInOrder == Spec => []GroupsKeepTheQueue
BY CrossingTypes, GroupedWhenTyped, PTL

(***************************************************************************)
(* Edits and moves do what their callers meant.                            *)
(***************************************************************************)

(* No two numbers of a flow's vocabularies have the same word.             *)
LEMMA OneNumberEach ==
    ASSUME NEW v \in {"StageType", "Artifact", "Gate"}, NEW n \in DOMAIN Core[v]
    PROVE  Number(Core[v], Core[v][n]) = n
<1> DEFINE T == Core[v]
<1>1. \A i, j \in DOMAIN T : T[i] = T[j] => i = j
  BY Tables DEF CoreWorkflow
<1> HIDE DEF T
<1>2. n \in DOMAIN T
  BY DEF T
<1>3. Number(T, T[n]) \in DOMAIN T /\ T[Number(T, T[n])] = T[n]
  BY <1>2, KnownWordIsRead
<1> QED
  BY <1>1, <1>2, <1>3 DEF T

(* A word the edge knows arrives as it was sent, by either port, and its   *)
(* number has that word and no other.                                      *)
LEMMA WordIsSent ==
    ASSUME NEW v \in {"StageType", "Artifact", "Gate"}, NEW w \in Shows(v), w # "", NEW default
    PROVE  /\ Came(v, w, default) = w
           /\ Word(Core[v], Number(Core[v], w)) = w
           /\ \A n : Word(Core[v], n) = w => Number(Core[v], w) = n
<1>1. PICK m \in DOMAIN Core[v] : w = Core[v][m]
  BY DEF Shows
<1>2. Number(Core[v], w) \in DOMAIN Core[v] /\ Core[v][Number(Core[v], w)] = w
  BY <1>1, KnownWordIsRead
<1>3. Came(v, w, default) = w
  BY <1>2, TablesAgree DEF Came
<1>4. Word(Core[v], Number(Core[v], w)) = w
  BY <1>2 DEF Word
<1>5. ASSUME NEW n, Word(Core[v], n) = w
      PROVE  Number(Core[v], w) = n
  <2>1. n \in DOMAIN Core[v] /\ Core[v][n] = w
    BY <1>5 DEF Word
  <2> QED
    BY <2>1, OneNumberEach
<1> QED
  BY <1>3, <1>4, <1>5

LEMMA SpecFields ==
    /\ DOMAIN SpecWords = {"type", "artifact", "gate"}
    /\ SpecWords["type"] = "StageType" /\ SpecWords["artifact"] = "Artifact"
    /\ SpecWords["gate"] = "Gate"
BY DEF SpecWords

(* One stage of the flow that is stored.                                   *)
LEMMA StageIsKept ==
    ASSUME NEW h \in FlowHands, h.pc # "idle", NEW i \in DOMAIN h.held,
           KnownStage(h.held[i]), NEW f \in DOMAIN SpecWords,
           NEW s, s = ForTheCore(Arrived(h, i))
    PROVE  IF h.held[i][f] = stage_spec(h.base[i])[f]
           THEN s[f] = h.base[i][f]
           ELSE stage_spec(s)[f] = h.held[i][f]
<1> DEFINE v == SpecWords[f]
           x == h.held[i]
           b == h.base[i]
           w == x[f]
           a == Arrived(h, i)
<1>1. v \in {"StageType", "Artifact", "Gate"} /\ f \in {"type", "artifact", "gate"}
  BY SpecFields
<1>2. x \in StageViews
  BY HandsThatEdit
<1>3. w \in Shows(v) /\ w # ""
  <2>1. x.type \in Shows("StageType") /\ x.artifact \in Shows("Artifact") /\ x.gate \in Shows("Gate")
    BY <1>2 DEF StageViews
  <2>2. w # ""
    BY DEF KnownStage
  <2> QED
    BY <1>1, <2>1, <2>2, SpecFields
<1>4. a[f] = w
  <2>1. CASE h.port = "rest"
    BY <2>1 DEF Arrived
  <2>2. CASE h.port # "rest"
    <3>1. a = NewSpec(x)
      BY <2>2 DEF Arrived
    <3> HIDE DEF a, x
    <3>2. /\ a.type = Came("StageType", x.type, "generic")
          /\ a.artifact = Came("Artifact", x.artifact, "")
          /\ a.gate = Came("Gate", x.gate, "none")
      BY <3>1 DEF NewSpec
    <3>3. \E default : a[f] = Came(v, w, default)
      BY <1>1, <3>2, SpecFields
    <3> QED
      BY <1>1, <1>3, <3>3, WordIsSent
  <2> QED
    BY <2>1, <2>2
<1> HIDE DEF a, x, b
<1>5. s[f] = Number(Core[v], w)
  <2>1. /\ s.type = Number(Core["StageType"], a.type)
        /\ s.artifact = Number(Core["Artifact"], a.artifact)
        /\ s.gate = Number(Core["Gate"], a.gate)
    BY DEF ForTheCore, a
  <2> QED
    BY <1>1, <1>4, <2>1, SpecFields
<1>6. stage_spec(s)[f] = Word(Core[v], s[f]) /\ stage_spec(b)[f] = Word(Core[v], b[f])
  BY <1>1, SpecFields DEF stage_spec
<1>7. CASE w = stage_spec(b)[f]
  <2>1. Word(Core[v], b[f]) = w
    BY <1>6, <1>7
  <2>2. Number(Core[v], w) = b[f]
    <3> HIDE DEF v, w
    <3> QED
      BY <1>1, <1>3, <2>1, WordIsSent
  <2> QED
    BY <1>5, <1>7, <2>2 DEF x, b
<1>8. CASE w # stage_spec(b)[f]
  BY <1>1, <1>3, <1>5, <1>6, <1>8, WordIsSent DEF x, b
<1> QED
  BY <1>7, <1>8

(* workflow.py update_flow: an edit through either port changes the words  *)
(* of the stage it means and leaves the type, artifacts and gate of every  *)
(* other as they were read, for any flows, edits and callers.  Nothing is  *)
(* said of a stage's actions, which the write does not keep.               *)
THEOREM EditsKeepTheWords == Spec => EditKeepsWords
<1> DEFINE Keeps(c) ==
      LET h == hand[c]
      IN  /\ DOMAIN stored' = DOMAIN h.held
          /\ \A i \in DOMAIN h.held :
                /\ stored'[i].key = h.base[i].key
                /\ KnownStage(h.held[i]) =>
                      \A f \in DOMAIN SpecWords :
                          IF h.held[i][f] = flow(h.base)[i][f]
                          THEN stored'[i][f] = h.base[i][f]
                          ELSE flow(stored')[i][f] = h.held[i][f]
<1>1. ASSUME TypeOK, NEW c \in Caller, UpdateFlow(c)
      PROVE  Keeps(c)
  <2> DEFINE h == hand[c]
  <2>1. h \in FlowHands /\ h.pc # "idle" /\ stored' = flow_for_the_core(Body(h))
    BY <1>1 DEF UpdateFlow, TypeOK
  <2> HIDE DEF h
  <2>2. /\ h.held \in Seq(StageViews) /\ h.base \in Seq(StageSpecs) /\ DOMAIN h.held = DOMAIN h.base
        /\ \A i \in DOMAIN h.held : h.held[i].key = h.base[i].key
    BY <2>1, HandsThatEdit
  <2>3. /\ stored' = [i \in DOMAIN h.held |-> ForTheCore(Arrived(h, i))]
        /\ \A i \in DOMAIN h.held : Arrived(h, i).key = h.held[i].key
    BY <2>1, <2>2, BodyOfHand
  <2>4. stored' \in Seq(StageSpecs)
    BY <2>1, <2>2, SentIsAFlow
  <2>5. ASSUME NEW i \in DOMAIN h.held
        PROVE  /\ stored'[i] = ForTheCore(Arrived(h, i))
               /\ flow(stored')[i] = stage_spec(stored'[i])
               /\ flow(h.base)[i] = stage_spec(h.base[i])
    BY <2>2, <2>3, <2>4, FlowIsShown
  <2>6. DOMAIN stored' = DOMAIN h.held
    BY <2>3
  <2>7. ASSUME NEW i \in DOMAIN h.held
        PROVE  stored'[i].key = h.base[i].key
    BY <2>2, <2>3, <2>5 DEF ForTheCore
  <2>8. ASSUME NEW i \in DOMAIN h.held, KnownStage(h.held[i]), NEW f \in DOMAIN SpecWords
        PROVE  IF h.held[i][f] = flow(h.base)[i][f]
               THEN stored'[i][f] = h.base[i][f]
               ELSE flow(stored')[i][f] = h.held[i][f]
    BY <2>1, <2>5, <2>8, StageIsKept
  <2> QED
    BY <2>6, <2>7, <2>8 DEF h
<1>2. TypeOK /\ [Next]_vars => [\A c \in Caller : UpdateFlow(c) => Keeps(c)]_vars
  BY <1>1
<1> QED
  BY CrossingTypes, <1>2, PTL DEF Spec, EditKeepsWords

(* demand.py advance_stage: a stage moved through either port is shown     *)
(* where the caller moved it, and no other stage has moved.                *)
THEOREM MovesAreShown == Spec => MovesReadBack
<1> DEFINE ReadBack(i, w) ==
      /\ demand(stored').stages[i].status = w
      /\ \A j \in DOMAIN stored.stages \ {i} :
            demand(stored').stages[j] = demand(stored).stages[j]
<1>1. ASSUME NEW d
      PROVE  demand(d).stages = [i \in DOMAIN d.stages |-> stage(d.stages[i])]
  <2>1. PICK key, blocked, awaiting :
            demand(d) = [ dop_status        |-> Word(Core["DopStatus"], d.dop_status),
                          stages            |-> [i \in DOMAIN d.stages |-> stage(d.stages[i])],
                          current_stage_key |-> key,
                          blocked           |-> blocked,
                          awaiting_decision |-> awaiting ]
    BY DemandFields, Zenon
  <2> QED
    BY <2>1
<1>2. ASSUME TypeOK, NEW p \in Port, NEW i \in 1..2,
             NEW w \in {"pending", "running", "blocked", "done"}, Advance(p, i, w)
      PROVE  ReadBack(i, w)
  <2> DEFINE ss == stored.stages
             n == stage_status_value(w)
  <2>1. PICK at \in Date : stored' = WithStage(stored, i, Moved(ss[i], n, at))
    BY <1>2, AdvanceMoves
  <2>2. ss \in [1..2 -> StageMsgs]
    BY <1>2, StoredDemand DEF Advance
  <2> DEFINE m == Moved(ss[i], n, at)
  <2>3. stage(m).status = Word(Core["StageStatus"], n)
    BY DEF stage, Moved
  <2>4. Word(Core["StageStatus"], n) = w
    BY ArrivesAsSent
  <2> HIDE DEF m, n
  <2>5. stored'.stages = [ss EXCEPT ![i] = m]
    BY <2>1 DEF WithStage, m
  <2>6. /\ DOMAIN stored'.stages = 1..2 /\ stored'.stages[i] = m
        /\ \A j \in 1..2 \ {i} : stored'.stages[j] = ss[j]
    BY <2>2, <2>5
  <2>7. DOMAIN ss = 1..2
    BY <2>2
  <2>8. demand(stored').stages[i] = stage(m)
    BY <1>1, <2>6
  <2>9. \A j \in 1..2 \ {i} : demand(stored').stages[j] = demand(stored).stages[j]
    <3> TAKE j \in 1..2 \ {i}
    <3>1. demand(stored).stages[j] = stage(ss[j])
      BY <1>1, <2>7
    <3>2. demand(stored').stages[j] = stage(stored'.stages[j])
      BY <1>1, <2>6
    <3> QED
      BY <2>6, <3>1, <3>2
  <2> QED
    BY <2>3, <2>4, <2>7, <2>8, <2>9
<1>3. TypeOK /\ [Next]_vars =>
          [\A p \in Port, i \in 1..2, w \in {"pending", "running", "blocked", "done"} :
              Advance(p, i, w) => ReadBack(i, w)]_vars
  BY <1>2
<1> QED
  BY CrossingTypes, <1>3, PTL DEF Spec, MovesReadBack
=============================================================================
