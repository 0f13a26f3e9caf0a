---------------------------- MODULE PpmProgramme ----------------------------
(***************************************************************************)
(* What is to be maintained in a building: its programme of maintenance,   *)
(* and the obligations that apply to it.                                   *)
(***************************************************************************)
EXTENDS FiniteSets, Integers

CONSTANTS
    Grounds,    \* buildings
    Duties,     \* obligation templates of the tenant
    Units,      \* unit ids
    PlanItems,  \* plan item rows
    Templates,  \* template rows
    Assets,
    AssetSite,  \* the building of each asset
    Planners,   \* calls that can be in progress
    Demands,    \* obligation templates
    Rule,       \* Rule[o]: the operator and the value its floors are compared with
    Storeys,    \* what a building says of its floors; -1 when it says nothing
    Evaluations \* calls that can be in progress

VARIABLES
    plan,       \* plan[i]: the row of item i, or NoItem
    templates,  \* templates[t]: the building of template row t, "none" when there is no such row
    exempt,     \* <<building, obligation>> with a not_applicable mark
    planning,   \* planning[s]: the statement call s is at, with what it has read
    stray,      \* history: templates left without an item by a call cut short or by a mark
    storeys,    \* the building's floors
    auto,       \* obligations with an automatic row, all active
    mark,       \* obligations with the wizard's row, not_applicable
    flow,       \* flow[o]: the plan item of the obligation: none, pending or managed
    evaluation, \* evaluation[s]: the templates call s has left, with the floors it read
    asOf        \* history: the floors of the evaluations that came to their end

-----------------------------------------------------------------------------
(***************************************************************************)
(* The maintenance programme of the buildings of one tenant (PpmService):  *)
(* templates and the plan items that schedule them, the obligations marked *)
(* as not applicable, the baseline that brings an item into the main flow, *)
(* and the items suggested when an asset is created.  A handler is the     *)
(* sequence of its statements; there is no transaction around them.        *)
(***************************************************************************)

planVars == <<plan, templates, exempt>>
programmeVars == <<planVars, planning, stray>>

Scopes == {"building_common", "unit_scoped"}
NoItem == [template |-> "none"]
Idle == [op |-> "idle", template |-> "none", item |-> "none"]

ProgrammeInit ==
    /\ plan = [i \in PlanItems |-> NoItem]
    /\ templates = [t \in Templates |-> "none"]
    /\ exempt = {}
    /\ planning = [s \in Planners |-> Idle]
    /\ stray = {}

Rows == {i \in PlanItems : plan[i] # NoItem}
Of(b, o) == {i \in Rows : plan[i].building = b /\ plan[i].duty = o}
Key(i) == <<plan[i].building, plan[i].duty, plan[i].scope, plan[i].unit>>
Bare(t, gone) == ~\E i \in Rows \ gone : plan[i].template = t
At(s, op) == planning[s].op = op
Goto(s, call) == planning' = [planning EXCEPT ![s] = call]
Return(s) == Goto(s, Idle)

\* migrations-sql/001_ppm_plan_item_unique.sql
Taken(key) == \E i \in Rows : Key(i) = key

Without(gone) == plan' = [i \in PlanItems |-> IF i \in gone THEN NoItem ELSE plan[i]]

\* Deleting a template takes every item of it along, in whatever building.
DropTemplate(t) ==
    /\ templates' = [templates EXCEPT ![t] = "none"]
    /\ Without({i \in Rows : plan[i].template = t})

InsertItem(key, t, a, baseline) ==
    \E i \in PlanItems :
        /\ plan[i] = NoItem
        /\ \A s \in Planners : planning[s].item # i
        /\ plan' = [plan EXCEPT ![i] =
               [building |-> key[1], duty |-> key[2], scope |-> key[3], unit |-> key[4],
                template |-> t, asset |-> a, baseline |-> baseline]]
-----------------------------------------------------------------------------
(* createProgram, wizardApply and seedPendingPlanItemsForBuilding: the template is
   written first, then its item *)

NewTemplate(s, key, by, todo) ==
    \E t \in Templates :
        /\ templates[t] = "none"
        /\ \A r \in Planners : planning[r].template # t
        /\ templates' = [templates EXCEPT ![t] = key[1]]
        /\ Goto(s, [op |-> "item", template |-> t, item |-> "none", key |-> key, by |-> by, todo |-> todo])
        /\ UNCHANGED <<plan, exempt, stray>>

CreateProgram(s, key) ==
    /\ At(s, "idle")
    /\ key[3] = "unit_scoped" => key[4] # "none"
    /\ ~Taken(key)
    /\ NewTemplate(s, key, "program", {})

\* wizardApply, action apply, for an obligation without an item
ApplyNew(s, key) ==
    /\ At(s, "idle")
    /\ Of(key[1], key[2]) = {}
    /\ NewTemplate(s, key, "wizard", {})

\* ... and for one that has items: one of them, in no order, takes the new scope and unit.
ApplyExisting(i, scope, unit) ==
    /\ i \in Rows
    /\ LET key == <<plan[i].building, plan[i].duty, scope, unit>> IN key = Key(i) \/ ~Taken(key)
    /\ plan' = [plan EXCEPT ![i].scope = scope, ![i].unit = unit]
    /\ UNCHANGED <<templates, exempt, planning, stray>>

\* The obligations already planned are read once, before the loop.
Seed(s, b) ==
    /\ At(s, "idle")
    /\ Goto(s, [op |-> "seed", template |-> "none", item |-> "none", building |-> b,
                todo |-> {o \in Duties : ~\E i \in Of(b, o) : plan[i].scope = "building_common"}])
    /\ UNCHANGED <<planVars, stray>>

SeedNext(s) ==
    /\ At(s, "seed")
    /\ \/ \E o \in planning[s].todo :
              NewTemplate(s, <<planning[s].building, o, "building_common", "none">>, "seed",
                          planning[s].todo \ {o})
       \/ planning[s].todo = {} /\ Return(s) /\ UNCHANGED <<planVars, stray>>

\* What a call does once its item is written (ok) or its template taken back.
AfterItem(s, ok) ==
    LET call == planning[s] IN
    IF call.by = "seed"
    THEN Goto(s, [op |-> "seed", template |-> "none", item |-> "none",
                  building |-> call.key[1], todo |-> call.todo])
    ELSE IF call.by = "wizard" /\ ok
    THEN Goto(s, [op |-> "unmark", template |-> "none", item |-> "none",
                  building |-> call.key[1], duty |-> call.key[2]])
    ELSE Return(s)

\* mutant: the template of a refused item is not deleted
WriteItemKeepTemplate(s) ==
    /\ At(s, "item")
    /\ IF Taken(planning[s].key)
       THEN UNCHANGED planVars /\ AfterItem(s, FALSE)
       ELSE /\ InsertItem(planning[s].key, planning[s].template, "none", "pending")
            /\ AfterItem(s, TRUE)
            /\ UNCHANGED <<templates, exempt>>
    /\ UNCHANGED <<stray>>

\* The partial unique indexes refuse a second item; its template is deleted again.
WriteItem(s) ==
    /\ At(s, "item")
    /\ IF Taken(planning[s].key)
       THEN DropTemplate(planning[s].template) /\ AfterItem(s, FALSE) /\ UNCHANGED exempt
       ELSE /\ InsertItem(planning[s].key, planning[s].template, "none", "pending")
            /\ AfterItem(s, TRUE)
            /\ UNCHANGED <<templates, exempt>>
    /\ UNCHANGED <<stray>>

Unmark(s) ==
    /\ At(s, "unmark")
    /\ exempt' = exempt \ {<<planning[s].building, planning[s].duty>>}
    /\ Return(s)
    /\ UNCHANGED <<plan, templates, stray>>
-----------------------------------------------------------------------------
(* wizardApply, actions not_applicable and remove *)

\* Either one item of the obligation is found, in no order, or none.
Find(s, b, o, op, otherwise) ==
    /\ At(s, "idle")
    /\ \/ \E i \in Of(b, o) :
              Goto(s, [op |-> op, template |-> plan[i].template, item |-> i, building |-> b, duty |-> o])
       \/ /\ Of(b, o) = {}
          /\ Goto(s, [op |-> otherwise, template |-> "none", item |-> "none", building |-> b, duty |-> o])
    /\ UNCHANGED <<planVars, stray>>

\* Every item of the obligation goes, and only the found one's template after it.
ClearItems(s) ==
    /\ At(s, "clear")
    /\ LET gone == Of(planning[s].building, planning[s].duty) IN
           /\ Without(gone)
           /\ stray' = stray \cup {plan[i].template : i \in
                  {j \in gone : plan[j].template # planning[s].template /\ Bare(plan[j].template, gone)}}
    /\ Goto(s, [planning[s] EXCEPT !.op = "dropThenMark"])
    /\ UNCHANGED <<templates, exempt>>

\* The delete throws when the item found is gone.
DeleteItem(s) ==
    /\ At(s, "delete")
    /\ IF planning[s].item \in Rows
       THEN Without({planning[s].item}) /\ Goto(s, [planning[s] EXCEPT !.op = "dropThenUnmark"])
       ELSE Return(s) /\ UNCHANGED <<plan>>
    /\ UNCHANGED <<templates, exempt, stray>>

\* deleteMany asks for the building: the template of another one stays.
DropFound(s, op, next) ==
    /\ At(s, op)
    /\ IF templates[planning[s].template] = planning[s].building
       THEN DropTemplate(planning[s].template) /\ stray' = stray \ {planning[s].template}
       ELSE /\ stray' = stray \cup {t \in {planning[s].template} : templates[t] # "none" /\ Bare(t, {})}
            /\ UNCHANGED <<plan, templates>>
    /\ Goto(s, [planning[s] EXCEPT !.op = next, !.template = "none", !.item = "none"])
    /\ UNCHANGED <<exempt>>

Mark(s) ==
    /\ At(s, "mark")
    /\ exempt' = exempt \cup {<<planning[s].building, planning[s].duty>>}
    /\ Return(s)
    /\ UNCHANGED <<plan, templates, stray>>
-----------------------------------------------------------------------------
(* The asset.created subscriber *)

\* The recipes are read from the items of the whole tenant.
Suggest(s, a) ==
    /\ At(s, "idle")
    /\ Goto(s, [op |-> "suggest", template |-> "none", item |-> "none", asset |-> a,
                todo |-> {[template |-> plan[i].template, duty |-> plan[i].duty,
                           scope |-> plan[i].scope] : i \in Rows}])
    /\ UNCHANGED <<planVars, stray>>

\* A recipe the asset has is passed over; a refused insert ends the handler, which
\* swallows the error: the event counts as delivered and is not replayed.
SuggestNext(s) ==
    /\ At(s, "suggest")
    /\ \/ /\ planning[s].todo = {}
          /\ Return(s)
          /\ UNCHANGED plan
       \/ \E r \in planning[s].todo :
              LET a == planning[s].asset
                  key == <<AssetSite[a], r.duty, r.scope, "none">>
                  rest == [planning[s] EXCEPT !.todo = @ \ {r}]
              IN IF \E i \in Rows : plan[i].asset = a /\ plan[i].template = r.template
                 THEN Goto(s, rest) /\ UNCHANGED plan
                 ELSE IF templates[r.template] = "none" \/ Taken(key)
                 THEN Return(s) /\ UNCHANGED plan
                 ELSE InsertItem(key, r.template, a, "pending") /\ Goto(s, rest)
    /\ UNCHANGED <<templates, exempt, stray>>
-----------------------------------------------------------------------------
(* Items *)

Attach(i, a) ==
    /\ i \in Rows
    /\ plan[i].building = AssetSite[a]
    /\ plan[i].asset \in {"none", a}
    /\ plan' = [plan EXCEPT ![i].asset = a]
    /\ UNCHANGED <<templates, exempt, planning, stray>>

Detach(i) ==
    /\ i \in Rows
    /\ plan[i].asset # "none"
    /\ plan' = [plan EXCEPT ![i].asset = "none"]
    /\ UNCHANGED <<templates, exempt, planning, stray>>

\* recordBaseline, alone or as one row of the bulk call: set or unknown, the item is
\* no longer pending and enters the calendar.  The completion record it adds
\* names no item, and the log row it tries to add is refused and forgotten.
RecordBaseline(i) ==
    /\ i \in Rows
    /\ plan' = [plan EXCEPT ![i].baseline = "managed"]
    /\ UNCHANGED <<templates, exempt, planning, stray>>

\* A statement throws, or the process dies: what was written stays.
Throw(s) ==
    /\ ~At(s, "idle")
    /\ stray' = stray \cup {t \in {planning[s].template} \cap Templates :
                                templates[t] # "none" /\ Bare(t, {})}
    /\ Return(s)
    /\ UNCHANGED planVars

Keys == Grounds \X Duties \X Scopes \X (Units \cup {"none"})

ProgrammeNext ==
    \/ \E s \in Planners :
           \/ \E key \in Keys : CreateProgram(s, key) \/ ApplyNew(s, key)
           \/ \E b \in Grounds : Seed(s, b)
           \/ \E b \in Grounds, o \in Duties :
                  Find(s, b, o, "clear", "mark") \/ Find(s, b, o, "delete", "unmark")
           \/ \E a \in Assets : Suggest(s, a)
           \/ SeedNext(s)
           \/ WriteItem(s)
           \/ Unmark(s)
           \/ ClearItems(s)
           \/ DeleteItem(s)
           \/ DropFound(s, "dropThenMark", "mark")
           \/ DropFound(s, "dropThenUnmark", "unmark")
           \/ Mark(s)
           \/ SuggestNext(s)
           \/ Throw(s)
    \/ \E i \in PlanItems, a \in Assets : Attach(i, a)
    \/ \E i \in PlanItems : Detach(i)
    \/ \E i \in PlanItems, scope \in Scopes, unit \in Units \cup {"none"} : ApplyExisting(i, scope, unit)
    \/ \E i \in PlanItems : RecordBaseline(i)
-----------------------------------------------------------------------------
(***************************************************************************)
(* Which obligations a building has (ApplicabilityService), and what the   *)
(* programme wizard shows of each (PpmService.wizardCatalog): an automatic *)
(* row says an obligation applies, a row of the wizard's says it does not, *)
(* and a plan item in the main flow says it is taken care of.              *)
(***************************************************************************)

obligationVars == <<storeys, auto, mark, flow, evaluation, asOf>>

ObligationInit ==
    /\ storeys = -1
    /\ auto = {}
    /\ mark = {}
    /\ flow = [o \in Demands |-> "none"]
    /\ evaluation = [s \in Evaluations |-> [op |-> "idle"]]
    /\ asOf = {}

\* evaluate: an attribute the building has not meets nothing, an unknown operator neither.
Evaluate(rule, v) ==
    /\ v # -1
    /\ CASE rule.op = ">" -> v > rule.value
         [] rule.op = ">=" -> v >= rule.value
         [] rule.op = "<" -> v < rule.value
         [] rule.op = "<=" -> v <= rule.value
         [] rule.op \in {"=", "=="} -> v = rule.value
         [] rule.op = "!=" -> v # rule.value
         [] OTHER -> FALSE

\* A template without rules applies to every building.
Applies(o, v) == Rule[o].op = "none" \/ Evaluate(Rule[o], v)
-----------------------------------------------------------------------------
(* applyTemplatesToBuilding *)

\* The floors are read once.
BuildingContext(s) ==
    /\ evaluation[s].op = "idle"
    /\ evaluation' = [evaluation EXCEPT ![s] = [op |-> "apply", read |-> storeys, todo |-> Demands]]
    /\ UNCHANGED <<storeys, auto, mark, flow, asOf>>

\* mutant: the first template that does not apply ends the loop
ApplyUntilSkipped(s) ==
    /\ evaluation[s].op = "apply"
    /\ \E o \in evaluation[s].todo :
           /\ auto' = IF Applies(o, evaluation[s].read) THEN auto \cup {o} ELSE auto
           /\ evaluation' = [evaluation EXCEPT ![s].todo =
                  IF Applies(o, evaluation[s].read) THEN @ \ {o} ELSE {}]
    /\ UNCHANGED <<storeys, mark, flow, asOf>>

\* A template that does not apply is passed over; a row it got before stays.
ApplyTemplate(s) ==
    /\ evaluation[s].op = "apply"
    /\ \E o \in evaluation[s].todo :
           /\ auto' = IF Applies(o, evaluation[s].read) THEN auto \cup {o} ELSE auto
           /\ evaluation' = [evaluation EXCEPT ![s].todo = @ \ {o}]
    /\ UNCHANGED <<storeys, mark, flow, asOf>>

EndEvaluation(s) ==
    /\ evaluation[s].op = "apply"
    /\ evaluation[s].todo = {}
    /\ asOf' = asOf \cup {evaluation[s].read}
    /\ evaluation' = [evaluation EXCEPT ![s] = [op |-> "idle"]]
    /\ UNCHANGED <<storeys, auto, mark, flow>>

CutEvaluation(s) ==
    /\ evaluation[s].op = "apply"
    /\ evaluation' = [evaluation EXCEPT ![s] = [op |-> "idle"]]
    /\ UNCHANGED <<storeys, auto, mark, flow, asOf>>
-----------------------------------------------------------------------------
(* The wizard; its statements are in PpmProgramme *)

MarkNotApplicable(o) ==
    /\ mark' = mark \cup {o}
    /\ flow' = [flow EXCEPT ![o] = "none"]
    /\ UNCHANGED <<storeys, auto, evaluation, asOf>>

\* Applying an obligation anew or removing it takes the mark away.
ApplyDemand(o) ==
    /\ flow[o] = "none"
    /\ flow' = [flow EXCEPT ![o] = "pending"]
    /\ mark' = mark \ {o}
    /\ UNCHANGED <<storeys, auto, evaluation, asOf>>

RemoveDemand(o) ==
    /\ flow' = [flow EXCEPT ![o] = "none"]
    /\ mark' = mark \ {o}
    /\ UNCHANGED <<storeys, auto, evaluation, asOf>>

\* createProgram and the seed of pending items leave the mark where it is.
CreateItem(o) ==
    /\ flow[o] = "none"
    /\ flow' = [flow EXCEPT ![o] = "pending"]
    /\ UNCHANGED <<storeys, auto, mark, evaluation, asOf>>

Manage(o) ==
    /\ flow[o] = "pending"
    /\ flow' = [flow EXCEPT ![o] = "managed"]
    /\ UNCHANGED <<storeys, auto, mark, evaluation, asOf>>

\* wizardCatalog: the rows of an obligation come in no order, and the last one counts.
WizardStatus(o) ==
    IF flow[o] = "managed" THEN {"applied"}
    ELSE {"not_applicable" : m \in mark \cap {o}}
         \cup IF o \in auto \/ o \notin mark THEN {"pending"} ELSE {}

ChangeStoreys(v) == storeys' = v /\ UNCHANGED <<auto, mark, flow, evaluation, asOf>>

ObligationNext ==
    \/ \E s \in Evaluations :
           BuildingContext(s) \/ ApplyTemplate(s) \/ EndEvaluation(s) \/ CutEvaluation(s)
    \/ \E o \in Demands :
           MarkNotApplicable(o) \/ ApplyDemand(o) \/ RemoveDemand(o) \/ CreateItem(o) \/ Manage(o)
    \/ \E v \in Storeys : ChangeStoreys(v)
-----------------------------------------------------------------------------
vars == <<programmeVars, obligationVars>>

Init == ProgrammeInit /\ ObligationInit

\* The parts share no rows; a step is one of either.
Next ==
    \/ ProgrammeNext /\ UNCHANGED obligationVars
    \/ ObligationNext /\ UNCHANGED programmeVars

Spec == Init /\ [][Next]_vars
-----------------------------------------------------------------------------
ProgrammeTypeOK ==
    /\ plan \in [PlanItems -> {NoItem} \cup
           [building : Grounds, duty : Duties, scope : Scopes, unit : Units \cup {"none"},
            template : Templates, asset : Assets \cup {"none"}, baseline : {"pending", "managed"}]]
    /\ templates \in [Templates -> Grounds \cup {"none"}]
    /\ exempt \subseteq Grounds \X Duties
    /\ stray \subseteq Templates
    /\ \A s \in Planners : planning[s].op \in
           {"idle", "item", "unmark", "seed", "clear", "delete", "dropThenMark", "dropThenUnmark",
            "mark", "suggest"}

\* ppm.service.ts:573, :1726 and :1912: a template has an item to schedule it unless a
\* call on it is in progress, was cut short, or marked an obligation with several items:
\* two calls that create the same programme leave one template, not two.
TemplatesHaveItems ==
    \A t \in Templates :
        templates[t] = "none" \/ ~Bare(t, {}) \/ t \in stray \/ \E s \in Planners : planning[s].template = t

ObligationTypeOK ==
    /\ storeys \in Storeys
    /\ auto \cup mark \subseteq Demands
    /\ flow \in [Demands -> {"none", "pending", "managed"}]
    /\ \A s \in Evaluations : evaluation[s].op \in {"idle", "apply"}
    /\ asOf \subseteq Storeys

\* applicability.service.ts:50-89, ppm.service.ts:1420-1436: what applied when an evaluation
\* came to its end has its row, and no row is of an obligation that never applied; the wizard
\* shows an obligation as not applicable only if it was marked, and always then, unless it is
\* managed or has an automatic row too.
ObligationsAreKnown ==
    /\ \A o \in Demands, v \in asOf : Applies(o, v) => o \in auto
    /\ \A o \in auto : \E v \in Storeys : Applies(o, v)
    /\ \A o \in Demands :
           /\ "not_applicable" \in WizardStatus(o) => o \in mark
           /\ o \in mark \ auto /\ flow[o] # "managed" => WizardStatus(o) = {"not_applicable"}

TypeOK == ProgrammeTypeOK /\ ObligationTypeOK
=============================================================================
