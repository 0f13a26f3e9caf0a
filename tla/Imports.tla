------------------------------ MODULE Imports ------------------------------
(***************************************************************************)
(* Import jobs (ImportsService): a previewed workbook is committed as      *)
(* obligation templates with their parts (bases and applicability rules),  *)
(* a bundle as documents, line by line and without a transaction; a        *)
(* committed job is rolled back from the list its commit left.             *)
(***************************************************************************)
EXTENDS Naturals, FiniteSets

CONSTANTS
    Workbooks, Bundles,   \* import jobs of the two kinds
    LastLine,             \* lines of every job: 1 .. LastLine
    Clerks                \* calls; each clerk calls once

VARIABLES
    job,         \* job[j]: status, errors of its preview, and the parts its commit listed
    parts,       \* parts[j][n]: calls whose parts the template of line n has
    templates,   \* templates[j]: lines whose template exists
    documents,   \* documents[j][n]: documents of line n of a bundle
    planned,     \* <<j, n>> referenced by a plan item
    call,        \* call[c]: operation, job, step and line of the call of clerk c
    cut, stripped, tangled, orphaned   \* history: jobs, see Calm and OnlyWhenDone

vars == <<job, parts, templates, documents, planned, call, cut, stripped, tangled, orphaned>>

Batches == Workbooks \cup Bundles
Lines == 1 .. LastLine
NotCalled == [op |-> "none", on |-> "none", at |-> "none", line |-> 0]
Done == [op |-> "done", on |-> "none", at |-> "none", line |-> 0]

Init ==
    /\ job = [j \in Batches |-> [status |-> "none", errors |-> FALSE, lists |-> {}, listed |-> {}]]
    /\ parts = [j \in Batches |-> [n \in Lines |-> {}]]
    /\ templates = [j \in Batches |-> {}]
    /\ documents = [j \in Batches |-> [n \in Lines |-> 0]]
    /\ planned = {}
    /\ call = [c \in Clerks |-> NotCalled]
    /\ cut = {} /\ stripped = {} /\ tangled = {} /\ orphaned = {}

Active(j) == {c \in Clerks : call[c].on = j}
At(c, op, step) == call[c].op = op /\ call[c].at = step
Goto(c, op, j, step, n) ==
    call' = [call EXCEPT ![c] = [op |-> op, on |-> j, at |-> step, line |-> n]]

\* preview and pdfBundlePreview
Preview(j, errors) ==
    /\ job[j].status = "none"
    /\ job' = [job EXCEPT ![j] = [status |-> "preview_ready", errors |-> errors, lists |-> {}, listed |-> {}]]
    /\ UNCHANGED <<parts, templates, documents, planned, call, cut, stripped, tangled, orphaned>>

\* commit: the checks.  It takes a bundle too, has no line for it, and looks only at
\* the errors of a workbook.
StartCommit(c, j) ==
    /\ call[c] = NotCalled
    /\ job[j].status = "preview_ready"
    /\ j \in Workbooks => ~job[j].errors
    /\ Goto(c, "commit", j, IF j \in Workbooks THEN "upsert" ELSE "finish", 1)
    /\ tangled' = IF Active(j) # {} THEN tangled \cup {j} ELSE tangled
    /\ UNCHANGED <<job, parts, templates, documents, planned, cut, stripped, orphaned>>

\* The template is upserted by its seedKey and loses the parts it had.
UpsertTemplate(c) ==
    LET j == call[c].on n == call[c].line IN
    /\ At(c, "commit", "upsert")
    /\ templates' = [templates EXCEPT ![j] = @ \cup {n}]
    /\ parts' = [parts EXCEPT ![j][n] = {}]
    /\ Goto(c, "commit", j, "parts", n)
    /\ UNCHANGED <<job, documents, planned, cut, stripped, tangled, orphaned>>

\* Its parts are created; they cannot be once the template is gone again.
CreateParts(c) ==
    LET j == call[c].on n == call[c].line IN
    /\ At(c, "commit", "parts")
    /\ n \in templates[j]
    /\ parts' = [parts EXCEPT ![j][n] = @ \cup {c}]
    /\ IF n = LastLine THEN Goto(c, "commit", j, "finish", n) ELSE Goto(c, "commit", j, "upsert", n + 1)
    /\ UNCHANGED <<job, templates, documents, planned, cut, stripped, tangled, orphaned>>

\* The job is marked committed with the rows this call created (lists: whose parts;
\* listed: which templates).
FinishCommit(c) ==
    LET j == call[c].on IN
    /\ At(c, "commit", "finish")
    /\ job' = [job EXCEPT ![j] = [status |-> "committed", errors |-> @.errors,
                  lists |-> {c}, listed |-> IF j \in Workbooks THEN Lines ELSE {}]]
    /\ call' = [call EXCEPT ![c] = Done]
    /\ UNCHANGED <<parts, templates, documents, planned, cut, stripped, tangled, orphaned>>

\* pdfBundleCommit
StartBundle(c, j) ==
    /\ call[c] = NotCalled
    /\ job[j].status = "preview_ready"
    /\ ~job[j].errors
    /\ Goto(c, "bundle", j, "document", 1)
    /\ tangled' = IF Active(j) # {} THEN tangled \cup {j} ELSE tangled
    /\ UNCHANGED <<job, parts, templates, documents, planned, cut, stripped, orphaned>>

\* One document with its link and completion record
CreateDocument(c) ==
    LET j == call[c].on n == call[c].line IN
    /\ At(c, "bundle", "document")
    /\ documents' = [documents EXCEPT ![j][n] = @ + 1]
    /\ IF n = LastLine THEN Goto(c, "bundle", j, "finish", n) ELSE Goto(c, "bundle", j, "document", n + 1)
    /\ UNCHANGED <<job, parts, templates, planned, cut, stripped, tangled, orphaned>>

FinishBundle(c) ==
    LET j == call[c].on IN
    /\ At(c, "bundle", "finish")
    /\ job' = [job EXCEPT ![j].status = "committed"]
    /\ call' = [call EXCEPT ![c] = Done]
    /\ UNCHANGED <<parts, templates, documents, planned, cut, stripped, tangled, orphaned>>

\* A plan item of the template is added or removed (PpmService)
Plan(j, n) ==
    /\ n \in templates[j] \/ <<j, n>> \in planned
    /\ planned' = IF <<j, n>> \in planned THEN planned \ {<<j, n>>} ELSE planned \cup {<<j, n>>}
    /\ tangled' = IF \E c \in Active(j) : At(c, "rollback", "delete") THEN tangled \cup {j} ELSE tangled
    /\ UNCHANGED <<job, parts, templates, documents, call, cut, stripped, orphaned>>

\* rollback: the checks, then the parts of the list are deleted.  The list of a bundle
\* names no template, rule or basis.
StartRollback(c, j) ==
    /\ call[c] = NotCalled
    /\ job[j].status = "committed"
    /\ parts' = [parts EXCEPT ![j] = [n \in Lines |-> parts[j][n] \ job[j].lists]]
    /\ Goto(c, "rollback", j, IF job[j].listed = {} THEN "finish" ELSE "check", 0)
    /\ tangled' = IF Active(j) # {} THEN tangled \cup {j} ELSE tangled
    /\ UNCHANGED <<job, templates, documents, planned, cut, stripped, orphaned>>

\* mutant: plan items do not stop a rollback
RefuseNothing(j) == FALSE

\* Plan items of the listed templates
Blocked(j) == \E n \in job[j].listed : <<j, n>> \in planned

\* A rollback that finds plan items stops here; the parts are gone.
CheckPlanItems(c) ==
    LET j == call[c].on IN
    /\ At(c, "rollback", "check")
    /\ IF Blocked(j)
       THEN /\ stripped' = stripped \cup {j}
            /\ call' = [call EXCEPT ![c] = Done]
       ELSE /\ Goto(c, "rollback", j, "delete", 0)
            /\ UNCHANGED stripped
    /\ UNCHANGED <<job, parts, templates, documents, planned, cut, tangled, orphaned>>

\* The templates go, and by cascade their parts and plan items.
DeleteTemplates(c) ==
    LET j == call[c].on IN
    /\ At(c, "rollback", "delete")
    /\ templates' = [templates EXCEPT ![j] = @ \ job[j].listed]
    /\ parts' = [parts EXCEPT ![j] = [n \in Lines |-> {}]]
    /\ orphaned' = IF \E x \in planned : x[1] = j THEN orphaned \cup {j} ELSE orphaned
    /\ planned' = {x \in planned : x[1] # j}
    /\ Goto(c, "rollback", j, "finish", 0)
    /\ UNCHANGED <<job, documents, cut, stripped, tangled>>

FinishRollback(c) ==
    LET j == call[c].on IN
    /\ At(c, "rollback", "finish")
    /\ job' = [job EXCEPT ![j].status = "rolled_back"]
    /\ call' = [call EXCEPT ![c] = Done]
    /\ UNCHANGED <<parts, templates, documents, planned, cut, stripped, tangled, orphaned>>

\* A statement throws, by a fault or because the template is gone.
Throw(c) ==
    LET j == call[c].on IN
    /\ j # "none"
    /\ cut' = cut \cup {j}
    /\ call' = [call EXCEPT ![c] = Done]
    /\ UNCHANGED <<job, parts, templates, documents, planned, stripped, tangled, orphaned>>

Next ==
    \/ \E j \in Batches, errors \in BOOLEAN : Preview(j, errors)
    \/ \E j \in Workbooks, n \in Lines : Plan(j, n)
    \/ \E c \in Clerks :
           \/ \E j \in Batches : StartCommit(c, j) \/ StartRollback(c, j)
           \/ \E j \in Bundles : StartBundle(c, j)
           \/ UpsertTemplate(c) \/ CreateParts(c) \/ FinishCommit(c)
           \/ CreateDocument(c) \/ FinishBundle(c)
           \/ CheckPlanItems(c) \/ DeleteTemplates(c) \/ FinishRollback(c)
           \/ Throw(c)

Spec == Init /\ [][Next]_vars
-----------------------------------------------------------------------------
TypeOK ==
    /\ \A j \in Batches :
           /\ job[j].status \in {"none", "preview_ready", "committed", "rolled_back"}
           /\ templates[j] \subseteq Lines
           /\ \A n \in Lines : parts[j][n] \subseteq Clerks /\ documents[j][n] \in 0 .. Cardinality(Clerks)
    /\ planned \subseteq Workbooks \X Lines
    /\ cut \cup stripped \cup tangled \cup orphaned \subseteq Batches

\* Nobody works on the job, no call on it was cut short and none overlapped another.
Calm(j) == Active(j) = {} /\ j \notin cut \cup tangled

\* imports.service.ts:119-280: with no overlapping and no failing call, a committed
\* workbook has one set of parts on every template, unless a refused rollback has
\* stripped them, and a rolled back one has left nothing; its rollback never takes a
\* plan item along.  A committed bundle has each document once, or none when it went
\* through commit(), and rolling it back removes no document.
ImportIsWhole ==
    \A j \in Batches : Calm(j) =>
        /\ job[j].status = "committed" /\ j \in Workbooks =>
               /\ templates[j] = Lines
               /\ \A n \in Lines : Cardinality(parts[j][n]) = IF j \in stripped THEN 0 ELSE 1
        /\ job[j].status \in {"none", "preview_ready", "rolled_back"} => templates[j] = {}
        /\ j \notin orphaned
        /\ job[j].status \in {"committed", "rolled_back"} =>
               \/ \A n \in Lines : documents[j][n] = 0
               \/ \A n \in Lines : documents[j][n] = 1
=============================================================================
