------------------------------ MODULE Projects ------------------------------
(***************************************************************************)
(* Capital projects (ProjectsService): the book of a project, the          *)
(* acceptance of its work, and the decisions that need a second person,    *)
(* with those on emergency overrides, which are taken in the same way.     *)
(***************************************************************************)
EXTENDS Integers, Sequences, FiniteSets, FiniteSetsExt

CONSTANTS
    Projects,
    BudgetLines,
    Orders,      \* approved change orders
    Stages,      \* names of stages; advanceStage takes any
    Bookkeepers, \* calls that can be in progress
    MaxHistory,  \* bound of the model: entries of a history
    People,
    Papers,      \* document type keys a pack can require
    Meetings,    \* calls that can be in progress
    ChangeOrders,
    Overrides,
    Signers,     \* users
    Seats        \* decisions that can be in progress

VARIABLES
    project,   \* project[p]: classification, stage, closed, and the two histories
    line,      \* line[b]: classification and planned amount
    order,     \* order[o]: classification and cost of an approved change order
    entry,     \* entry[k]: what call k read and is about to write
    pack,      \* the acceptance pack: its status, what it requires and who signed as what
    attached,  \* types of the documents linked to the project
    meeting,   \* meeting[m]: the write call m is about to make; stale: not on the
               \* status and the signatures it has read
    overtaken, \* history: a call wrote on a pack another had changed since it read
    matter,    \* matter[x]: status, who asked and who decided
    overdue,   \* overrides whose ratification window is over
    seat       \* seat[s]: the decision call s is about to write

-----------------------------------------------------------------------------
(***************************************************************************)
(* The book of a project (ProjectsService): its classification and its     *)
(* stage with their histories, which are read, extended and written back   *)
(* whole, its stages, and its budget lines with the totals made of them.   *)
(***************************************************************************)

bookVars == <<project, line, order, entry>>

Classes == {"capex", "opex", "mixed"}
LineClasses == {"capex", "opex"}
NoProject == [class |-> "none", stage |-> "none", closed |-> FALSE, stages |-> <<>>, turns |-> <<>>]
NoLine == [class |-> "none", amount |-> 0]
NoEntry == [on |-> "none", kind |-> "none", to |-> "none", history |-> <<>>]

BookInit ==
    /\ project = [p \in Projects |-> NoProject]
    /\ line = [b \in BudgetLines |-> NoLine]
    /\ order = [o \in Orders |-> NoLine]
    /\ entry = [k \in Bookkeepers |-> NoEntry]

\* In any stage, and without a date of closing.
CreateProject(p, class, stage) ==
    /\ project[p] = NoProject
    /\ project' = [project EXCEPT ![p] = [class |-> class, stage |-> stage, closed |-> FALSE,
                                          stages |-> <<stage>>, turns |-> <<>>]]
    /\ UNCHANGED <<line, order, entry>>

\* classify: nothing to do when the class is the same; else the history read is extended.
ReadClass(k, p, to) ==
    /\ entry[k] = NoEntry
    /\ project[p] # NoProject /\ project[p].class # to
    /\ Len(project[p].turns) < MaxHistory
    /\ entry' = [entry EXCEPT ![k] = [on |-> p, kind |-> "class", to |-> to,
                     history |-> Append(project[p].turns, [from |-> project[p].class, to |-> to])]]
    /\ UNCHANGED <<project, line, order>>

\* mutant: the history that is there at the time is extended, with the class read before
WriteClassTwice(k) ==
    LET p == entry[k].on IN
    /\ entry[k].kind = "class"
    /\ project' = [project EXCEPT ![p].class = entry[k].to,
                                  ![p].turns = Append(@, entry[k].history[Len(entry[k].history)])]
    /\ entry' = [entry EXCEPT ![k] = NoEntry]
    /\ UNCHANGED <<line, order>>

WriteClass(k) ==
    LET p == entry[k].on IN
    /\ entry[k].kind = "class"
    /\ project' = [project EXCEPT ![p].class = entry[k].to, ![p].turns = entry[k].history]
    /\ entry' = [entry EXCEPT ![k] = NoEntry]
    /\ UNCHANGED <<line, order>>

ReadStage(k, p, to) ==
    /\ entry[k] = NoEntry
    /\ project[p] # NoProject
    /\ Len(project[p].stages) < MaxHistory
    /\ entry' = [entry EXCEPT ![k] = [on |-> p, kind |-> "stage", to |-> to,
                     history |-> Append(project[p].stages, to)]]
    /\ UNCHANGED <<project, line, order>>

\* Any stage follows any other; leaving closed reopens the project.
AdvanceStage(k) ==
    LET p == entry[k].on IN
    /\ entry[k].kind = "stage"
    /\ project' = [project EXCEPT ![p].stage = entry[k].to, ![p].stages = entry[k].history,
                                  ![p].closed = entry[k].to = "closed"]
    /\ entry' = [entry EXCEPT ![k] = NoEntry]
    /\ UNCHANGED <<line, order>>

AddBudgetLine(b, class, amount) ==
    /\ line[b] = NoLine
    /\ line' = [line EXCEPT ![b] = [class |-> class, amount |-> amount]]
    /\ UNCHANGED <<project, order, entry>>

ConvertLineClassification(b, to) ==
    /\ line[b] # NoLine
    /\ line' = [line EXCEPT ![b].class = to]
    /\ UNCHANGED <<project, order, entry>>

\* An approved change order; its class is not checked and its cost may be negative.
ApproveOrder(o, class, amount) ==
    /\ order[o] = NoLine
    /\ order' = [order EXCEPT ![o] = [class |-> class, amount |-> amount]]
    /\ UNCHANGED <<project, line, entry>>

BookNext ==
    \/ \E p \in Projects :
           \/ \E class \in Classes, stage \in Stages : CreateProject(p, class, stage)
           \/ \E k \in Bookkeepers :
                  \/ \E to \in Classes : ReadClass(k, p, to)
                  \/ \E to \in Stages : ReadStage(k, p, to)
    \/ \E k \in Bookkeepers : WriteClass(k) \/ AdvanceStage(k)
    \/ \E b \in BudgetLines, class \in LineClasses :
           \/ AddBudgetLine(b, class, 2)
           \/ ConvertLineClassification(b, class)
    \/ \E o \in Orders, class \in Classes, amount \in {-1, 3} : ApproveOrder(o, class, amount)
-----------------------------------------------------------------------------
(***************************************************************************)
(* The handover of a capital project (ProjectsService): the acceptance     *)
(* pack, the documents it requires, and the roles that sign it.  Every     *)
(* call decides on a row it has read and writes it by id.                  *)
(***************************************************************************)

packVars == <<pack, attached, meeting, overtaken>>

Signatories == {"contractor", "manager", "chief_engineer", "owner"}
Required == {"contractor", "manager", "chief_engineer"}
Open == {"submitted", "partially_signed"}

Nobody == [r \in Signatories |-> "none"]
NoPack == [status |-> "none", requires |-> {}, signed |-> Nobody]
Adjourned == [op |-> "idle", by |-> "none", as |-> "none", status |-> "none", keys |-> {}, stale |-> FALSE]

PackInit ==
    /\ pack = NoPack
    /\ attached = {}
    /\ meeting = [m \in Meetings |-> Adjourned]
    /\ overtaken = FALSE
-----------------------------------------------------------------------------
(* The acceptance pack *)

\* What is required can be changed in any status.
UpsertAcceptancePack(keys) ==
    /\ pack' = [pack EXCEPT !.requires = keys, !.status = IF @ = "none" THEN "draft" ELSE @]
    /\ UNCHANGED <<attached, meeting, overtaken>>

AttachDocument(k) ==
    /\ attached' = attached \cup {k}
    /\ UNCHANGED <<pack, meeting, overtaken>>

DetachDocument(k) ==
    /\ attached' = attached \ {k}
    /\ UNCHANGED <<pack, meeting, overtaken>>

\* The call m has read the pack.
Sit(m, call) ==
    /\ meeting[m] = Adjourned
    /\ meeting' = [meeting EXCEPT ![m] = call]
    /\ UNCHANGED <<pack, attached, overtaken>>

\* It writes the pack by id, whatever the status is by now.
Conclude(m, row) ==
    /\ pack' = row
    /\ overtaken' = (overtaken \/ meeting[m].stale)
    /\ meeting' = [n \in Meetings |->
           IF n = m \/ meeting[n] = Adjourned THEN Adjourned
           ELSE [meeting[n] EXCEPT !.stale = @ \/ row.status # pack.status \/ row.signed # pack.signed]]
    /\ UNCHANGED attached

ReadToSubmit(m) ==
    /\ pack.status = "draft"
    /\ Sit(m, [op |-> "check", by |-> "none", as |-> "none", status |-> "submitted",
                keys |-> pack.requires, stale |-> FALSE])

\* The documents are looked up after the pack.
CheckDocuments(m) ==
    /\ meeting[m].op = "check"
    /\ meeting' = [meeting EXCEPT ![m] =
           IF meeting[m].keys \subseteq attached THEN [meeting[m] EXCEPT !.op = "submit"] ELSE Adjourned]
    /\ UNCHANGED <<pack, attached, overtaken>>

SubmitAcceptancePack(m) ==
    /\ meeting[m].op = "submit"
    /\ Conclude(m, [pack EXCEPT !.status = "submitted"])

\* The status that follows from the signatures read; the comment at projects.service.ts:481
\* says all four, the code asks for three of them.
Signing(by, as) ==
    LET next == [pack.signed EXCEPT ![as] = by]
        all == \A r \in Required : next[r] # "none"
    IN [op |-> "sign", by |-> by, as |-> as, keys |-> {}, stale |-> FALSE,
        status |-> IF all THEN "accepted" ELSE "partially_signed"]

\* mutant: one user may sign in two roles
ReadToSignTwice(m, by, as) ==
    /\ pack.status \in Open
    /\ Sit(m, Signing(by, as))

\* One user cannot sign in two roles.
ReadToSign(m, by, as) ==
    /\ pack.status \in Open
    /\ \A r \in Signatories \ {as} : pack.signed[r] # by
    /\ Sit(m, Signing(by, as))

\* The signature of its own role alone
Sign(m) ==
    /\ meeting[m].op = "sign"
    /\ Conclude(m, [pack EXCEPT !.status = meeting[m].status, !.signed[meeting[m].as] = meeting[m].by])

ReadToReject(m) ==
    /\ pack.status \in Open
    /\ Sit(m, [op |-> "reject", by |-> "none", as |-> "none", status |-> "rejected",
                keys |-> {}, stale |-> FALSE])

RejectAcceptancePack(m) ==
    /\ meeting[m].op = "reject"
    /\ Conclude(m, [pack EXCEPT !.status = "rejected"])

PackNext ==
    \/ \E m \in Meetings :
           \/ ReadToSubmit(m) \/ CheckDocuments(m) \/ SubmitAcceptancePack(m)
           \/ \E p \in People, r \in Signatories : ReadToSign(m, p, r)
           \/ Sign(m)
           \/ ReadToReject(m) \/ RejectAcceptancePack(m)
    \/ \E keys \in SUBSET Papers : UpsertAcceptancePack(keys)
    \/ \E k \in Papers : AttachDocument(k) \/ DetachDocument(k)
-----------------------------------------------------------------------------
(***************************************************************************)
(* Decisions that need a second person: the change orders of a project     *)
(* (ProjectsService) and emergency overrides (EmergencyOverridesService),  *)
(* which also lapse when nobody ratifies them in time.  The status is      *)
(* checked on a row that was read, and written by id.                      *)
(***************************************************************************)

decisionVars == <<matter, overdue, seat>>

Matters == ChangeOrders \cup Overrides
Vacant == [on |-> "none", by |-> "none", decision |-> "none"]

Pending(x) == IF x \in Overrides THEN "pending_ratification" ELSE "pending"

DecisionInit ==
    /\ matter = [x \in Matters |-> [status |-> "none", asked |-> "none", decided |-> "none"]]
    /\ overdue = {}
    /\ seat = [s \in Seats |-> Vacant]

\* createChangeOrder and invoke
Ask(x, u) ==
    /\ matter[x].status = "none"
    /\ matter' = [matter EXCEPT ![x] = [status |-> Pending(x), asked |-> u, decided |-> "none"]]
    /\ UNCHANGED <<overdue, seat>>

\* decideChangeOrder and ratify, whose window is not looked at: only markLapsed ends it.
ReadMatter(s, x, u, decision) ==
    /\ seat[s] = Vacant
    /\ matter[x].status = Pending(x)
    /\ matter[x].asked # u
    /\ seat' = [seat EXCEPT ![s] = [on |-> x, by |-> u, decision |-> decision]]
    /\ UNCHANGED <<matter, overdue>>

Decide(s) ==
    LET x == seat[s].on IN
    /\ x # "none"
    /\ matter' = [matter EXCEPT ![x].status = seat[s].decision, ![x].decided = seat[s].by]
    /\ seat' = [seat EXCEPT ![s] = Vacant]
    /\ UNCHANGED overdue

PassWindow(x) ==
    /\ matter[x].status # "none"
    /\ overdue' = overdue \cup {x}
    /\ UNCHANGED <<matter, seat>>

\* markLapsed is one conditional update.
MarkLapsed ==
    /\ matter' = [x \in Matters |->
           IF x \in overdue /\ matter[x].status = "pending_ratification"
           THEN [status |-> "lapsed", asked |-> matter[x].asked, decided |-> matter[x].decided]
           ELSE matter[x]]
    /\ UNCHANGED <<overdue, seat>>

DecisionNext ==
    \/ \E x \in Matters, u \in Signers :
           \/ Ask(x, u)
           \/ \E s \in Seats, d \in IF x \in Overrides THEN {"ratified", "rejected"}
                                    ELSE {"approved", "rejected"} : ReadMatter(s, x, u, d)
    \/ \E s \in Seats : Decide(s)
    \/ \E x \in Overrides : PassWindow(x)
    \/ MarkLapsed
-----------------------------------------------------------------------------
vars == <<bookVars, packVars, decisionVars>>

Init == BookInit /\ PackInit /\ DecisionInit

\* The parts share no rows; a step is one of either.
Next ==
    \/ BookNext /\ UNCHANGED <<packVars, decisionVars>>
    \/ PackNext /\ UNCHANGED <<bookVars, decisionVars>>
    \/ DecisionNext /\ UNCHANGED <<bookVars, packVars>>

Spec == Init /\ [][Next]_vars
-----------------------------------------------------------------------------
\* rollup
Total(rows, class) == MapThenSumSet(LAMBDA r : rows[r].amount, {r \in DOMAIN rows : rows[r].class = class})
TotalPlanned == Total(line, "capex") + Total(line, "opex") + Total(order, "capex") + Total(order, "opex")
Everything(rows) == MapThenSumSet(LAMBDA r : rows[r].amount, DOMAIN rows)

BookTypeOK ==
    /\ \A p \in Projects : project[p].class \in Classes \cup {"none"}
    /\ \A k \in Bookkeepers : entry[k].on \in Projects \cup {"none"}

\* projects.service.ts:46-196 and :267-302: however calls overlap, the stage is the last of
\* its history, and a project has the date of its closing exactly in the stage closed, but
\* for one created in that stage, which has none; the conversions form a chain that ends at
\* the present class; and the planned total leaves nothing out but the change orders
\* classed as mixed, whichever lines were converted.
BooksBalance ==
    /\ \A p \in Projects : project[p] # NoProject =>
           LET turns == project[p].turns IN
           /\ project[p].stage = project[p].stages[Len(project[p].stages)]
           /\ project[p].closed <=> project[p].stage = "closed" /\ Len(project[p].stages) > 1
           /\ \A i \in 1 .. Len(turns) - 1 : turns[i].to = turns[i + 1].from
           /\ turns # <<>> => turns[Len(turns)].to = project[p].class
    /\ TotalPlanned = Everything(line) + Everything(order) - Total(order, "mixed")

PackTypeOK ==
    /\ pack.status \in {"none", "draft", "submitted", "partially_signed", "accepted", "rejected"}
    /\ pack.signed \in [Signatories -> People \cup {"none"}]
    /\ attached \subseteq Papers
    /\ \A m \in Meetings : meeting[m].op \in {"idle", "check", "submit", "sign", "reject"}

\* projects.service.ts:390-520: an accepted pack bears the three required signatures (the
\* comment at :481 has all four) whatever submissions, signatures and rejections overlap.  As long as none of them wrote
\* on a pack that another had changed since it read, the signatures are of different users,
\* and a pack that bears the three is accepted, and stays so.
AcceptedByThree ==
    LET all == \A r \in Required : pack.signed[r] # "none"
        signers == {pack.signed[r] : r \in Signatories} \ {"none"}
        roles == {r \in Signatories : pack.signed[r] # "none"}
    IN /\ pack.status = "accepted" => all
       /\ ~overtaken => /\ Cardinality(signers) = Cardinality(roles)
                        /\ all => pack.status = "accepted"

DecisionTypeOK ==
    /\ \A x \in Matters :
           /\ matter[x].status \in {"none", Pending(x), "approved", "ratified", "rejected", "lapsed"}
           /\ {matter[x].asked, matter[x].decided} \subseteq Signers \cup {"none"}
    /\ overdue \subseteq Overrides
    /\ \A s \in Seats : seat[s].on \in Matters \cup {"none"}

\* projects.service.ts:340-351 and emergency-overrides.service.ts:58-81: whatever calls
\* overlap, a row has a decider exactly when it is neither pending nor lapsed, and the
\* decider is not who asked.
DecidedByAnother ==
    \A x \in Matters :
        /\ matter[x].decided # "none" => matter[x].decided # matter[x].asked
        /\ matter[x].decided = "none" <=> matter[x].status \in {"none", Pending(x), "lapsed"}

TypeOK == BookTypeOK /\ PackTypeOK /\ DecisionTypeOK
=============================================================================
