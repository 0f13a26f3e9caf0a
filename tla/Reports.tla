------------------------------ MODULE Reports ------------------------------
(***************************************************************************)
(* What people are shown of what was done: the trail of audit entries and  *)
(* the state of compliance.                                                *)
(***************************************************************************)
EXTENDS Integers, Sequences, FiniteSets, Functions

CONSTANTS
    Entities,    \* ids of what is written about
    Texts,       \* what a text search can be for; a row matches one
    PageLength,  \* take
    FileLength,  \* how many rows a file has at most
    LastEntry,   \* bound: rows written
    Addresses,   \* buildings
    MaxRowsEach, \* bound: rows of one sort in one building
    MaxTasks,    \* bound: tasks of one sort
    Horizon      \* 30 days, scaled down

VARIABLES
    trail,  \* the rows, oldest first: <<entity, resource, text>>
    search, \* a search under way: filter, offset, the length of the trail when it
            \* began, and the rows it was shown, as positions in the trail
    plans,  \* plans[b][d]: plan items of building b, past their baseline, due in d days
    stuck,  \* tasks that wait for a quote or an approval
    bare    \* closed tasks that ask for evidence and have none

-----------------------------------------------------------------------------
(***************************************************************************)
(* The trail of what was done (AuditService): one row for each write,      *)
(* never changed, and a search that reads it newest first, page by page,   *)
(* while others write.  A page is the rows from an offset on; the columns  *)
(* a search can filter by are the entity, which a row has twice, and a     *)
(* text that is looked for in some of the others.                          *)
(***************************************************************************)

trailVars == <<trail, search>>

NoSearch == [entity |-> "none", text |-> "none", skip |-> 0, began |-> 0, shown |-> {},
             ended |-> FALSE, open |-> FALSE]

TrailInit ==
    /\ trail = <<>>
    /\ search = NoSearch
-----------------------------------------------------------------------------
Insert(row) ==
    /\ Len(trail) < LastEntry
    /\ trail' = Append(trail, row)
    /\ UNCHANGED search

\* Most callers leave the resource out.
Write(e, t) == Insert([entity |-> e, resource |-> "none", text |-> t])

\* transition fills both columns with the entity.
Transition(e, t) == Insert([entity |-> e, resource |-> e, text |-> t])

\* mutant: a row is of the entity when its resource is
MatchesResource(filter, row) ==
    IF filter.text # "none" THEN row.text = filter.text
    ELSE filter.entity \in {"none", row.resource}

\* A text takes the place of the entity: both are the OR of the query.
Matches(filter, row) ==
    IF filter.text # "none" THEN row.text = filter.text
    ELSE filter.entity \in {"none", row.entity, row.resource}

\* The matching rows, as positions in the trail; the newest is the last.
Found(filter) == {i \in DOMAIN trail : Matches(filter, trail[i])}
Newer(filter, i) == {j \in Found(filter) : j > i}

\* take rows of them, newest first, from the offset on
Page(filter, take) ==
    {i \in Found(filter) : Cardinality(Newer(filter, i)) \in filter.skip .. filter.skip + take - 1}

Search(e, t) ==
    /\ ~search.open
    /\ search' = [NoSearch EXCEPT !.entity = e, !.text = t, !.began = Len(trail), !.open = TRUE]
    /\ UNCHANGED trail

\* The reader asks for pages until one is not full.
NextPage ==
    /\ search.open
    /\ ~search.ended
    /\ LET page == Page(search, PageLength) IN
           search' = [search EXCEPT !.shown = @ \cup page, !.skip = @ + PageLength,
                                    !.ended = Cardinality(page) < PageLength]
    /\ UNCHANGED trail

\* The file has the rows from the offset on, as many as the longest page.
ExportCsv(filter) == Page(filter, FileLength)

Close == search.open /\ search' = NoSearch /\ UNCHANGED trail

TrailNext ==
    \/ \E e \in Entities, t \in Texts : Write(e, t) \/ Transition(e, t)
    \/ \E e \in Entities \cup {"none"}, t \in Texts \cup {"none"} : Search(e, t)
    \/ NextPage
    \/ Close
-----------------------------------------------------------------------------
(***************************************************************************)
(* The state of compliance a manager is shown (ComplianceService           *)
(* .getDashboard): counts of plan items by what they are due, percentages  *)
(* that are rounded one by one, and a grade.  Rows come and go one at a    *)
(* time; only how many there are of each sort matters.  Titles and the     *)
(* list of the latest are left out.                                        *)
(***************************************************************************)

boardVars == <<plans, stuck, bare>>

Days == {-1, 0, Horizon, Horizon + 1}

BoardInit ==
    /\ plans = [b \in Addresses |-> [d \in Days |-> 0]]
    /\ stuck = 0
    /\ bare = 0

Plan(b, d, n) ==
    /\ plans[b][d] + n \in 0..MaxRowsEach
    /\ plans' = [plans EXCEPT ![b][d] = @ + n]
    /\ UNCHANGED <<stuck, bare>>

Block(n) == stuck + n \in 0..MaxTasks /\ stuck' = stuck + n /\ UNCHANGED <<plans, bare>>
CloseBare(n) == bare + n \in 0..MaxTasks /\ bare' = bare + n /\ UNCHANGED <<plans, stuck>>

BoardNext ==
    \E n \in {-1, 1} :
        \/ \E b \in Addresses, d \in Days : Plan(b, d, n)
        \/ Block(n)
        \/ CloseBare(n)
-----------------------------------------------------------------------------
vars == <<trailVars, boardVars>>

Init == TrailInit /\ BoardInit

\* The parts share no rows; a step is one of either.
Next ==
    \/ TrailNext /\ UNCHANGED boardVars
    \/ BoardNext /\ UNCHANGED trailVars

Spec == Init /\ [][Next]_vars
-----------------------------------------------------------------------------
TrailTypeOK ==
    /\ Len(trail) <= LastEntry
    /\ search.shown \subseteq DOMAIN trail

\* audit.service.ts:137-228: whoever reads to the last page has been shown every matching row
\* that was there at the start, whatever was written in between (rows can be shown twice); a
\* search by entity shows rows of it alone, unless a text is asked for as well; and the
\* file of a search has the newest rows of it.
SearchesAreComplete ==
    LET old == {i \in 1..search.began : Matches(search, trail[i])}
        file == ExportCsv([search EXCEPT !.skip = 0])
    IN
    /\ search.ended => \A i \in 1..search.began :
           trail[i].entity = search.entity /\ search.text = "none" => i \in search.shown
    /\ search.ended => old \subseteq search.shown
    /\ search.text = "none" /\ search.entity # "none" =>
           \A i \in search.shown : trail[i].entity = search.entity
    /\ \A i \in file, j \in DOMAIN trail \ file :
           Matches(search, trail[j]) => j < i

(* getDashboard *)

\* How many are due in the days ds
Count(b, ds) == SumFunctionOnSet(plans[b], ds)

Overdue == {d \in Days : d < 0}

\* mutant: the last of the thirty days is counted twice
UpcomingAndLater == {d \in Days : d >= 0}

Upcoming == {d \in Days : d >= 0 /\ d <= Horizon}

Compliant == {d \in Days : d > Horizon}

Total(ds) == FoldFunction(+, 0, [b \in Addresses |-> Count(b, ds)])

\* Math.round(100 * n / total), and of nothing the total is one
Percent(n, total) == LET t == IF total = 0 THEN 1 ELSE total IN (200 * n + t) \div (2 * t)

Distribution ==
    LET part(ds) == Percent(Total(ds), Total(Days))
        rest == 100 - part(Compliant) - part(Upcoming) - part(Overdue)
    IN [compliant |-> part(Compliant), warning |-> part(Upcoming), overdue |-> part(Overdue),
        pending |-> IF rest < 0 THEN 0 ELSE rest]

ByBuilding(b, ds) == Percent(Count(b, ds), Count(b, Days))

ScoreValue == LET s == 100 - 6 * Total(Overdue) - 4 * stuck - 3 * bare IN IF s < 0 THEN 0 ELSE s
RiskScore ==
    CASE ScoreValue >= 90 -> "A" [] ScoreValue \in 75..89 -> "B+" [] ScoreValue \in 60..74 -> "C" [] OTHER -> "D"
-----------------------------------------------------------------------------
BoardTypeOK ==
    /\ plans \in [Addresses -> [Days -> 0..MaxRowsEach]]
    /\ stuck \in 0..MaxTasks
    /\ bare \in 0..MaxTasks

\* compliance.service.ts:68-140: what is shown as pending is what rounding leaves over, one at
\* most, or all when there are no plans; the shares of a tenant are between the shares of its
\* buildings, so that rounding never shows a tenant worse than each of them; and nobody has
\* an A with two plans overdue, with one besides two tasks that are stuck or lack evidence, or
\* with four such tasks.
SharesAddUp ==
    LET d == Distribution
        full == {b \in Addresses : Count(b, Days) > 0}
    IN /\ Total(Days) = 0 => d.pending = 100
       /\ Total(Days) > 0 =>
              /\ d.compliant + d.warning + d.overdue \in 99..101
              /\ d.pending \in {0, 1}
              /\ \E b \in full : ByBuilding(b, Overdue) >= d.overdue
              /\ \E b \in full : ByBuilding(b, Overdue) <= d.overdue
       /\ RiskScore = "A" => /\ Total(Overdue) < 2 /\ stuck + bare < 4
                             /\ Total(Overdue) = 1 => stuck + bare < 2

TypeOK == TrailTypeOK /\ BoardTypeOK
=============================================================================
