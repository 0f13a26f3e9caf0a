--------------------------- MODULE MCOperations ---------------------------
(***************************************************************************)
(* One instance of the modules about the work of a workspace: cases, duty, *)
(* mail, imports, onboarding, acceptance and hand-over.  They share no     *)
(* rows the properties speak of, so a behaviour exercises one of them      *)
(* (focus), as in MCEstate.                                                *)
(***************************************************************************)
EXTENDS Integers, FiniteSets, Sequences, TLC

CONSTANTS
    s1, s2, t1, t2, t3,
    Incidents, Requests, WorkOrders, Quotes, Desk, Mails, Posts, Rows,
    Crew, BuildingStaff, Wardens, Tickets, Tours, Plans, MaxOrder, Walkers,
    Workbooks, Bundles, LastLine, Clerks,
    Newcomers, Tenants, Slugs, Doors, Levels, Openings,
    Projects, BudgetLines, ChangeOrders, Stages, Bookkeepers, MaxHistory, People, Papers, Meetings,
    Overrides, Signers, Seats,
    Pens, Chores, Certified, Statutory, Minimum, Statuses, Heights,
    Visits, When, Strict, PageSize, Faults, Asks, QueueSize, SoonHours, LastHour,
    Names, Sheet, Vendors, Envelope, Protocol, Loops, MaxPosts, Bills, BillDate, Gross, Tax, Dates,
    Operators, Values, Threshold, Cooldown, Readers, MaxTime,
    Audience, Mailboxes, Profiles, FirstProfile, NotifyRules, Named, Dispatches,
    Zones, Contractors, Supervisors, Cleaners, Employer, Jobs, Shifts,
    Sites, Items,
    Entities, Texts, PageLength, FileLength, LastEntry, Addresses, MaxRowsEach, MaxTasks, Horizon

VARIABLES
    focus,
    case, jobs, quote, desk, unfinished,
    onFloor, away, appointing, routed,
    mail, posting, abandoned,
    job, parts, templates, documents, planned, work, cut, stripped, tangled, orphaned,
    tenant, orgs, plot, opening, crossed, maimed,
    pack, attached, meeting, overtaken,
    takeover, operational, signing, lost,
    matter, overdue, seat,
    chore, linked, filed, qualified, height,
    item, reader, first, finished, notes, refused, trail,
    project, fund, order, entry,
    trigger, opened, reading, clock, disturbed,
    tour, walk, asked, halted,
    profile, delivery, dispatch, settled,
    vendor, incidents, posts, answered, loop, unfound,
    bill, fetched, rows, late,
    zone, request, shift, raced,
    standing, kind, home, refs, removed, movedFrom,
    hour, reported, grade,
    entries, search,
    plans, stuck, unproven

\* The supervisor works for the first contractor, the cleaner for the second.
MCEmployer == [u \in Supervisors \cup Cleaners |-> IF u \in Cleaners THEN "k2" ELSE "k1"]

\* A statutory template for every building, one from five floors, one more for every building.
MCMinimum == [o1 |-> 0, o2 |-> 5, o3 |-> 0]
\* What a building may say of its floors: nothing, or eight.
MCHeights == {-1, 8}
\* A case is dated after two visits.
MCWhen == [v1 |-> 1, v2 |-> 3, c1 |-> 4]
\* Rounds without waypoints, with orders left out, and with one given that others may meet.
MCPlans == {<<>>, <<0, 0>>, <<1, 0>>, <<2, 0, 0>>}

\* A technician; the same inactive, with a role that expired, and with what keeps mail away.
Person(active, role, expired, where, post, mutes) ==
    [active |-> active, role |-> role, expired |-> expired, where |-> where, mail |-> post, mutes |-> mutes]
MCFirstProfile == Person(TRUE, "tech", FALSE, {}, "open", {})
MCProfiles ==
    {MCFirstProfile, Person(FALSE, "tech", FALSE, {}, "open", {}), Person(TRUE, "tech", TRUE, {"g"}, "suppressed", {}),
     Person(TRUE, "tech", FALSE, {"h"}, "open", {[channel |-> "email", scope |-> "category"]})}

\* By role for all buildings and for one, and by the names in the payload.
Notify(strategy, role, scope, channels, template) ==
    [strategy |-> strategy, role |-> role, scope |-> scope, channels |-> channels, template |-> template]
MCNotifyRules ==
    {Notify("role", "tech", {}, {"inapp"}, "none"), Notify("role", "tech", {"g"}, {"inapp"}, "x"),
     Notify("manual", "none", {}, {"email"}, "x")}

\* Two vendors and a line without a name; two alarms, one of another protocol, and a reading.
MCSheet == {[name |-> n, terms |-> "net"] : n \in {"v1", "v2", "none"}}
Point(ref, protocol, alarm, severity) == [ref |-> ref, protocol |-> protocol, alarm |-> alarm, severity |-> severity]
MCEnvelope ==
    {Point("r1", "bacnet", TRUE, "none"), Point("r2", "bacnet", FALSE, "P2"), Point("r3", "mqtt", TRUE, "P1"),
     Point("r4", "bacnet", FALSE, "none"), Point("none", "bacnet", TRUE, "none")}

\* Invoices in the middle and on the border of two periods, without and with tax.
MCBillDate == [i1 |-> 2, i2 |-> 3]
MCGross == [i1 |-> 10, i2 |-> 12]
MCTax == [i1 |-> -1, i2 |-> 2]

Intake == INSTANCE ReactiveIntake WITH Orders <- WorkOrders, orders <- jobs, cut <- unfinished
Duty == INSTANCE FloorDuty WITH Staff <- Crew
Import == INSTANCE Imports WITH call <- work
Opening == INSTANCE Onboarding
Project == INSTANCE Projects WITH Orders <- ChangeOrders, line <- fund
Handover == INSTANCE Takeover
Lists == INSTANCE WorkLists WITH Cases <- Tickets, opened <- reported
Connector == INSTANCE Connectors WITH Levels <- Values, crossed <- unfound
Fan == INSTANCE Fanout WITH People <- Audience
Clean == INSTANCE Cleaning WITH job <- request
Structure == INSTANCE BuildingStructure
Report == INSTANCE Reports WITH trail <- entries, bare <- unproven

\* No user, quote, mail or row is called as nobody or none is, and no member as an outside address.
SignersAreNamed == "none" \notin Signers
QuotesAreNamed == "none" \notin Quotes
AudienceIsNoMailbox == Audience \cap Mailboxes = {}

\* A server has finitely many calls, and a building finitely many tasks.
PostsAreFew == IsFiniteSet(Posts) /\ "none" \notin Mails /\ "none" \notin Rows
WardensAreFew == IsFiniteSet(Wardens) /\ "none" \notin Crew
ChoresAreFew == IsFiniteSet(Chores) /\ IsFiniteSet(Certified)

\* A line of a sheet has a name and terms, points of an envelope have different identifiers.
LinesAndPoints ==
    /\ "none" \notin Names /\ \A l \in Sheet : l = [name |-> l.name, terms |-> l.terms]
    /\ \A p, q \in Envelope : p.ref = q.ref /\ p.ref # "none" => p = q
    /\ IsFiniteSet(Loops)

\* A job is a workbook or a bundle, and a file with no line has no job.
JobsAreSorted ==
    /\ LastLine \in Nat \ {0}
    /\ Workbooks \cap Bundles = {}
    /\ "none" \notin Workbooks \cup Bundles

\* A building has finitely many guards, and an order is a number.
ToursAreWalked == IsFiniteSet(Walkers) /\ "none" \notin Tours /\ Plans \subseteq Seq(Nat)

\* Invoices have amounts and dates; tasks have dates, and no case is a task.
BillsAreDated ==
    /\ Dates \subseteq Int /\ BillDate \in [Bills -> Int]
    /\ Gross \in [Bills -> Int] /\ Tax \in [Bills -> Int]
VisitsAreDated ==
    /\ IsFiniteSet(Visits) /\ Visits \cap Tickets = {} /\ Strict \subseteq Visits
    /\ When \in [Visits \cup Tickets -> Nat \ {0}] /\ PageSize \in Nat

\* An incident is no request, and hours, pages and days are numbers.
ReportsDiffer == Faults \cap Asks = {} /\ LastHour \in Nat /\ SoonHours \in Int
PagesAreNumbers == PageLength \in Nat /\ FileLength \in Nat

\* A project has finitely many lines, a tenant finitely many buildings.
LinesAreFew == IsFiniteSet(BudgetLines) /\ IsFiniteSet(ChangeOrders)
BuildingsAreFew == IsFiniteSet(Addresses) /\ Horizon \in Nat

\* No workspace and no slug is called as none is.
TenantsAreNamed == "none" \notin Tenants /\ "free" \notin Slugs

ASSUME OperationsAssumption ==
    /\ SignersAreNamed /\ QuotesAreNamed /\ AudienceIsNoMailbox /\ "none" \notin People
    /\ PostsAreFew /\ WardensAreFew /\ ChoresAreFew /\ LinesAndPoints
    /\ JobsAreSorted /\ ToursAreWalked /\ TenantsAreNamed /\ Cooldown \in Nat
    /\ BillsAreDated /\ VisitsAreDated /\ ReportsDiffer /\ PagesAreNumbers
    /\ LinesAreFew /\ BuildingsAreFew

intakeVars == <<case, jobs, quote, desk, unfinished>>
dutyVars == <<onFloor, away, appointing, routed>>
mailVars == <<mail, posting, abandoned>>
importVars == <<job, parts, templates, documents, planned, work, cut, stripped, tangled, orphaned>>
openingVars == <<tenant, orgs, plot, opening, crossed, maimed>>
acceptVars == <<pack, attached, meeting, overtaken>>
handoverVars == <<takeover, operational, signing, lost>>
secondVars == <<matter, overdue, seat>>
readyVars == <<chore, linked, filed, qualified, height>>
inboxVars == <<item, reader, first, finished, notes, refused, trail>>
bookVars == <<project, fund, order, entry>>
triggerVars == <<trigger, opened, reading, clock, disturbed>>
roundVars == <<tour, walk, asked, halted>>
fanVars == <<profile, delivery, dispatch, settled>>
inboundVars == <<vendor, incidents, posts, answered, loop, unfound>>
exportVars == <<bill, fetched, rows, late>>
cleaningVars == <<zone, request, shift, raced>>
structureVars == <<standing, kind, home, refs, removed, movedFrom>>
queueVars == <<hour, reported, grade>>
trailVars == <<entries, search>>
boardVars == <<plans, stuck, unproven>>
mcVars == <<focus,
            intakeVars, dutyVars, mailVars, importVars, openingVars, acceptVars,
            handoverVars, secondVars, readyVars, inboxVars, bookVars, triggerVars, roundVars,
            fanVars, inboundVars, exportVars, cleaningVars, structureVars, queueVars,
            trailVars, boardVars>>

\* What the variables of a part out of focus hold: no action reads them.
Off == "off"

MCInit ==
    /\ focus \in {"reactive", "duty", "mail", "import", "opening", "accept", "handover",
                  "second", "readiness", "inbox", "book", "triggers", "rounds", "fanout",
                  "inbound", "export", "cleaning", "structure", "queue", "trail", "board"}
    /\ IF focus = "reactive" THEN Intake!CaseInit
       ELSE /\ case = Off /\ jobs = Off /\ quote = Off /\ desk = Off /\ unfinished = Off
    /\ IF focus = "duty" THEN Duty!DutyInit
       ELSE /\ onFloor = Off /\ away = Off /\ appointing = Off /\ routed = Off
    /\ IF focus = "mail" THEN Intake!MailInit
       ELSE /\ mail = Off /\ posting = Off /\ abandoned = Off
    /\ IF focus = "import" THEN Import!Init
       ELSE /\ job = Off /\ parts = Off /\ templates = Off /\ documents = Off
            /\ planned = Off /\ work = Off /\ cut = Off /\ stripped = Off /\ tangled = Off
            /\ orphaned = Off
    /\ IF focus = "opening" THEN Opening!Init
       ELSE /\ tenant = Off /\ orgs = Off /\ plot = Off /\ opening = Off /\ crossed = Off
            /\ maimed = Off
    /\ IF focus = "accept" THEN Project!PackInit
       ELSE /\ pack = Off /\ attached = Off /\ meeting = Off /\ overtaken = Off
    /\ IF focus = "handover" THEN Handover!SignoffInit
       ELSE /\ takeover = Off /\ operational = Off /\ signing = Off /\ lost = Off
    /\ IF focus = "second" THEN Project!DecisionInit
       ELSE /\ matter = Off /\ overdue = Off /\ seat = Off
    /\ IF focus = "readiness" THEN Handover!ReadinessInit
       ELSE /\ chore = Off /\ linked = Off /\ filed = Off /\ qualified = Off /\ height = Off
    /\ IF focus = "inbox" THEN Lists!InboxInit
       ELSE /\ item = Off /\ reader = Off /\ first = Off /\ finished = Off /\ notes = Off /\ refused = Off
            /\ trail = Off
    /\ IF focus = "book" THEN Project!BookInit
       ELSE /\ project = Off /\ fund = Off /\ order = Off /\ entry = Off
    /\ IF focus = "triggers" THEN Connector!TriggerInit
       ELSE /\ trigger = Off /\ opened = Off /\ reading = Off /\ clock = Off
            /\ disturbed = Off
    /\ IF focus = "rounds" THEN Duty!RoundInit
       ELSE /\ tour = Off /\ walk = Off /\ asked = Off /\ halted = Off
    /\ IF focus = "fanout" THEN Fan!Init
       ELSE /\ profile = Off /\ delivery = Off /\ dispatch = Off /\ settled = Off
    /\ IF focus = "inbound" THEN Connector!InboundInit
       ELSE /\ vendor = Off /\ incidents = Off /\ posts = Off /\ answered = Off
            /\ loop = Off /\ unfound = Off
    /\ IF focus = "export" THEN Connector!ExportInit
       ELSE /\ bill = Off /\ fetched = Off /\ rows = Off /\ late = Off
    /\ IF focus = "cleaning" THEN Clean!Init
       ELSE /\ zone = Off /\ request = Off /\ shift = Off /\ raced = Off
    /\ IF focus = "structure" THEN Structure!Init
       ELSE /\ standing = Off /\ kind = Off /\ home = Off /\ refs = Off /\ removed = Off
            /\ movedFrom = Off
    /\ IF focus = "queue" THEN Lists!QueueInit
       ELSE /\ hour = Off /\ reported = Off /\ grade = Off
    /\ IF focus = "trail" THEN Report!TrailInit
       ELSE /\ entries = Off /\ search = Off
    /\ IF focus = "board" THEN Report!BoardInit
       ELSE /\ plans = Off /\ stuck = Off /\ unproven = Off

MCNext ==
    \/ /\ focus = "reactive" /\ Intake!CaseNext
       /\ UNCHANGED <<focus, dutyVars, mailVars, importVars, openingVars, acceptVars,
                      handoverVars, secondVars, readyVars, inboxVars, bookVars,
                      triggerVars, roundVars, fanVars, inboundVars, exportVars,
                      cleaningVars, structureVars, queueVars, trailVars, boardVars>>
    \/ /\ focus = "duty" /\ Duty!DutyNext
       /\ UNCHANGED <<focus, intakeVars, mailVars, importVars, openingVars, acceptVars,
                      handoverVars, secondVars, readyVars, inboxVars, bookVars,
                      triggerVars, roundVars, fanVars, inboundVars, exportVars,
                      cleaningVars, structureVars, queueVars, trailVars, boardVars>>
    \/ /\ focus = "mail" /\ Intake!MailNext
       /\ UNCHANGED <<focus, intakeVars, dutyVars, importVars, openingVars, acceptVars,
                      handoverVars, secondVars, readyVars, inboxVars, bookVars,
                      triggerVars, roundVars, fanVars, inboundVars, exportVars,
                      cleaningVars, structureVars, queueVars, trailVars, boardVars>>
    \/ /\ focus = "import" /\ Import!Next
       /\ UNCHANGED <<focus, intakeVars, dutyVars, mailVars, openingVars, acceptVars,
                      handoverVars, secondVars, readyVars, inboxVars, bookVars,
                      triggerVars, roundVars, fanVars, inboundVars, exportVars,
                      cleaningVars, structureVars, queueVars, trailVars, boardVars>>
    \/ /\ focus = "opening" /\ Opening!Next
       /\ UNCHANGED <<focus, intakeVars, dutyVars, mailVars, importVars, acceptVars,
                      handoverVars, secondVars, readyVars, inboxVars, bookVars,
                      triggerVars, roundVars, fanVars, inboundVars, exportVars,
                      cleaningVars, structureVars, queueVars, trailVars, boardVars>>
    \/ /\ focus = "accept" /\ Project!PackNext
       /\ UNCHANGED <<focus, intakeVars, dutyVars, mailVars, importVars, openingVars,
                      handoverVars, secondVars, readyVars, inboxVars, bookVars,
                      triggerVars, roundVars, fanVars, inboundVars, exportVars,
                      cleaningVars, structureVars, queueVars, trailVars, boardVars>>
    \/ /\ focus = "handover" /\ Handover!SignoffNext
       /\ UNCHANGED <<focus, intakeVars, dutyVars, mailVars, importVars, openingVars,
                      acceptVars, secondVars, readyVars, inboxVars, bookVars, triggerVars,
                      roundVars, fanVars, inboundVars, exportVars, cleaningVars,
                      structureVars, queueVars, trailVars, boardVars>>
    \/ /\ focus = "second" /\ Project!DecisionNext
       /\ UNCHANGED <<focus, intakeVars, dutyVars, mailVars, importVars, openingVars,
                      acceptVars, handoverVars, readyVars, inboxVars, bookVars,
                      triggerVars, roundVars, fanVars, inboundVars, exportVars,
                      cleaningVars, structureVars, queueVars, trailVars, boardVars>>
    \/ /\ focus = "readiness" /\ Handover!ReadinessNext
       /\ UNCHANGED <<focus, intakeVars, dutyVars, mailVars, importVars, openingVars,
                      acceptVars, handoverVars, secondVars, inboxVars, bookVars,
                      triggerVars, roundVars, fanVars, inboundVars, exportVars,
                      cleaningVars, structureVars, queueVars, trailVars, boardVars>>
    \/ /\ focus = "inbox" /\ Lists!InboxNext
       /\ UNCHANGED <<focus, intakeVars, dutyVars, mailVars, importVars, openingVars,
                      acceptVars, handoverVars, secondVars, readyVars, bookVars,
                      triggerVars, roundVars, fanVars, inboundVars, exportVars,
                      cleaningVars, structureVars, queueVars, trailVars, boardVars>>
    \/ /\ focus = "book" /\ Project!BookNext
       /\ UNCHANGED <<focus, intakeVars, dutyVars, mailVars, importVars, openingVars,
                      acceptVars, handoverVars, secondVars, readyVars, inboxVars,
                      triggerVars, roundVars, fanVars, inboundVars, exportVars,
                      cleaningVars, structureVars, queueVars, trailVars, boardVars>>
    \/ /\ focus = "triggers" /\ Connector!TriggerNext
       /\ UNCHANGED <<focus, intakeVars, dutyVars, mailVars, importVars, openingVars,
                      acceptVars, handoverVars, secondVars, readyVars, inboxVars, bookVars,
                      roundVars, fanVars, inboundVars, exportVars, cleaningVars,
                      structureVars, queueVars, trailVars, boardVars>>
    \/ /\ focus = "rounds" /\ Duty!RoundNext
       /\ UNCHANGED <<focus, intakeVars, dutyVars, mailVars, importVars, openingVars,
                      acceptVars, handoverVars, secondVars, readyVars, inboxVars, bookVars,
                      triggerVars, fanVars, inboundVars, exportVars, cleaningVars,
                      structureVars, queueVars, trailVars, boardVars>>
    \/ /\ focus = "fanout" /\ Fan!Next
       /\ UNCHANGED <<focus, intakeVars, dutyVars, mailVars, importVars, openingVars,
                      acceptVars, handoverVars, secondVars, readyVars, inboxVars, bookVars,
                      triggerVars, roundVars, inboundVars, exportVars, cleaningVars,
                      structureVars, queueVars, trailVars, boardVars>>
    \/ /\ focus = "inbound" /\ Connector!InboundNext
       /\ UNCHANGED <<focus, intakeVars, dutyVars, mailVars, importVars, openingVars,
                      acceptVars, handoverVars, secondVars, readyVars, inboxVars, bookVars,
                      triggerVars, roundVars, fanVars, exportVars, cleaningVars,
                      structureVars, queueVars, trailVars, boardVars>>
    \/ /\ focus = "export" /\ Connector!ExportNext
       /\ UNCHANGED <<focus, intakeVars, dutyVars, mailVars, importVars, openingVars,
                      acceptVars, handoverVars, secondVars, readyVars, inboxVars, bookVars,
                      triggerVars, roundVars, fanVars, inboundVars, cleaningVars,
                      structureVars, queueVars, trailVars, boardVars>>
    \/ /\ focus = "cleaning" /\ Clean!Next
       /\ UNCHANGED <<focus, intakeVars, dutyVars, mailVars, importVars, openingVars,
                      acceptVars, handoverVars, secondVars, readyVars, inboxVars, bookVars,
                      triggerVars, roundVars, fanVars, inboundVars, exportVars,
                      structureVars, queueVars, trailVars, boardVars>>
    \/ /\ focus = "structure" /\ Structure!Next
       /\ UNCHANGED <<focus, intakeVars, dutyVars, mailVars, importVars, openingVars,
                      acceptVars, handoverVars, secondVars, readyVars, inboxVars, bookVars,
                      triggerVars, roundVars, fanVars, inboundVars, exportVars,
                      cleaningVars, queueVars, trailVars, boardVars>>
    \/ /\ focus = "queue" /\ Lists!QueueNext
       /\ UNCHANGED <<focus, intakeVars, dutyVars, mailVars, importVars, openingVars,
                      acceptVars, handoverVars, secondVars, readyVars, inboxVars, bookVars,
                      triggerVars, roundVars, fanVars, inboundVars, exportVars,
                      cleaningVars, structureVars, trailVars, boardVars>>
    \/ /\ focus = "trail" /\ Report!TrailNext
       /\ UNCHANGED <<focus, intakeVars, dutyVars, mailVars, importVars, openingVars,
                      acceptVars, handoverVars, secondVars, readyVars, inboxVars, bookVars,
                      triggerVars, roundVars, fanVars, inboundVars, exportVars,
                      cleaningVars, structureVars, queueVars, boardVars>>
    \/ /\ focus = "board" /\ Report!BoardNext
       /\ UNCHANGED <<focus, intakeVars, dutyVars, mailVars, importVars, openingVars,
                      acceptVars, handoverVars, secondVars, readyVars, inboxVars, bookVars,
                      triggerVars, roundVars, fanVars, inboundVars, exportVars,
                      cleaningVars, structureVars, queueVars, trailVars>>

MCSpec == MCInit /\ [][MCNext]_mcVars

MCSymmetry == Permutations({s1, s2})

\* The types of the modules' variables
MCTypeOK ==
    /\ focus = "reactive" => Intake!CaseTypeOK
    /\ focus = "duty" => Duty!DutyTypeOK
    /\ focus = "mail" => Intake!MailTypeOK
    /\ focus = "import" => Import!TypeOK
    /\ focus = "opening" => Opening!TypeOK
    /\ focus = "accept" => Project!PackTypeOK
    /\ focus = "handover" => Handover!SignoffTypeOK
    /\ focus = "second" => Project!DecisionTypeOK
    /\ focus = "readiness" => Handover!ReadinessTypeOK
    /\ focus = "inbox" => Lists!InboxTypeOK
    /\ focus = "book" => Project!BookTypeOK
    /\ focus = "triggers" => Connector!TriggerTypeOK
    /\ focus = "rounds" => Duty!RoundTypeOK
    /\ focus = "fanout" => Fan!TypeOK
    /\ focus = "inbound" => Connector!InboundTypeOK
    /\ focus = "export" => Connector!ExportTypeOK
    /\ focus = "cleaning" => Clean!TypeOK
    /\ focus = "structure" => Structure!TypeOK
    /\ focus = "queue" => Lists!QueueTypeOK
    /\ focus = "trail" => Report!TrailTypeOK
    /\ focus = "board" => Report!BoardTypeOK

\* reactive.service.ts:272-292 and :530-603: what the status of a case or of a quote says is
\* there, unless a call did not finish.
StatusIsEarned == focus = "reactive" => Intake!StatusIsEarned

\* assignment.service.ts:36-81, notifications.service.ts:56-142: how many primary assignees
\* overlapping calls leave a floor and whom a case goes to; whom a notification is for.
RightPeople ==
    /\ focus = "duty" => Duty!PrimaryBound
    /\ focus = "fanout" => Fan!RecipientsReached
    /\ focus = "fanout" => Fan!ChosenAreEligible

\* inbound-email.service.ts:53-154, condition-triggers.service.ts:118-172, connectors.service.ts:
\* 80-195: a mail posted again makes no second row that counts, readings open tasks a cooldown
\* apart, a name has one vendor, unless two calls overlapped or one was cut short.
OneWorkPerSignal ==
    /\ focus = "mail" => Intake!RepeatsAreFolded
    /\ focus = "triggers" => Connector!TasksAreSpaced
    /\ focus = "inbound" => Connector!InboundIsOnce

\* imports.service.ts:132-280, onboarding.service.ts:35-140 and :418-535, rounds.service.ts:31-150:
\* what a call writes in several rows, an import, a workspace, a building or a round, is
\* whole or undone as a whole, unless it was cut short, overlapped or refused half-way.
WrittenWhole ==
    /\ focus = "import" => Import!ImportIsWhole
    /\ focus = "opening" => Opening!Provisioned
    /\ focus = "rounds" => Duty!RoundsAreWhole

\* tasks.service.ts:66-340 and :596-640, projects.service.ts:46-302, connectors.service.ts:30-78,
\* reactive.service.ts:810-945, audit.service.ts:137-232, compliance.service.ts:42-152: what a
\* reader is shown page by page, in a file or as a figure, and what the histories and totals
\* of a project say, agree with the rows.
ViewsAgree ==
    /\ focus = "inbox" => Lists!PagesRepeat
    /\ focus = "book" => Project!BooksBalance
    /\ focus = "export" => Connector!FilesAreComplete
    /\ focus = "queue" => Lists!QueueIsInOrder
    /\ focus = "trail" => Report!SearchesAreComplete
    /\ focus = "board" => Report!SharesAddUp

\* projects.service.ts:305-365 and :435-501, emergency-overrides.service.ts:49-81,
\* takeover.service.ts:156-332: an accepted pack has three signatures, of three
\* people as long as no call wrote over another, what
\* needs a second person is decided by another one, a hand-over log follows its order, and
\* signing off is advised of a building that deserves it.
SignaturesHold ==
    /\ focus = "accept" => Project!AcceptedByThree
    /\ focus = "second" => Project!DecidedByAnother
    /\ focus = "handover" => Handover!SignoffFollowsChain
    /\ focus = "readiness" => Handover!SignoffIsDeserved

\* building-core.service.ts: what a row of a checked table names was made in its building,
\* unless a patch of a unit is behind it, and what a foreign key names is there.
StaysInBuilding == focus = "structure" => Structure!StaysInBuilding

\* cleaning.access.ts:78-87: a request that is done, rejected or cancelled stays so, unless
\* a call wrote on a status that another had changed.
ClosedStaysClosed == focus = "cleaning" => Clean!ClosedStaysClosed
=============================================================================
