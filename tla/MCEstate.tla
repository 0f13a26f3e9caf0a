----------------------------- MODULE MCEstate -----------------------------
(***************************************************************************)
(* One instance of the modules about a building, what belongs to it, and   *)
(* the people who have rights in it.  They share a database and no rows    *)
(* the properties speak of, so a behaviour exercises one of them (focus)   *)
(* and the others stay in their initial states: each module is checked     *)
(* against its own concurrency.                                            *)
(***************************************************************************)
EXTENDS Integers, FiniteSets, Sequences, TLC

CONSTANTS
    s1, s2, b1, b2, p1, p2,
    Lanes, Buildings,
    Contracts, Spots, Rooms, Companies, People, Occupiers, Fields, Managers, Hands,
    Takers, Places, MaxQuantity, MaxOnHand,
    Grounds, Duties, Units, PlanItems, Templates, Assets, AssetSite, Planners, Demands, Rule,
    Storeys, Evaluations,
    Papers, Contents, Clerks, MaxUses, Forms, FormKeys, Sittings,
    PolicyNames, DpaKeys, Editors, Floors, MaxRows,
    Folks, Emails, Tokens, Erasures, Desks, Visits, Routes, Lifetime, Slow, LastMoment, MaxTurns,
    Members, Posts, Custom, Delegable, Offices,
    Equipment, AssetTypes, Bodies, Registrars, MaxRowsLeft,
    Sites, Spaces, Lettable, ZoneCodes, SpaceSite, SpaceCode, Points, Labels, Upper, Printers,
    Founder, Residents, Ranks, Delegation, FounderRole, Doers, Titles, Permissions, FirstRights,
    GrantRows,
    Blackouts, WeekLength, DaysPerMonth, Months, Period, Fallback, MaxRoll, LastInstant, Dues,
    Ahead, Addressees, Runs, LastDay,
    States, Arrivals, Secrets, Tabs

VARIABLES
    focus,
    life, stamps, setup, moves, createCut,
    allocations, leased, admin, grant, leaseCall, leaseCut,
    onHand, taking,
    plan, templates, exempt, planning, stray,
    document, stored, clerk, usesLeft, redeemed, disturbed, unheld, halved,
    rows, editing, stale,
    account, linked, session, request, desk, interrupted, rewritten,
    member, roles, given, office, excused, robbed,
    assetType, asset, announced, creating, lax,
    granted, staff, doing, chartered, deprived,
    company, settings, manager, hand, recast,
    upright, located, washZone, point, place, printing, shared, relet,
    clock, item,
    day, due, told, scan, owed, untold, contended, doubled,
    storeys, auto, mark, flow, evaluation, asOf,
    factor, device, tab, proven, dropped, mixed,
    now, truth, turned, turns, memo, visit,
    enrolled, grants, rights,
    form, programme, waypoint, sitting, dangling,
    provider, state, joined, belongs, opened, arrival, halted, reused

\* The plan's assets stand in the one building;
\* whoever is boss can hand out both roles.
MCAssetSite == [a \in Assets |-> CHOOSE g \in Grounds : TRUE]
MCDelegable == {<<"boss", "boss">>, <<"boss", "tech">>}

\* A technician and a manager who may hand out the technician's role.
MCRanks == [tech |-> 2, mgr |-> 3]
MCDelegation == [tech |-> 2, mgr |-> 2]

\* Bodies that create takes and refuses: a critical family with and without what it must
\* state, a serialized type with and without level and number, a place of another building.
Body(type, family, level, serial, covered, where) ==
    [type |-> type, family |-> family, level |-> level, serial |-> serial, covered |-> covered,
     place |-> where]
MCBodies ==
    {Body("none", "Fire", "unit", FALSE, FALSE, "here"), Body("t1", "none", "", FALSE, FALSE, "here"),
     Body("t1", "HVAC", "unit", TRUE, FALSE, "here"), Body("none", "Fire", "unit", FALSE, TRUE, "elsewhere")}

\* A location and a unit of one building, with one code.
MCSpaceSite == [s \in Spaces |-> "h1"]
MCSpaceCode == [s \in Spaces |-> "k"]
MCUpper == [l \in Labels |-> "A"]

\* A weekly rule, a range over the end of the year, one of all the year but a day, a single day
\* to skip, the weekly rule of another building, and a weekday that create refuses.
BlackoutRow(weekday, first, last, annual, policy, building) ==
    [weekday |-> weekday, first |-> first, last |-> last, annual |-> annual, policy |-> policy,
     building |-> building]
MCBlackouts ==
    {BlackoutRow(1, -1, -1, FALSE, "defer_to_next_working_day", "all"), BlackoutRow(-1, 5, 0, TRUE, "shift", "this"),
     BlackoutRow(-1, 3, 2, TRUE, "shift", "this"), BlackoutRow(-1, 5, 5, FALSE, "skip", "this"),
     BlackoutRow(0, -1, -1, FALSE, "shift", "other"), BlackoutRow(3, -1, -1, FALSE, "shift", "this")}

\* Grants of two floors, of a whole building, of what was made by oneself, of a contractor.
GrantRow(rank, building, floors, contractor, own) ==
    [role |-> rank, building |-> building, floors |-> floors, contractor |-> contractor, createdBy |-> own]
MCGrantRows ==
    {GrantRow("tech", "b", {"f"}, "none", FALSE), GrantRow("tech", "b", {"g"}, "k", FALSE),
     GrantRow("mgr", "c", {}, "none", FALSE), GrantRow("tech", "c", {"h"}, "m", FALSE),
     GrantRow("tech", "c", {"h"}, "none", TRUE)}
MCFirstRights == [tech |-> {"see"}, mgr |-> {"see", "do"}]

\* A write with a header, a read without one, a read of a superadmin with one.
MCRoutes == {<<"session", "member", "open">>, <<"session", "home">>, <<"session">>}

MCStoreys == {-1, 2, 8}
\* One obligation from five floors and one for all but eight.
MCRule == [o4 |-> [op |-> ">=", value |-> 5], o5 |-> [op |-> "!=", value |-> 8]]

\* Somebody may take stock, a quantity is a number, and no place is called as none is.
StockAssumption ==
    /\ IsFiniteSet(Takers) /\ Takers # {}
    /\ MaxQuantity \in Nat
    /\ "none" \notin Places

\* Ids of spots, of companies and of people differ from each other and from none.
IdsDiffer ==
    /\ "none" \notin Spots \cup Companies \cup People
    /\ Spots \cap Companies = {}

\* No asset and no type is called as none is, and what create is asked are the fields of a form.
BodiesAreForms ==
    /\ "none" \notin Equipment
    /\ \A body \in Bodies : body.serial \in BOOLEAN /\ body.covered \in BOOLEAN

\* A space is in a building, a code in capitals stays as it is, and nothing is called as none is.
CodesAreCodes ==
    /\ SpaceSite \in [Spaces -> Sites] /\ SpaceCode \in [Spaces -> ZoneCodes]
    /\ Upper \in [Labels -> Labels] /\ \A l \in Labels : Upper[Upper[l]] = Upper[l]
    /\ "none" \notin Spaces /\ "none" \notin Sites

\* A rank is a number, and the first manager has one of the roles on offer.
RanksAreNumbers ==
    /\ \A r \in DOMAIN Ranks : Ranks[r] \in Int
    /\ FounderRole \in DOMAIN Ranks

Lifecycle == INSTANCE BuildingLifecycle WITH Slots <- Lanes, calls <- moves
Occupancy == INSTANCE Occupancy
Inventory == INSTANCE Stock
Programme == INSTANCE PpmProgramme
Archive == INSTANCE Documents
Register == INSTANCE Registers
Identity == INSTANCE Accounts WITH Users <- Folks, Requests <- Erasures, row <- truth
Team == INSTANCE TeamRoles WITH Roles <- Posts, grant <- given
Registry == INSTANCE BuildingRegister WITH standing <- upright, zone <- washZone
Rights == INSTANCE Authority WITH Calls <- Doers
Calendar == INSTANCE PpmCalendar WITH raced <- contended
Sign == INSTANCE SignIn WITH linked <- joined

\* No user and no email is called as none is, and no email as one that was redacted.
EmailsAreReal == "none" \notin Folks /\ Emails \cap {"none", "redacted"} = {}

\* A request asks something, and times are numbers.
TimesAreNumbers ==
    /\ Lifetime \in Nat /\ Slow \in Nat
    /\ Routes \subseteq Seq(Identity!Questions) \ {<<>>}

\* No template and no item is called as none is.
RowsHaveNames == "none" \notin Templates /\ "none" \notin PlanItems

\* Dates are numbers, and one of those on file is the first.
DatesAreNumbers == Dues \subseteq Int /\ \E d \in Dues : \A e \in Dues : d =< e

\* The rules on file are rows of numbers, and so are the measures of the calendar.
DatesAreDates ==
    /\ IsFiniteSet(Blackouts)
    /\ \A r \in Blackouts : r.weekday \in Int /\ r.first \in Int /\ r.last \in Int /\ r.annual \in BOOLEAN
    /\ {WeekLength, DaysPerMonth, Months} \subseteq Nat \ {0}
    /\ {Period, Fallback, MaxRoll, LastInstant} \subseteq Nat

\* Finitely many grants can be given, each of them in a building, and `own' is a flag.
GrantsAreRows ==
    /\ IsFiniteSet(GrantRows)
    /\ "none" \notin Rights!GrantedBuildings
    /\ \A g \in GrantRows : g.createdBy \in BOOLEAN

ASSUME EstateAssumption ==
    /\ StockAssumption /\ IdsDiffer /\ BodiesAreForms /\ CodesAreCodes /\ RanksAreNumbers
    /\ GrantsAreRows /\ EmailsAreReal /\ TimesAreNumbers /\ "none" \notin Occupiers \cup States
    /\ RowsHaveNames /\ -1 \in Storeys /\ DatesAreNumbers /\ DatesAreDates

lifecycleVars == <<life, stamps, setup, moves, createCut>>
leasingVars == <<allocations, leased, admin, grant, leaseCall, leaseCut>>
stockVars == <<onHand, taking>>
programmeVars == <<plan, templates, exempt, planning, stray>>
documentVars == <<document, stored, clerk, usesLeft, redeemed, disturbed, unheld, halved>>
registerVars == <<rows, editing, stale>>
accountVars == <<account, linked, session, request, desk, interrupted, rewritten>>
teamVars == <<member, roles, given, office, excused, robbed>>
assetVars == <<assetType, asset, announced, creating, lax>>
grantVars == <<granted, staff, doing, chartered, deprived>>
occupantVars == <<company, settings, manager, hand, recast>>
scanVars == <<upright, located, washZone, point, place, printing, shared, relet>>
calendarVars == <<clock, item>>
reminderVars == <<day, due, told, scan, owed, untold, contended, doubled>>
applyingVars == <<storeys, auto, mark, flow, evaluation, asOf>>
factorVars == <<factor, device, tab, proven, dropped, mixed>>
gateVars == <<now, truth, turned, turns, memo, visit>>
authorityVars == <<enrolled, grants, rights>>
formVars == <<form, programme, waypoint, sitting, dangling>>
signVars == <<provider, state, joined, belongs, opened, arrival, halted, reused>>
estateVars == <<focus,
                lifecycleVars, leasingVars, stockVars, programmeVars, documentVars, registerVars,
                accountVars, teamVars, assetVars, grantVars, occupantVars, scanVars,
                calendarVars, reminderVars, applyingVars, factorVars, gateVars, authorityVars,
                formVars, signVars>>

\* What the variables of a part out of focus hold: no action reads them.
Off == "off"

MCInit ==
    /\ focus \in {"lifecycle", "leasing", "admins", "stock", "programme", "documents", "registers",
                  "accounts", "team", "assets", "grants", "occupants", "scans", "calendar",
                  "reminders", "applicability", "factor", "gate", "authority", "forms",
                  "signin"}
    /\ IF focus = "lifecycle" THEN Lifecycle!Init
       ELSE /\ life = Off /\ stamps = Off /\ setup = Off /\ moves = Off /\ createCut = Off
    /\ IF focus \in {"leasing", "admins"} THEN Occupancy!LeasingInit
       ELSE /\ allocations = Off /\ leased = Off /\ admin = Off /\ grant = Off
            /\ leaseCall = Off /\ leaseCut = Off
    /\ IF focus = "stock" THEN Inventory!Init
       ELSE /\ onHand = Off /\ taking = Off
    /\ IF focus = "programme" THEN Programme!ProgrammeInit
       ELSE /\ plan = Off /\ templates = Off /\ exempt = Off /\ planning = Off
            /\ stray = Off
    /\ IF focus = "documents" THEN Archive!PaperInit
       ELSE /\ document = Off /\ stored = Off /\ clerk = Off /\ usesLeft = Off
            /\ redeemed = Off /\ disturbed = Off /\ unheld = Off /\ halved = Off
    /\ IF focus = "registers" THEN Register!Init
       ELSE /\ rows = Off /\ editing = Off /\ stale = Off
    /\ IF focus = "accounts" THEN Identity!AccountInit
       ELSE /\ account = Off /\ linked = Off /\ session = Off /\ request = Off /\ desk = Off
            /\ interrupted = Off /\ rewritten = Off
    /\ IF focus = "team" THEN Team!Init
       ELSE /\ member = Off /\ roles = Off /\ given = Off /\ office = Off /\ excused = Off
            /\ robbed = Off
    /\ IF focus = "assets" THEN Registry!AssetInit
       ELSE /\ assetType = Off /\ asset = Off /\ announced = Off /\ creating = Off
            /\ lax = Off
    /\ IF focus = "grants" THEN Rights!GrantInit
       ELSE /\ granted = Off /\ staff = Off /\ doing = Off /\ chartered = Off
            /\ deprived = Off
    /\ IF focus = "occupants" THEN Occupancy!OccupierInit
       ELSE /\ company = Off /\ settings = Off /\ manager = Off /\ hand = Off
            /\ recast = Off
    /\ IF focus = "scans" THEN Registry!ScanInit
       ELSE /\ upright = Off /\ located = Off /\ washZone = Off /\ point = Off
            /\ place = Off /\ printing = Off /\ shared = Off /\ relet = Off
    /\ IF focus = "calendar" THEN Calendar!DateInit
       ELSE /\ clock = Off /\ item = Off
    /\ IF focus = "reminders" THEN Calendar!ReminderInit
       ELSE /\ day = Off /\ due = Off /\ told = Off /\ scan = Off
            /\ owed = Off /\ untold = Off /\ contended = Off /\ doubled = Off
    /\ IF focus = "applicability" THEN Programme!ObligationInit
       ELSE /\ storeys = Off /\ auto = Off /\ mark = Off /\ flow = Off /\ evaluation = Off
            /\ asOf = Off
    /\ IF focus = "factor" THEN Sign!FactorInit
       ELSE /\ factor = Off /\ device = Off /\ tab = Off /\ proven = Off /\ dropped = Off
            /\ mixed = Off
    /\ IF focus = "gate" THEN Identity!GateInit
       ELSE /\ now = Off /\ truth = Off /\ turned = Off /\ turns = Off /\ memo = Off
            /\ visit = Off
    /\ IF focus = "authority" THEN Rights!ActorInit
       ELSE /\ enrolled = Off /\ grants = Off /\ rights = Off
    /\ IF focus = "forms" THEN Archive!FormInit
       ELSE /\ form = Off /\ programme = Off /\ waypoint = Off /\ sitting = Off
            /\ dangling = Off
    /\ IF focus = "signin" THEN Sign!ProviderInit
       ELSE /\ provider = Off /\ state = Off /\ joined = Off /\ belongs = Off
            /\ opened = Off /\ arrival = Off /\ halted = Off /\ reused = Off

MCNext ==
    \/ /\ focus = "lifecycle" /\ Lifecycle!Next
       /\ UNCHANGED <<focus, leasingVars, stockVars, programmeVars, documentVars,
                      registerVars, accountVars, teamVars, assetVars, grantVars,
                      occupantVars, scanVars, calendarVars, reminderVars, applyingVars,
                      factorVars, gateVars, authorityVars, formVars, signVars>>
    \/ /\ focus = "leasing" /\ Occupancy!AllocationNext
       /\ UNCHANGED <<focus, lifecycleVars, stockVars, programmeVars, documentVars,
                      registerVars, accountVars, teamVars, assetVars, grantVars,
                      occupantVars, scanVars, calendarVars, reminderVars, applyingVars,
                      factorVars, gateVars, authorityVars, formVars, signVars>>
    \/ /\ focus = "admins" /\ Occupancy!AdminNext
       /\ UNCHANGED <<focus, lifecycleVars, stockVars, programmeVars, documentVars,
                      registerVars, accountVars, teamVars, assetVars, grantVars,
                      occupantVars, scanVars, calendarVars, reminderVars, applyingVars,
                      factorVars, gateVars, authorityVars, formVars, signVars>>
    \/ /\ focus = "stock" /\ Inventory!Next
       /\ UNCHANGED <<focus, lifecycleVars, leasingVars, programmeVars, documentVars,
                      registerVars, accountVars, teamVars, assetVars, grantVars,
                      occupantVars, scanVars, calendarVars, reminderVars, applyingVars,
                      factorVars, gateVars, authorityVars, formVars, signVars>>
    \/ /\ focus = "programme" /\ Programme!ProgrammeNext
       /\ UNCHANGED <<focus, lifecycleVars, leasingVars, stockVars, documentVars,
                      registerVars, accountVars, teamVars, assetVars, grantVars,
                      occupantVars, scanVars, calendarVars, reminderVars, applyingVars,
                      factorVars, gateVars, authorityVars, formVars, signVars>>
    \/ /\ focus = "documents" /\ Archive!PaperNext
       /\ UNCHANGED <<focus, lifecycleVars, leasingVars, stockVars, programmeVars,
                      registerVars, accountVars, teamVars, assetVars, grantVars,
                      occupantVars, scanVars, calendarVars, reminderVars, applyingVars,
                      factorVars, gateVars, authorityVars, formVars, signVars>>
    \/ /\ focus = "registers" /\ Register!Next
       /\ UNCHANGED <<focus, lifecycleVars, leasingVars, stockVars, programmeVars,
                      documentVars, accountVars, teamVars, assetVars, grantVars,
                      occupantVars, scanVars, calendarVars, reminderVars, applyingVars,
                      factorVars, gateVars, authorityVars, formVars, signVars>>
    \/ /\ focus = "accounts" /\ Identity!AccountNext
       /\ UNCHANGED <<focus, lifecycleVars, leasingVars, stockVars, programmeVars,
                      documentVars, registerVars, teamVars, assetVars, grantVars,
                      occupantVars, scanVars, calendarVars, reminderVars, applyingVars,
                      factorVars, gateVars, authorityVars, formVars, signVars>>
    \/ /\ focus = "team" /\ Team!Next
       /\ UNCHANGED <<focus, lifecycleVars, leasingVars, stockVars, programmeVars,
                      documentVars, registerVars, accountVars, assetVars, grantVars,
                      occupantVars, scanVars, calendarVars, reminderVars, applyingVars,
                      factorVars, gateVars, authorityVars, formVars, signVars>>
    \/ /\ focus = "assets" /\ Registry!AssetNext
       /\ UNCHANGED <<focus, lifecycleVars, leasingVars, stockVars, programmeVars,
                      documentVars, registerVars, accountVars, teamVars, grantVars,
                      occupantVars, scanVars, calendarVars, reminderVars, applyingVars,
                      factorVars, gateVars, authorityVars, formVars, signVars>>
    \/ /\ focus = "grants" /\ Rights!GrantNext
       /\ UNCHANGED <<focus, lifecycleVars, leasingVars, stockVars, programmeVars,
                      documentVars, registerVars, accountVars, teamVars, assetVars,
                      occupantVars, scanVars, calendarVars, reminderVars, applyingVars,
                      factorVars, gateVars, authorityVars, formVars, signVars>>
    \/ /\ focus = "occupants" /\ Occupancy!OccupierNext
       /\ UNCHANGED <<focus, lifecycleVars, leasingVars, stockVars, programmeVars,
                      documentVars, registerVars, accountVars, teamVars, assetVars,
                      grantVars, scanVars, calendarVars, reminderVars, applyingVars,
                      factorVars, gateVars, authorityVars, formVars, signVars>>
    \/ /\ focus = "scans" /\ Registry!ScanNext
       /\ UNCHANGED <<focus, lifecycleVars, leasingVars, stockVars, programmeVars,
                      documentVars, registerVars, accountVars, teamVars, assetVars,
                      grantVars, occupantVars, calendarVars, reminderVars, applyingVars,
                      factorVars, gateVars, authorityVars, formVars, signVars>>
    \/ /\ focus = "calendar" /\ Calendar!DateNext
       /\ UNCHANGED <<focus, lifecycleVars, leasingVars, stockVars, programmeVars,
                      documentVars, registerVars, accountVars, teamVars, assetVars,
                      grantVars, occupantVars, scanVars, reminderVars, applyingVars,
                      factorVars, gateVars, authorityVars, formVars, signVars>>
    \/ /\ focus = "reminders" /\ Calendar!ReminderNext
       /\ UNCHANGED <<focus, lifecycleVars, leasingVars, stockVars, programmeVars,
                      documentVars, registerVars, accountVars, teamVars, assetVars,
                      grantVars, occupantVars, scanVars, calendarVars, applyingVars,
                      factorVars, gateVars, authorityVars, formVars, signVars>>
    \/ /\ focus = "applicability" /\ Programme!ObligationNext
       /\ UNCHANGED <<focus, lifecycleVars, leasingVars, stockVars, programmeVars,
                      documentVars, registerVars, accountVars, teamVars, assetVars,
                      grantVars, occupantVars, scanVars, calendarVars, reminderVars,
                      factorVars, gateVars, authorityVars, formVars, signVars>>
    \/ /\ focus = "factor" /\ Sign!FactorNext
       /\ UNCHANGED <<focus, lifecycleVars, leasingVars, stockVars, programmeVars,
                      documentVars, registerVars, accountVars, teamVars, assetVars,
                      grantVars, occupantVars, scanVars, calendarVars, reminderVars,
                      applyingVars, gateVars, authorityVars, formVars, signVars>>
    \/ /\ focus = "gate" /\ Identity!GateNext
       /\ UNCHANGED <<focus, lifecycleVars, leasingVars, stockVars, programmeVars,
                      documentVars, registerVars, accountVars, teamVars, assetVars,
                      grantVars, occupantVars, scanVars, calendarVars, reminderVars,
                      applyingVars, factorVars, authorityVars, formVars, signVars>>
    \/ /\ focus = "authority" /\ Rights!ActorNext
       /\ UNCHANGED <<focus, lifecycleVars, leasingVars, stockVars, programmeVars,
                      documentVars, registerVars, accountVars, teamVars, assetVars,
                      grantVars, occupantVars, scanVars, calendarVars, reminderVars,
                      applyingVars, factorVars, gateVars, formVars, signVars>>
    \/ /\ focus = "forms" /\ Archive!FormNext
       /\ UNCHANGED <<focus, lifecycleVars, leasingVars, stockVars, programmeVars,
                      documentVars, registerVars, accountVars, teamVars, assetVars,
                      grantVars, occupantVars, scanVars, calendarVars, reminderVars,
                      applyingVars, factorVars, gateVars, authorityVars, signVars>>
    \/ /\ focus = "signin" /\ Sign!ProviderNext
       /\ UNCHANGED <<focus, lifecycleVars, leasingVars, stockVars, programmeVars,
                      documentVars, registerVars, accountVars, teamVars, assetVars,
                      grantVars, occupantVars, scanVars, calendarVars, reminderVars,
                      applyingVars, factorVars, gateVars, authorityVars, formVars>>

MCSpec == MCInit /\ [][MCNext]_estateVars

MCSymmetry ==
    Permutations({s1, s2}) \cup Permutations({b1, b2}) \cup Permutations({p1, p2})

\* The types of the modules' variables
EstateTypes ==
    /\ focus = "lifecycle" => Lifecycle!TypeOK
    /\ focus \in {"leasing", "admins"} => Occupancy!LeasingTypeOK
    /\ focus = "stock" => Inventory!TypeOK
    /\ focus = "programme" => Programme!ProgrammeTypeOK
    /\ focus = "documents" => Archive!PaperTypeOK
    /\ focus = "registers" => Register!TypeOK
    /\ focus = "accounts" => Identity!AccountTypeOK
    /\ focus = "team" => Team!TypeOK
    /\ focus = "assets" => Registry!AssetTypeOK
    /\ focus = "grants" => Rights!GrantTypeOK
    /\ focus = "occupants" => Occupancy!OccupierTypeOK
    /\ focus = "scans" => Registry!ScanTypeOK
    /\ focus = "calendar" => Calendar!DateTypeOK
    /\ focus = "reminders" => Calendar!ReminderTypeOK
    /\ focus = "applicability" => Programme!ObligationTypeOK
    /\ focus = "factor" => Sign!FactorTypeOK
    /\ focus = "gate" => Identity!GateTypeOK
    /\ focus = "authority" => Rights!ActorTypeOK
    /\ focus = "forms" => Archive!FormTypeOK
    /\ focus = "signin" => Sign!ProviderTypeOK

\* buildings.service.ts:450-467: an active building has been published and an
\* archived one has its date, whatever transitions overlap.
StampsMatchLife == focus = "lifecycle" => Lifecycle!StampsMatchLife

\* leases.service.ts:118-138, tenant-companies.service.ts:108-119: isLeased says whether an
\* allocation points at the spot, once an alone call has written it (before, it is what the
\* spot was entered as), and a grant belongs to the present administrator.
LeasesAgree == focus \in {"leasing", "admins"} => Occupancy!LeasesAgree

\* inventory.service.ts:225: how far overlapping calls take the stock below zero.
OversellBound == focus = "stock" => Inventory!OversellBound

\* ppm.service.ts:529-585 and :1568-1596, applicability.service.ts:50-89, blackout.ts:64-73,
\* sla-reminder.worker.ts:50-79: a template has a plan item, what applies to a building has a
\* row, a due date is the first day no blackout names, and those are reminded whom a plan
\* named when a scan began or who held its roles at its turn, unless a call was cut short, a
\* mark took the item, or a rule is one of those the engine does not follow.
ProgrammeHolds ==
    /\ focus = "programme" => Programme!TemplatesHaveItems
    /\ focus = "applicability" => Programme!ObligationsAreKnown
    /\ focus = "calendar" => Calendar!DueIsWorkable
    /\ focus = "reminders" => Calendar!RemindersReachAll

\* documents.service.ts:89-91 and :158-169: a document on legal hold can be read, unless
\* its object was deleted for another document, the hold came after its deletion began, or a
\* deletion was cut between the object and the row.
HeldIsReadable == focus = "documents" => Archive!HeldIsReadable

\* approval-policies.service.ts:67-99 and privacy.service.ts:343-398: one version of a policy
\* or of a template is in force, unless two edits read the same one; document-templates.service.ts:
\* 75-171: a template that a programme took is there.
OneInForce ==
    /\ focus = "registers" => Register!OneInForce
    /\ focus = "forms" => Archive!TemplatesAreThere

\* auth.service.ts:405-424, privacy.service.ts:461-548, mfa.service.ts:27-57, tenant.middleware.ts:
\* 119-288, sso.service.ts:187-345: an erased person has no name, no password and no session
\* opened before, unless the erasure was cut short or overtaken, a second factor in use is one
\* the user gave a code of, a request is let in on what was so lately, and whoever signs in
\* with a provider belongs to the workspace, once for each time they were sent there.
AccountsHold ==
    /\ focus = "accounts" => Identity!ErasureHolds
    /\ focus = "factor" => Sign!FactorIsProven
    /\ focus = "gate" => Identity!VerdictsAreFresh
    /\ focus = "signin" => Sign!SignInsAreWhole

\* team.service.ts:201-234, roles.service.ts:255-290, iam.service.ts:164-354: an inactive
\* member holds no role, every grant is of a role that exists, and no chain of delegations
\* widens a scope, unless a call that overlapped made it otherwise; actor-resolver.ts:64-79: and
\* a user who was given a scope has it.
RightsAreHeld ==
    /\ focus = "team" => Team!InactiveHoldsNothing
    /\ focus = "grants" => Rights!RanksNeverRise
    /\ focus = "authority" => Rights!ScopesAgree

\* assets.service.ts:250-345, occupants.service.ts:43-411, cleaning.qr.service.ts:163-296:
\* what is registered in a building is sound and announced, listed, and found by its code,
\* but for what an edit, a retyped type, a cut or a value nobody checked has changed.
BuildingIsRegistered ==
    /\ focus = "assets" => Registry!AssetsAreSound
    /\ focus = "occupants" => Occupancy!OccupiersAreListed
    /\ focus = "scans" => Registry!PointsLeadHome
=============================================================================
