\* One module at a time: two calls, two buildings, four rows, two companies, a plan of two
\* items, two documents, a policy and a template with three versions,
\* one account with two sessions, two members and two roles.
CONSTANTS
    s1 = s1
    s2 = s2
    b1 = b1
    b2 = b2
    p1 = p1
    p2 = p2
    Lanes = {s1, s2}
    Buildings = {"b1"}
    Contracts = {"k1", "k2"}
    Spots = {"p1"}
    Rooms = {"r1"}
    Companies = {p1, p2}
    People = {b1, b2}
    Occupiers = {p1, p2}
    Fields = {"sla"}
    Managers = {"u1"}
    Hands = {s1, s2}
    Takers = {s1, s2}
    Places = {"p1", "p2"}
    MaxQuantity = 2
    MaxOnHand = 3
    Grounds = {"b1"}
    Duties = {"o1"}
    Units = {}
    PlanItems = {b1, b2}
    Templates = {p1, p2}
    Assets = {"a1"}
    AssetSite <- MCAssetSite
    Planners = {s1, s2}
    Demands = {"o4", "o5"}
    Rule <- MCRule
    Storeys <- MCStoreys
    Evaluations = {"v"}
    Papers = {p1, p2}
    Contents = {b1, b2}
    Clerks = {s1, s2}
    MaxUses = 2
    Forms = {p1, p2}
    FormKeys = {"k", "l"}
    Sittings = {s1, s2}
    PolicyNames = {"pol"}
    DpaKeys = {"dpa"}
    Editors = {s1, s2}
    Floors = {0, 1}
    MaxRows = 3
    Folks = {"u1"}
    Emails = {"e1"}
    Tokens = {b1, b2}
    Erasures = {"q1"}
    Desks = {s1, s2}
    Visits = {s1, s2}
    Routes <- MCRoutes
    Lifetime = 1
    Slow = 1
    LastMoment = 4
    MaxTurns = 1
    Members = {b1, b2}
    Posts = {"boss", "tech"}
    Custom = {"tech"}
    Delegable <- MCDelegable
    Offices = {s1, s2}
    Equipment = {"m1"}
    AssetTypes = {"t1"}
    Bodies <- MCBodies
    Registrars = {"g1"}
    MaxRowsLeft = 1
    Sites = {"h1", "h2"}
    Spaces = {"r1", "u1"}
    Lettable = {"u1"}
    ZoneCodes = {"k", "m"}
    SpaceSite <- MCSpaceSite
    SpaceCode <- MCSpaceCode
    Points = {p1, p2}
    Labels = {"a", "A"}
    Upper <- MCUpper
    Printers = {s1, s2}
    Founder = "f"
    Residents = {p1, p2}
    Ranks <- MCRanks
    Delegation <- MCDelegation
    FounderRole = "tech"
    Doers = {s1, s2}
    Titles = {"tech", "mgr"}
    Permissions = {"see", "do"}
    FirstRights <- MCFirstRights
    GrantRows <- MCGrantRows
    Blackouts <- MCBlackouts
    WeekLength = 3
    DaysPerMonth = 2
    Months = 4
    Period = 2
    Fallback = 5
    MaxRoll = 2
    LastInstant = 3
    Dues = {2, 5}
    Ahead = {1}
    Addressees = {b1, b2}
    Runs = {s1, s2}
    LastDay = 2
    States = {p1, p2}
    Arrivals = {s1, s2}
    Secrets = {b1, b2}
    Tabs = {s1, s2}
SYMMETRY MCSymmetry
SPECIFICATION MCSpec
INVARIANTS
    StampsMatchLife
    LeasesAgree
    OversellBound
    ProgrammeHolds
    HeldIsReadable
    OneInForce
    AccountsHold
    RightsAreHeld
    BuildingIsRegistered
CHECK_DEADLOCK FALSE
