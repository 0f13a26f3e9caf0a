\* One module at a time: two or three calls, two cases, two quotes, three of the staff, two
\* mails, an import of two lines of each kind, one newcomer, three signers.
CONSTANTS
    s1 = s1
    s2 = s2
    t1 = t1
    t2 = t2
    t3 = t3
    Incidents = {"c1"}
    Requests = {"c2"}
    WorkOrders = {"w1", "w2"}
    Quotes = {"q1", "q2"}
    Desk = {s1, s2}
    Mails = {"m1", "m2"}
    Posts = {s1, s2}
    Rows = {"r1", "r2", "r3", "r4"}
    Crew = {"u1", "u2", "u3"}
    BuildingStaff = {"u1", "u3"}
    Wardens = {s1, s2}
    Tickets = {"c1"}
    Tours = {"t1"}
    Plans <- MCPlans
    MaxOrder = 4
    Walkers = {s1, s2}
    Workbooks = {"x1"}
    Bundles = {"z1"}
    LastLine = 2
    Clerks = {t1, t2, t3}
    Newcomers = {"u1"}
    Tenants = {"w1", "w2"}
    Slugs = {"g1", "g2"}
    Doors = {"d1"}
    Levels = {"g"}
    Openings = {s1, s2}
    Projects = {"p1"}
    BudgetLines = {"l1"}
    ChangeOrders = {"o1"}
    Stages = {"run", "closed"}
    Bookkeepers = {s1, s2}
    MaxHistory = 3
    People = {t1, t2, t3}
    Papers = {"d1"}
    Meetings = {s1, s2}
    Overrides = {"e1"}
    Signers = {t1, t2, t3}
    Seats = {s1, s2}
    Pens = {s1, s2}
    Chores = {"h1", "h2"}
    Certified = {"h1"}
    Statutory = {"o1", "o2", "o3"}
    Minimum <- MCMinimum
    Statuses = {"open", "overdue", "completed"}
    Heights <- MCHeights
    Visits = {"v1", "v2"}
    When <- MCWhen
    Strict = {"v2"}
    PageSize = 1
    Faults = {"f1", "f2"}
    Asks = {"a1", "a2"}
    QueueSize = 1
    SoonHours = 1
    LastHour = 3
    Names = {"v1", "v2"}
    Sheet <- MCSheet
    Vendors = {"e1", "e2", "e3"}
    Envelope <- MCEnvelope
    Protocol = "bacnet"
    Loops = {s1, s2}
    MaxPosts = 2
    Bills = {"i1", "i2"}
    BillDate <- MCBillDate
    Gross <- MCGross
    Tax <- MCTax
    Dates = {1, 2, 3, 4}
    Operators = {"gte", "crossing"}
    Values = {1, 2, 3}
    Threshold = 2
    Cooldown = 2
    Readers = {s1, s2}
    MaxTime = 3
    Audience = {s1, s2}
    Mailboxes = {"x"}
    Profiles <- MCProfiles
    FirstProfile <- MCFirstProfile
    NotifyRules <- MCNotifyRules
    Named = {s1, s2}
    Dispatches = {"d1"}
    Zones = {"z1"}
    Contractors = {"k1", "k2"}
    Supervisors = {"sue"}
    Cleaners = {"bo"}
    Employer <- MCEmployer
    Jobs = {"r1"}
    Shifts = {s1, s2}
    Sites = {s1, s2}
    Items = {1, 2, 3, 4}
    Entities = {"e", "f"}
    Texts = {"x", "y"}
    PageLength = 1
    FileLength = 2
    LastEntry = 3
    Addresses = {s1, s2}
    MaxRowsEach = 2
    MaxTasks = 3
    Horizon = 30
SYMMETRY MCSymmetry
SPECIFICATION MCSpec
INVARIANTS
    StatusIsEarned
    RightPeople
    OneWorkPerSignal
    WrittenWhole
    
    SignaturesHold
    StaysInBuilding
    ClosedStaysClosed
CHECK_DEADLOCK FALSE
