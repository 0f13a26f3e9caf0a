---------------------------- MODULE PpmCalendar ----------------------------
(***************************************************************************)
(* The dates of a plan item: when it is due, and the reminders sent        *)
(* before.                                                                 *)
(***************************************************************************)
EXTENDS Integers, FiniteSets, FiniteSetsExt

CONSTANTS
    Blackouts,   \* rows of CalendarBlackout, as records
    WeekLength,
    DaysPerMonth,
    Months,
    Period,      \* days between two occurrences of the item's RRULE
    Fallback,    \* ... and of its frequencyMonths, when the RRULE does not parse
    MaxRoll,     \* 14 in the code
    LastInstant, \* bound on the instants
    Dues,        \* the instants the item can be due at
    Ahead,       \* the template's slaReminderDays
    Addressees,  \* users
    Runs,        \* runs of the scan that can be in progress
    LastDay      \* bound on the days

VARIABLES
    clock,   \* the instant
    item,    \* the plan item: its due date, the date it was moved from and the rules applied
    day,     \* the day
    due,     \* when the plan item is due
    told,    \* <<user, day due, days ahead>> of the notifications
    scan,    \* scan[s]: the reminder run s is at, with what it has read
    owed,    \* history: what a run set out to tell
    untold,  \* history: reminders whose run was cut short
    raced,   \* history: reminders two runs were at
    doubled  \* history: notifications created a second time

-----------------------------------------------------------------------------
(***************************************************************************)
(* When a plan item is due: the recurrence and the blackout engine, and    *)
(* the handlers that compute a due date.  An instant counts half-days: day *)
(* d begins at instant 2 * d.  The year of the annual rules has Months     *)
(* months of DaysPerMonth days.                                            *)
(***************************************************************************)

dateVars == <<clock, item>>

NoItem == [due |-> -1, from |-> -1, rules |-> {}, parses |-> TRUE]

DateInit == clock = 0 /\ item = NoItem

DayOf(x) == x \div 2
Dom(d) == d % DaysPerMonth
MonthOf(d) == (d \div DaysPerMonth) % Months
-----------------------------------------------------------------------------
(* engine/blackout.ts *)

\* CalendarBlackoutsService.create: a weekly rule, or one with a first day.
Creatable(r) ==
    /\ r.policy \in {"shift", "skip", "defer_to_next_working_day"}
    /\ r.weekday # -1 => r.weekday \in 0..WeekLength - 1
    /\ r.weekday = -1 => r.first # -1

\* mutant: a range that wraps around the year covers nothing between its ends
AnnualHitUnwrapped(d, r) ==
    LET m == MonthOf(r.first)  em == MonthOf(r.last)  dm == MonthOf(d) IN
    IF m = em THEN dm = m /\ Dom(d) \in Dom(r.first)..Dom(r.last)
    ELSE IF dm = m THEN Dom(d) >= Dom(r.first)
    ELSE IF dm = em THEN Dom(d) <= Dom(r.last)
    ELSE dm > m /\ dm < em

AnnualHit(d, r) ==
    LET m == MonthOf(r.first)  em == MonthOf(r.last)  dm == MonthOf(d) IN
    IF m = em THEN dm = m /\ Dom(d) \in Dom(r.first)..Dom(r.last)
    ELSE IF dm = m THEN Dom(d) >= Dom(r.first)
    ELSE IF dm = em THEN Dom(d) <= Dom(r.last)
    ELSE (dm > m /\ dm < em) \/ (m > em /\ (dm > m \/ dm < em))

\* A single range is one of instants: its last one is the midnight that begins its last day.
IsInRange(x, r) ==
    IF r.weekday # -1 THEN DayOf(x) % WeekLength = r.weekday
    ELSE IF r.annual THEN AnnualHit(DayOf(x), r)
    ELSE x \in 2 * r.first .. 2 * r.last

\* loadBlackouts takes the rules of the tenant and of the building, in no order.
LoadBlackouts(rules) == {r \in rules : r.building \in {"all", "this"}}
Orders(rules) == {f \in [rules -> 1..Cardinality(rules)] : \A q, r \in rules : f[q] = f[r] => q = r}

\* The date the caller goes on with: a null of `skip` leaves the one it had.
ApplyBlackouts(x, rules, order) ==
    LET hits(i) == {r \in rules : IsInRange(x + 2 * i, r)}
        hit(i) == CHOOSE r \in hits(i) : \A q \in hits(i) : order[r] <= order[q]
        stops == {i \in 0..MaxRoll - 1 : hits(i) = {} \/ hit(i).policy = "skip"}
    IN IF stops = {} THEN x + 2 * MaxRoll
       ELSE IF hits(Min(stops)) = {} THEN x + 2 * Min(stops)
       ELSE x

NextDueFrom(parses, x) == x + 2 * (IF parses THEN Period ELSE Fallback)

MovedFrom(x, rules, order) ==
    LET raw == NextDueFrom(item.parses, x) IN
    [item EXCEPT !.from = raw, !.rules = rules, !.due = ApplyBlackouts(raw, LoadBlackouts(rules), order)]

MoveTo(x, rules) == item' \in {MovedFrom(x, rules, order) : order \in Orders(LoadBlackouts(rules))}
-----------------------------------------------------------------------------
(* The plan item *)

\* The first due date is no matter of the rules.
CreateProgram(parses, first) ==
    /\ item = NoItem
    /\ item' = [NoItem EXCEPT !.due = first, !.parses = parses]
    /\ UNCHANGED clock

\* mode = set: not in the future
RecordBaselineSet(from, rules) ==
    /\ item # NoItem
    /\ from <= clock
    /\ MoveTo(from, rules)
    /\ UNCHANGED clock

\* mode = unknown_immediate and unknown_backdated: due now, whatever the rules
RecordBaselineUnknown ==
    /\ item # NoItem
    /\ item' = [item EXCEPT !.due = clock, !.from = -1, !.rules = {}]
    /\ UNCHANGED clock

\* The date of completion is the caller's.
RecordCompletion(completedAt, rules) ==
    /\ item # NoItem
    /\ MoveTo(completedAt, rules)
    /\ UNCHANGED clock

Tick == clock < LastInstant /\ clock' = clock + 1 /\ UNCHANGED item

DateNext ==
    \/ \E parses \in BOOLEAN, first \in 0..LastInstant : CreateProgram(parses, first)
    \/ \E x \in 0..LastInstant, rules \in SUBSET {r \in Blackouts : Creatable(r)} :
           RecordBaselineSet(x, rules) \/ RecordCompletion(x, rules)
    \/ RecordBaselineUnknown
    \/ Tick
-----------------------------------------------------------------------------
(***************************************************************************)
(* The daily scan that reminds the assignee and the role holders of a plan *)
(* item some days before it is due (scanAndSendReminders).  An instant     *)
(* counts half-days: day d begins, and its scan runs, at instant 2 * d.    *)
(***************************************************************************)

reminderVars == <<day, due, told, scan, owed, untold, raced, doubled>>

Resting == [op |-> "idle"]

ReminderInit ==
    /\ day = 0
    /\ due = CHOOSE d \in Dues : \A e \in Dues : d <= e
    /\ told = {}
    /\ scan = [s \in Runs |-> Resting]
    /\ owed = {}
    /\ untold = {}
    /\ raced = {}
    /\ doubled = {}

-----------------------------------------------------------------------------
(* sla-reminder.worker.ts: once a day, and whenever ppm/sla/scan-now is called *)

\* The plans are read once, each with its due date, its assignee and the recipients of its
\* template: named are the users among them, whoever they are by then.
StartScan(s, named) ==
    /\ scan[s].op = "idle"
    /\ scan' = [scan EXCEPT ![s] =
           [op |-> "plan", at |-> 2 * day, due |-> due, named |-> named, todo |-> Ahead]]
    /\ UNCHANGED <<day, due, told, owed, untold, raced, doubled>>

Abs(x) == IF x < 0 THEN -x ELSE x
DueFor(x, d, n) == Abs(x - (d - 2 * n)) <= 1

\* mutant: the reminder of an item is looked for by its days ahead alone
AlreadyOfItem(d, n) == \E t \in told : t[3] = n

Already(d, n) == \E u \in Addressees : <<u, DayOf(d), n>> \in told

\* The run r at reminder n with whom it has left to tell, or what comes after it
Busy(r, op, n, left) ==
    [op |-> op, at |-> r.at, due |-> r.due, named |-> r.named, todo |-> r.todo \ {n}, n |-> n, left |-> left]
After(r, n) ==
    IF r.todo \subseteq {n} THEN Resting
    ELSE [op |-> "plan", at |-> r.at, due |-> r.due, named |-> r.named, todo |-> r.todo \ {n}]

IsAt(s, d, n) == scan[s].op \in {"read", "tell"} /\ DayOf(scan[s].due) = DayOf(d) /\ scan[s].n = n

\* One notification of this type in the tenant, and the reminder is passed over.  The users are
\* those the plan named when it was read.
Remind(s, n) ==
    /\ scan[s].op = "plan"
    /\ n \in scan[s].todo
    /\ LET d == scan[s].due
           today == DueFor(scan[s].at, d, n)
           tags == {<<u, DayOf(d), n>> : u \in Addressees} IN
           /\ scan' = [scan EXCEPT ![s] =
                  IF today /\ ~Already(d, n) THEN Busy(@, "read", n, @.named) ELSE After(@, n)]
           /\ owed' = owed \cup {t \in tags : today /\ t[1] \in scan[s].named /\ tags \cap told = {}}
           /\ raced' = raced \cup {<<DayOf(d), n>> : r \in {q \in Runs : IsAt(q, d, n)}}
    /\ UNCHANGED <<day, due, told, untold, doubled>>

\* Who has a role that the template named is read for each reminder: found, by then.
ReadHolders(s, found) ==
    /\ scan[s].op = "read"
    /\ LET all == scan[s].left \cup found IN
           scan' = [scan EXCEPT ![s] = IF all = {} THEN After(@, @.n) ELSE Busy(@, "tell", @.n, all)]
    /\ owed' = owed \cup {<<u, DayOf(scan[s].due), scan[s].n>> : u \in found}
    /\ UNCHANGED <<day, due, told, untold, raced, doubled>>

Tell(s, u) ==
    /\ scan[s].op = "tell"
    /\ u \in scan[s].left
    /\ LET tag == <<u, DayOf(scan[s].due), scan[s].n>> IN
           /\ told' = told \cup {tag}
           /\ doubled' = doubled \cup ({tag} \cap told)
    /\ scan' = [scan EXCEPT ![s] = IF @.left = {u} THEN After(@, @.n) ELSE Busy(@, "tell", @.n, @.left \ {u})]
    /\ UNCHANGED <<day, due, owed, untold, raced>>

\* A statement throws, or the process dies; the job is not tried again before the next day.
CutScan(s) ==
    /\ scan[s].op # "idle"
    /\ untold' = untold \cup
           (IF scan[s].op = "plan" THEN {} ELSE {<<DayOf(scan[s].due), scan[s].n>>})
    /\ scan' = [scan EXCEPT ![s] = Resting]
    /\ UNCHANGED <<day, due, told, owed, raced, doubled>>
-----------------------------------------------------------------------------
\* A baseline or a completion moves the date (PpmCalendar); here, ahead.
MoveDue(d) == d > due /\ due' = d /\ UNCHANGED <<day, told, scan, owed, untold, raced, doubled>>

NextDay ==
    /\ day < LastDay
    /\ day' = day + 1
    /\ UNCHANGED <<due, told, scan, owed, untold, raced, doubled>>

ReminderNext ==
    \/ \E d \in Dues : MoveDue(d)
    \/ \E s \in Runs :
           \/ \E users \in SUBSET Addressees : StartScan(s, users) \/ ReadHolders(s, users)
           \/ CutScan(s)
           \/ \E n \in Ahead : Remind(s, n)
           \/ \E u \in Addressees : Tell(s, u)
    \/ NextDay
-----------------------------------------------------------------------------
vars == <<dateVars, reminderVars>>

Init == DateInit /\ ReminderInit

\* The parts share no rows; a step is one of either.
Next ==
    \/ DateNext /\ UNCHANGED reminderVars
    \/ ReminderNext /\ UNCHANGED dateVars

Spec == Init /\ [][Next]_vars
-----------------------------------------------------------------------------
DateTypeOK ==
    /\ clock \in 0..LastInstant
    /\ item.due \in Int /\ item.from \in Int /\ item.rules \subseteq Blackouts /\ item.parses \in BOOLEAN

\* The days of a year a range covers, going forward from its first day
Covers(first, last, d) ==
    LET year == Months * DaysPerMonth IN (d - first) % year <= (last - first) % year

\* Whether a rule, read as the days it names, takes the day of an instant
Names(r, x) ==
    IF r.weekday # -1 THEN DayOf(x) % WeekLength = r.weekday
    ELSE IF r.annual THEN Covers(r.first, r.last, DayOf(x))
    ELSE DayOf(x) \in r.first..r.last

\* An annual range that is nearly a year long
EndsBeforeItBegan(r) == MonthOf(r.first) = MonthOf(r.last) /\ Dom(r.last) < Dom(r.first)

\* blackout.ts:64-73, ppm.service.ts:937-941 and :1161-1165: a due date that was computed is
\* the first day no rule names.  It is not when a rule says skip (the null it returns is
\* ignored and the blocked date kept), when MaxRoll days in a row are blocked, when the
\* date falls, after midnight, on the last day of a single range, or in an annual range that
\* ends in the month it began in, the year after: blackout.ts:35 finds no day in that.
DueIsWorkable ==
    LET rules == LoadBlackouts(item.rules)
        blocked(x) == \E r \in rules : Names(r, x)
        hour(x) == \E r \in rules : r.weekday = -1 /\ ~r.annual /\ DayOf(x) = r.last /\ x > 2 * r.last
        round(x) == \E r \in rules : r.weekday = -1 /\ r.annual /\ EndsBeforeItBegan(r) /\ Names(r, x)
        tries == {item.from + 2 * i : i \in 0..MaxRoll - 1}
    IN item.from # -1 =>
        \/ ~blocked(item.due) /\ \A x \in tries : x < item.due => blocked(x)
        \/ item.due = item.from /\ \E x \in tries : \E r \in rules : r.policy = "skip" /\ Names(r, x)
        \/ item.due = item.from + 2 * MaxRoll /\ \A x \in tries : blocked(x)
        \/ hour(item.due)
        \/ round(item.due)

ReminderTypeOK ==
    /\ day \in 0..LastDay
    /\ due \in Dues
    /\ told \cup owed \cup doubled \subseteq Addressees \X {DayOf(d) : d \in Dues} \X Ahead
    /\ \A s \in Runs : scan[s].op \in {"idle", "plan", "read", "tell"}
    /\ untold \cup raced \subseteq {DayOf(d) : d \in Dues} \X Ahead

\* sla-reminder.worker.ts:31-79: when a run gets to a reminder, whoever the plan named as the run
\* read it at its start, and whoever then holds the role it named, is told, unless a run of that
\* reminder was cut short (the next run takes one notification for all), or is at it still;
\* nobody is told twice unless two runs were at it.
RemindersReachAll ==
    /\ \A t \in owed :
           \/ t \in told
           \/ <<t[2], t[3]>> \in untold
           \/ \E s \in Runs : IsAt(s, 2 * t[2], t[3]) /\ t[1] \in scan[s].left
    /\ {<<t[2], t[3]>> : t \in doubled} \subseteq raced

TypeOK == DateTypeOK /\ ReminderTypeOK
=============================================================================
