----------------------------- MODULE Connectors -----------------------------
(***************************************************************************)
(* What comes in from other systems and goes out to them: vendors, the     *)
(* points of a gateway, the readings of sensors, and the file of an        *)
(* accountant.                                                             *)
(***************************************************************************)
EXTENDS FiniteSets, Integers

CONSTANTS
    Names,      \* vendor names
    Sheet,      \* lines of the sheet the ERP sends, as records; a line may have no name
    Vendors,    \* vendor rows
    Envelope,   \* points of the envelope a gateway sends, as records; each has its own
                \* identifier, or "none"
    Protocol,   \* the protocol of the endpoint it is sent to
    Loops,      \* calls that can be in progress
    MaxPosts,   \* bound on the envelopes sent
    Bills,      \* invoices
    BillDate,   \* the date of each
    Gross, Tax, \* their amounts; -1 for no tax amount
    Dates,      \* dates a period begins or ends on
    Operators,  \* operators a trigger can have
    Levels,     \* values of a reading
    Threshold,
    Cooldown,
    Readers,    \* readings that can be in progress
    MaxTime     \* bound of the model

VARIABLES
    vendor,    \* vendor[v]: the name and the details of the row, or NoVendor
    incidents, \* incidents[ref]: incidents opened for the point
    posts,     \* envelopes sent
    answered,  \* whether an envelope was answered, a sheet was answered
    loop,      \* loop[s]: the statement a call is at, with what it has read
    crossed,   \* history: names two calls did not find at once
    bill,      \* bill[i]: its approval status
    fetched,   \* history: periods fetched, as <<from, to>>
    rows,      \* history: <<period, invoice, net>> of the rows in the files
    late,      \* history: invoices approved after a period of theirs was fetched
    trigger,   \* its operator ("none": no trigger yet), lastFiredAt and lastReadingValue, -1 when null
    opened,    \* the times of the readings that opened a task
    reading,   \* reading[r]: the reading and how far it is
    clock,
    disturbed  \* history: two readings fired at once, or one was cut short

-----------------------------------------------------------------------------
(***************************************************************************)
(* What comes in from other systems (ConnectorsService): the vendor master *)
(* of an ERP, found by name and created when it is not there, and the      *)
(* points a gateway posts, an incident for each alarm.  Both are loops of  *)
(* single statements, and a sender that got no answer sends again.         *)
(***************************************************************************)

inboundVars == <<vendor, incidents, posts, answered, loop, crossed>>

NoVendor == [name |-> "none", terms |-> "none"]
Out == [op |-> "idle"]
Refs == {p.ref : p \in Envelope}

InboundInit ==
    /\ vendor = [v \in Vendors |-> NoVendor]
    /\ incidents = [r \in Refs |-> 0]
    /\ posts = 0
    /\ answered = {}
    /\ loop = [s \in Loops |-> Out]
    /\ crossed = {}

Goto(s, call) == loop' = [loop EXCEPT ![s] = call]
NamedBy(n) == {v \in Vendors : vendor[v].name = n}
-----------------------------------------------------------------------------
(* importVendorMaster *)

\* A line without a name is passed over.
DecodeVendors(sheet) == {l \in sheet : l.name # "none"}

ImportVendors(s) ==
    /\ loop[s].op = "idle"
    /\ Goto(s, [op |-> "find", todo |-> DecodeVendors(Sheet)])
    /\ UNCHANGED <<vendor, incidents, posts, answered, crossed>>

\* mutant: what the file names is created without looking
FindNoVendor(s) ==
    /\ loop[s].op = "find"
    /\ \E l \in loop[s].todo : Goto(s, [op |-> "create", todo |-> loop[s].todo \ {l}, line |-> l])
    /\ UNCHANGED <<vendor, incidents, posts, answered, crossed>>

\* A vendor that is found takes the details of the line; a create follows otherwise.
FindVendor(s) ==
    /\ loop[s].op = "find"
    /\ \E l \in loop[s].todo :
           LET rest == loop[s].todo \ {l} IN
           IF NamedBy(l.name) # {}
           THEN /\ \E v \in NamedBy(l.name) : vendor' = [vendor EXCEPT ![v].terms = l.terms]
                /\ Goto(s, [op |-> "find", todo |-> rest])
                /\ UNCHANGED crossed
           ELSE /\ Goto(s, [op |-> "create", todo |-> rest, line |-> l])
                /\ crossed' = crossed \cup {l.name : r \in {q \in Loops :
                                   loop[q].op = "create" /\ loop[q].line.name = l.name}}
                /\ UNCHANGED vendor
    /\ UNCHANGED <<incidents, posts, answered>>

CreateVendor(s) ==
    /\ loop[s].op = "create"
    /\ \E v \in Vendors :
           /\ vendor[v] = NoVendor
           /\ vendor' = [vendor EXCEPT ![v] = loop[s].line]
    /\ Goto(s, [op |-> "find", todo |-> loop[s].todo])
    /\ UNCHANGED <<incidents, posts, answered, crossed>>

AnswerImport(s) ==
    /\ loop[s].op = "find" /\ loop[s].todo = {}
    /\ Goto(s, Out)
    /\ answered' = answered \cup {"sheet"}
    /\ UNCHANGED <<vendor, incidents, posts, crossed>>
-----------------------------------------------------------------------------
(* ingestBridge *)

\* A point without the identifier of the endpoint's protocol is dropped; an alarm or a
\* severity makes it an incident, and a reading is only echoed.
DecodeBridge(envelope) == {p \in envelope : p.protocol = Protocol /\ p.ref # "none"}
IsIncident(p) == p.alarm \/ p.severity # "none"

IngestBridge(s) ==
    /\ loop[s].op = "idle"
    /\ posts < MaxPosts
    /\ posts' = posts + 1
    /\ Goto(s, [op |-> "points", todo |-> {p.ref : p \in {q \in DecodeBridge(Envelope) : IsIncident(q)}}])
    /\ UNCHANGED <<vendor, incidents, answered, crossed>>

OpenIncident(s) ==
    /\ loop[s].op = "points"
    /\ \E r \in loop[s].todo :
           /\ incidents' = [incidents EXCEPT ![r] = @ + 1]
           /\ Goto(s, [op |-> "points", todo |-> loop[s].todo \ {r}])
    /\ UNCHANGED <<vendor, posts, answered, crossed>>

AnswerBridge(s) ==
    /\ loop[s].op = "points" /\ loop[s].todo = {}
    /\ Goto(s, Out)
    /\ answered' = answered \cup {"envelope"}
    /\ UNCHANGED <<vendor, incidents, posts, crossed>>

\* A statement throws, or the process dies: what was written stays, and no answer is sent.
CutLoop(s) ==
    /\ loop[s].op # "idle"
    /\ Goto(s, Out)
    /\ UNCHANGED <<vendor, incidents, posts, answered, crossed>>

InboundNext == \E s \in Loops :
    \/ ImportVendors(s) \/ FindVendor(s) \/ CreateVendor(s) \/ AnswerImport(s)
    \/ IngestBridge(s) \/ OpenIncident(s) \/ AnswerBridge(s)
    \/ CutLoop(s)
-----------------------------------------------------------------------------
(***************************************************************************)
(* The file of approved invoices an accountant fetches period by period    *)
(* (ConnectorsService.exportAccounting): a filter on the invoice date and  *)
(* on the approval, with nothing that says what was fetched before.        *)
(***************************************************************************)

exportVars == <<bill, fetched, rows, late>>

ExportInit ==
    /\ bill = [i \in Bills |-> "pending"]
    /\ fetched = {}
    /\ rows = {}
    /\ late = {}

\* mutant: the last day of the period is left out
WithinOpen(d, period) == d >= period[1] /\ d < period[2]

\* Both ends of the period belong to it.
Within(d, period) == d >= period[1] /\ d <= period[2]

\* The gross amount includes the tax.
Net(i) == IF Tax[i] # -1 THEN Gross[i] - Tax[i] ELSE Gross[i]

Decide(i, status) ==
    /\ bill[i] = "pending"
    /\ bill' = [bill EXCEPT ![i] = status]
    /\ late' = late \cup {i : period \in {p \in fetched : p[1] <= BillDate[i] /\ BillDate[i] <= p[2]}}
    /\ UNCHANGED <<fetched, rows>>

ExportAccounting(period) ==
    /\ period[1] < period[2]
    /\ fetched' = fetched \cup {period}
    /\ rows' = rows \cup {<<period, i, Net(i)>> : i \in
                 {j \in Bills : bill[j] = "approved" /\ Within(BillDate[j], period)}}
    /\ UNCHANGED <<bill, late>>

ExportNext ==
    \/ \E i \in Bills, status \in {"approved", "rejected"} : Decide(i, status)
    \/ \E period \in Dates \X Dates : ExportAccounting(period)
-----------------------------------------------------------------------------
(***************************************************************************)
(* A condition trigger (ConditionTriggersService): readings of a sensor    *)
(* are compared with its threshold, and one that meets it opens a task     *)
(* unless the trigger fired within its cooldown.  The task is written      *)
(* before the trigger remembers that it fired.                             *)
(***************************************************************************)

triggerVars == <<trigger, opened, reading, clock, disturbed>>

AtRest == [value |-> 0, at |-> 0, step |-> "idle"]

ThresholdMet(op, value, previous) ==
    \/ op = "gt" /\ value > Threshold
    \/ op = "gte" /\ value >= Threshold
    \/ op = "lt" /\ value < Threshold
    \/ op = "lte" /\ value <= Threshold
    \/ op = "eq" /\ value = Threshold
    \/ op = "ne" /\ value # Threshold
    \/ /\ op = "crossing" /\ previous # -1
       /\ \/ previous <= Threshold /\ value > Threshold
          \/ previous >= Threshold /\ value < Threshold

\* mutant: the distance is taken the other way round, so that only older readings cool
CoolingBackwards(seen, at) == seen # -1 /\ seen - at > Cooldown

Cooling(seen, at) == seen # -1 /\ at - seen < Cooldown

TriggerInit ==
    /\ trigger = [op |-> "none", fired |-> -1, last |-> -1]
    /\ opened = {}
    /\ reading = [r \in Readers |-> AtRest]
    /\ clock = 0
    /\ disturbed = FALSE

Create(op) ==
    /\ trigger.op = "none"
    /\ trigger' = [trigger EXCEPT !.op = op]
    /\ UNCHANGED <<opened, reading, clock, disturbed>>

\* evaluateReading reads the trigger; the time of a reading may be past.
Read(r, value, at) ==
    LET fires == ThresholdMet(trigger.op, value, trigger.last) /\ ~Cooling(trigger.fired, at) IN
    /\ reading[r] = AtRest
    /\ trigger.op # "none" /\ at <= clock
    /\ reading' = [reading EXCEPT ![r] =
           [value |-> value, at |-> at, step |-> IF fires THEN "spawn" ELSE "note"]]
    /\ disturbed' = (disturbed \/ (fires /\ \E x \in Readers : reading[x].step \in {"spawn", "stamp"}))
    /\ UNCHANGED <<trigger, opened, clock>>

\* Not met, or met during the cooldown: the reading is remembered.
NoteReading(r) ==
    /\ reading[r].step = "note"
    /\ trigger' = [trigger EXCEPT !.last = reading[r].value]
    /\ reading' = [reading EXCEPT ![r] = AtRest]
    /\ UNCHANGED <<opened, clock, disturbed>>

CreateTaskFromTrigger(r) ==
    /\ reading[r].step = "spawn"
    /\ opened' = opened \cup {reading[r].at}
    /\ reading' = [reading EXCEPT ![r].step = "stamp"]
    /\ UNCHANGED <<trigger, clock, disturbed>>

\* The trigger remembers the time of the reading, an earlier one too.
StampTrigger(r) ==
    /\ reading[r].step = "stamp"
    /\ trigger' = [trigger EXCEPT !.fired = reading[r].at, !.last = reading[r].value]
    /\ reading' = [reading EXCEPT ![r] = AtRest]
    /\ UNCHANGED <<opened, clock, disturbed>>

\* The reading stops between the task and the stamp, and is sent again.
CutReading(r) ==
    /\ reading[r].step = "stamp"
    /\ disturbed' = TRUE
    /\ reading' = [reading EXCEPT ![r] = AtRest]
    /\ UNCHANGED <<trigger, opened, clock>>

Tick ==
    /\ clock < MaxTime
    /\ clock' = clock + 1
    /\ UNCHANGED <<trigger, opened, reading, disturbed>>

TriggerNext ==
    \/ \E r \in Readers :
           \/ \E value \in Levels, at \in 0 .. clock : Read(r, value, at)
           \/ NoteReading(r) \/ CreateTaskFromTrigger(r) \/ StampTrigger(r) \/ CutReading(r)
    \/ \E op \in Operators : Create(op)
    \/ Tick
-----------------------------------------------------------------------------
vars == <<inboundVars, exportVars, triggerVars>>

Init == InboundInit /\ ExportInit /\ TriggerInit

\* The parts share no rows; a step is one of either.
Next ==
    \/ InboundNext /\ UNCHANGED <<exportVars, triggerVars>>
    \/ ExportNext /\ UNCHANGED <<inboundVars, triggerVars>>
    \/ TriggerNext /\ UNCHANGED <<inboundVars, exportVars>>

Spec == Init /\ [][Next]_vars
-----------------------------------------------------------------------------
InboundTypeOK ==
    /\ vendor \in [Vendors -> {NoVendor} \cup {l \in Sheet : l.name # "none"}
                             \cup [name : Names, terms : {l.terms : l \in Sheet}]]
    /\ incidents \in [Refs -> 0..MaxPosts]
    /\ posts \in 0..MaxPosts
    /\ answered \subseteq {"sheet", "envelope"}
    /\ \A s \in Loops : loop[s].op \in {"idle", "find", "create", "points"}
    /\ crossed \subseteq Names

\* connectors.service.ts:80-112 and :115-195: a name has one vendor unless two imports looked
\* for it at once, whatever imports were cut short; when a sender got an answer every name
\* has a vendor and every alarm an incident, and an alarm has no more than it was sent.
InboundIsOnce ==
    /\ \A n \in Names : Cardinality(NamedBy(n)) <= 1 \/ n \in crossed
    /\ "sheet" \in answered => \A l \in Sheet : l.name # "none" => NamedBy(l.name) # {}
    /\ \A p \in Envelope :
           /\ incidents[p.ref] <= posts
           /\ incidents[p.ref] > 0 => IsIncident(p) /\ p \in DecodeBridge(Envelope)
           /\ "envelope" \in answered /\ IsIncident(p) /\ p \in DecodeBridge(Envelope) => incidents[p.ref] > 0

ExportTypeOK ==
    /\ bill \in [Bills -> {"pending", "approved", "rejected"}]
    /\ fetched \subseteq Dates \X Dates
    /\ rows \subseteq (Dates \X Dates) \X Bills \X Int
    /\ late \subseteq Bills

\* connectors.service.ts:30-78: an approved invoice is in the file of every fetched period it
\* is dated in, unless it was approved after the file; an invoice in the files of two periods
\* that follow each other is dated on the day they share, and every row is of an approved
\* invoice, its net amount with the tax making the gross.
FilesAreComplete ==
    /\ \A i \in Bills, p \in fetched :
           bill[i] = "approved" /\ p[1] <= BillDate[i] /\ BillDate[i] <= p[2] /\ i \notin late
               => <<p, i, Net(i)>> \in rows
    /\ \A r, q \in rows : r[2] = q[2] /\ r[1][2] = q[1][1] => BillDate[r[2]] = r[1][2]
    /\ \A r \in rows : bill[r[2]] = "approved" /\ r[3] + (IF Tax[r[2]] = -1 THEN 0 ELSE Tax[r[2]]) = Gross[r[2]]

TriggerTypeOK ==
    /\ trigger.op \in Operators \cup {"none"} /\ trigger.fired \in -1 .. MaxTime
    /\ opened \subseteq 0 .. MaxTime
    /\ \A r \in Readers : reading[r].step \in {"idle", "note", "spawn", "stamp"}

\* condition-triggers.service.ts:118-172: the tasks a trigger opened lie at least a cooldown
\* apart and the trigger remembers the last of them, however late and in whatever order
\* readings arrive, unless two were evaluated at once or one was cut before the stamp.
TasksAreSpaced ==
    ~disturbed =>
        /\ \A a, b \in opened : a < b => b - a >= Cooldown
        /\ \A a \in opened : \/ a <= trigger.fired
                             \/ \E r \in Readers : reading[r].step = "stamp" /\ reading[r].at = a

TypeOK == InboundTypeOK /\ ExportTypeOK /\ TriggerTypeOK
=============================================================================
