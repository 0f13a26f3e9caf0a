----------------------------- MODULE WorkLists -----------------------------
(***************************************************************************)
(* What people are shown to work on: the inbox of a reader and the queue   *)
(* of the service desk.                                                    *)
(***************************************************************************)
EXTENDS Naturals, FiniteSets

CONSTANTS
    Visits,    \* PPM tasks of one building
    Cases,     \* cleaning requests and cases assigned to the reader, fewer than a page has
    When,      \* When[w]: dueAt of a task, the date of a case
    Strict,    \* tasks whose completion requires evidence
    PageSize,  \* rows of a leg on a page
    Faults,    \* incidents
    Asks,      \* service requests
    QueueSize, \* how many of a kind are read
    SoonHours, \* due soon: in fewer hours than this
    LastHour   \* bound: the time

VARIABLES
    item,    \* item[w]: status
    reader,  \* has the reader a role in the building, his cursor, what he was shown
    first,   \* the rows of the first page, and those that came up since
    notes,   \* tasks with a comment
    finished, \* history: tasks completed after the first page
    refused, \* history: tasks with a comment whose move was refused
    trail,   \* entity types of the audit entries about each task
    hour,
    opened,  \* opened[c]: when the case was reported, or NotOpen
    grade    \* grade[c]: its severity or priority

-----------------------------------------------------------------------------
(***************************************************************************)
(* The inbox and the mobile routes of tasks (TasksService): a reader pages *)
(* through the tasks of the buildings he has a role in and the cases       *)
(* assigned to him, while tasks are moved by a route that writes its       *)
(* comment first.                                                          *)
(***************************************************************************)

inboxVars == <<item, reader, first, finished, notes, refused, trail>>

OpenVisit == {"open", "in_progress", "paused"}
OpenCase == {"new", "assigned", "in_progress", "triaged", "dispatched"}

\* start, pause, resume and complete behind one verb; complete passes no evidence.
Source(t, to) ==
    CASE to = "in_progress" -> {"open", "paused"}
      [] to = "paused" -> {"in_progress"}
      [] to = "completed" -> IF t \in Strict THEN {} ELSE OpenVisit

\* mutant: the latest task first
PageLatestFirst(rows) == {w \in rows : Cardinality({x \in rows : When[x] > When[w]}) < PageSize}

\* orderBy dueAt, ascending, and take
Page(rows) == {w \in rows : Cardinality({x \in rows : When[x] < When[w]}) < PageSize}

InboxInit ==
    /\ item = [w \in Visits \cup Cases |-> "none"]
    /\ reader = [role |-> TRUE, cursor |-> 0, shown |-> {}]
    /\ first = {}
    /\ finished = {}
    /\ notes = {}
    /\ refused = {}
    /\ trail = [t \in Visits |-> {}]

\* Other services bring work up, move the cases and take the reader's role away.
Arrive(w) ==
    /\ item[w] = "none"
    /\ item' = [item EXCEPT ![w] = IF w \in Visits THEN "open" ELSE "assigned"]
    /\ first' = IF reader.cursor = 0 THEN first ELSE first \cup {w}
    /\ UNCHANGED <<reader, finished, notes, refused, trail>>

MoveCase(w, to) ==
    /\ item[w] # "none"
    /\ item' = [item EXCEPT ![w] = to]
    /\ first' = IF item[w] \in OpenCase THEN first ELSE first \cup {w}
    /\ UNCHANGED <<reader, finished, notes, refused, trail>>

LoseRole ==
    /\ reader' = [reader EXCEPT !.role = FALSE]
    /\ UNCHANGED <<item, first, finished, notes, refused, trail>>

\* A page: the tasks of the building and the reader's own cases.  The cursor he passes
\* next is the date of a row he saw, and the next page takes what is due before it.
Leg(cursor) ==
    Page({t \in Visits : /\ reader.role /\ item[t] \in OpenVisit
                         /\ cursor # 0 => When[t] < cursor})
OwnCases(cursor) == {w \in Cases : item[w] \in OpenCase /\ (cursor # 0 => When[w] < cursor)}

Inbox ==
    LET page == Leg(reader.cursor) \cup OwnCases(reader.cursor) IN
    /\ \E last \in page :
           reader' = [role |-> reader.role, shown |-> reader.shown \cup page, cursor |-> When[last]]
    /\ first' = IF reader.cursor = 0 THEN page ELSE first
    /\ UNCHANGED <<item, finished, notes, refused, trail>>

\* POST transition: the comment is kept whatever becomes of the move.
ApplyTransition(t, to, comment) ==
    LET moves == item[t] \in Source(t, to) IN
    /\ item[t] # "none"
    /\ item' = IF moves THEN [item EXCEPT ![t] = to] ELSE item
    /\ trail' = IF moves THEN [trail EXCEPT ![t] = @ \cup {"task"}] ELSE trail
    /\ notes' = IF comment THEN notes \cup {t} ELSE notes
    /\ refused' = IF comment /\ ~moves THEN refused \cup {t} ELSE refused
    /\ first' = IF moves /\ item[t] \notin OpenVisit THEN first \cup {t} ELSE first
    /\ finished' = IF moves /\ to \notin OpenVisit /\ reader.cursor # 0 THEN finished \cup {t} ELSE finished
    /\ UNCHANGED reader

\* addNote and addComment
AddNote(t) ==
    /\ item[t] # "none"
    /\ notes' = notes \cup {t}
    /\ refused' = refused \cup {t}
    /\ UNCHANGED <<item, reader, first, finished, trail>>

InboxNext ==
    \/ \E w \in Visits \cup Cases : Arrive(w)
    \/ \E w \in Cases, to \in {"in_progress", "done"} : MoveCase(w, to)
    \/ LoseRole
    \/ Inbox
    \/ \E t \in Visits : AddNote(t)
    \/ \E t \in Visits, to \in {"in_progress", "paused", "completed"}, comment \in BOOLEAN :
           ApplyTransition(t, to, comment)
-----------------------------------------------------------------------------
(***************************************************************************)
(* The queue of the service desk (triageQueue of ReactiveService): open    *)
(* incidents and service requests, the first of each kind in the           *)
(* database's order, merged and sorted by what is due.  Severities sort as *)
(* they are numbered; priorities sort as the words they are.               *)
(***************************************************************************)

queueVars == <<hour, opened, grade>>

Reports == Faults \cup Asks
NotOpen == LastHour + 1
Severities == {"P1", "P2", "P4"}
Priorities == {"high", "normal", "low"}

\* mutant: the targets of normal and of low are swapped
TargetSwapped == [P1 |-> 1, P2 |-> 2, P4 |-> 4, high |-> 1, normal |-> 3, low |-> 2]

\* Hours to resolve it, scaled down
Target == [P1 |-> 1, P2 |-> 2, P4 |-> 4, high |-> 1, normal |-> 2, low |-> 3]

\* The database's order: severity ascending, priority descending as text
Rank == [P1 |-> 1, P2 |-> 2, P4 |-> 4, normal |-> 1, low |-> 2, high |-> 3]

\* What a case that is not open is graded
Unreported(c) == IF c \in Faults THEN "P4" ELSE "normal"

QueueInit ==
    /\ hour = 0
    /\ opened = [c \in Reports |-> NotOpen]
    /\ grade = [c \in Reports |-> Unreported(c)]

Open == {c \in Reports : opened[c] # NotOpen}

Report(c, g) ==
    /\ c \notin Open
    /\ opened' = [opened EXCEPT ![c] = hour]
    /\ grade' = [grade EXCEPT ![c] = g]
    /\ UNCHANGED hour

Close(c) ==
    /\ c \in Open
    /\ opened' = [opened EXCEPT ![c] = NotOpen]
    /\ grade' = [grade EXCEPT ![c] = Unreported(c)]
    /\ UNCHANGED hour

Pass == hour < LastHour /\ hour' = hour + 1 /\ UNCHANGED <<opened, grade>>

QueueNext ==
    \/ \E c \in Faults, g \in Severities : Report(c, g)
    \/ \E c \in Asks, g \in Priorities : Report(c, g)
    \/ \E c \in Reports : Close(c)
    \/ Pass
-----------------------------------------------------------------------------
vars == <<inboxVars, queueVars>>

Init == InboxInit /\ QueueInit

\* The parts share no rows; a step is one of either.
Next ==
    \/ InboxNext /\ UNCHANGED queueVars
    \/ QueueNext /\ UNCHANGED inboxVars

Spec == Init /\ [][Next]_vars
-----------------------------------------------------------------------------
\* timeline: the entries of type taskInstance
Timeline(t) == trail[t] \cap {"taskInstance"}

InboxTypeOK ==
    /\ reader.shown \cup first \subseteq Visits \cup Cases
    /\ finished \subseteq Visits
    /\ notes \cup refused \subseteq Visits
    /\ \A w \in Visits \cup Cases : item[w] \in OpenVisit \cup OpenCase \cup {"none", "completed", "done"}

\* tasks.service.ts:66-340 and :596-632: following the cursor shows a reader nothing that
\* was not on his first page and did not come up later, since the order ascends and the
\* cursor goes down, unless a task due before it has been completed since; a commented task
\* was moved, or its move was refused; and the timeline, which reads another entity type
\* than a move writes, is empty however often a task moves.
PagesRepeat ==
    /\ \A w \in reader.shown \ first : \E t \in finished : When[t] < When[w]
    /\ \A t \in notes : t \in refused \/ trail[t] # {}
    /\ \A t \in Visits : Timeline(t) = {}
    /\ \A t \in Strict : item[t] # "completed"

(* triageQueue *)

Due(c) == opened[c] + Target[grade[c]]
Breached(c) == hour > Due(c)
Before(c, d) ==
    \/ Rank[grade[c]] < Rank[grade[d]]
    \/ Rank[grade[c]] = Rank[grade[d]] /\ opened[c] < opened[d]

\* The first QueueSize rows of one kind; rows that are equal come in any order.
Selections(kind) ==
    {s \in SUBSET (kind \cap Open) :
        /\ s = kind \cap Open \/ Cardinality(s) = QueueSize
        /\ Cardinality(s) <= QueueSize
        /\ \A c \in s, d \in (kind \cap Open) \ s : ~Before(d, c)}

\* Breached first, then by what is due; what is equal comes in any order.
Sooner(c, d) == IF Breached(c) # Breached(d) THEN Breached(c) ELSE Due(c) < Due(d)
Listings(cases) ==
    {s \in [1 .. Cardinality(cases) -> cases] :
        /\ \A c \in cases : \E i \in DOMAIN s : s[i] = c
        /\ \A i, j \in DOMAIN s : i < j => ~Sooner(s[j], s[i])}

DueSoon(cases) == {c \in cases : ~Breached(c) /\ Due(c) - hour < SoonHours}
-----------------------------------------------------------------------------
QueueTypeOK ==
    /\ hour \in 0..LastHour
    /\ opened \in [Reports -> 0..NotOpen]
    /\ \A c \in Reports : grade[c] \in (IF c \in Faults THEN Severities ELSE Priorities)

\* reactive.service.ts:815-925: the queue is in the order of what is due, and so what is
\* breached comes first; none of that is counted as due soon; an incident or request that did
\* not fit is due no earlier than the listed ones of its own severity or priority, and only a
\* request of high priority can be left out for one that has more time.
QueueIsInOrder ==
    \A f \in Selections(Faults), a \in Selections(Asks) :
        LET out == Open \ (f \cup a)
        IN /\ \A items \in Listings(f \cup a) : \A i, j \in DOMAIN items : i < j =>
                  /\ Due(items[i]) <= Due(items[j])
                  /\ Breached(items[j]) => Breached(items[i])
           /\ \A c \in f \cup a : Breached(c) => c \notin DueSoon(f \cup a)
           /\ \A c \in out, d \in f \cup a :
                  /\ grade[c] = grade[d] => Due(d) <= Due(c)
                  /\ ({c, d} \subseteq Faults \/ {c, d} \subseteq Asks) =>
                         (Target[grade[c]] < Target[grade[d]] => grade[c] = "high")

TypeOK == InboxTypeOK /\ QueueTypeOK
=============================================================================
