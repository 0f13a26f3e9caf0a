---------------------------- MODULE ExpenseFlow ----------------------------
(***************************************************************************)
(* The vendor-expense flow of one PPM task, across the five modules that   *)
(* only meet through the outbox: tasks asks for the expense, approvals     *)
(* opens a request, reactive opens a work order and dispatches it when the *)
(* request is granted, ppm closes the task when the work is recorded, and  *)
(* assets writes the service history.                                      *)
(*                                                                         *)
(* One process and its dispatcher.  Every awaited statement of a           *)
(* subscriber is a step.  A producer is three: it reads, it writes, and it *)
(* publishes.  ApprovalChain has the detail of approve(), Outbox that of   *)
(* the dispatcher.                                                         *)
(***************************************************************************)
EXTENDS Integers, Sequences, FiniteSets

CONSTANTS
    BatchSize,       \* OUTBOX_BATCH_SIZE
    MaxAttempts,     \* MAX_ATTEMPTS of the dispatcher
    MaxExpenses,     \* bound of the model: calls of requestExpense
    MaxCompletions,  \* bound of the model: calls of recordCompletion
    MaxFaults        \* bound of the model: statements that throw, and crashes

ASSUME FlowAssumption ==
    /\ BatchSize \in Nat \ {0}
    /\ MaxAttempts \in Nat \ {0}
    /\ MaxExpenses \in Nat
    /\ MaxCompletions \in Nat
    /\ MaxFaults \in Nat

VARIABLES
    task,         \* TaskInstance.status
    requests,     \* number of task_expense ApprovalRequests with the task's hint
    approved,     \* how many of them are approved
    orders,       \* number of WorkOrders with the task's taskInstanceId
    dispatched,   \* how many of them are dispatched; the rest are pending_approval
    completions,  \* number of CompletionRecords of the task
    serviced,     \* number of asset.serviced audit entries
    call,         \* the task operation that has read the task and not yet written it
    owed,         \* events whose change is committed and that are not published yet
    log,          \* outbox_events in the order of their createdAt
    cur,          \* index of the event the dispatcher is at
    batch,        \* indexes of the fetched events this tick has still to take
    line,         \* the statement the dispatcher is about to run
    thrown,       \* `errors`: a subscriber of the current event has thrown
    expenses,     \* calls of requestExpense so far
    faults

dataVars == <<task, requests, approved, orders, dispatched, completions, serviced>>
userVars == <<call, owed, expenses>>
tickVars == <<cur, batch, line, thrown>>
vars == <<dataVars, userVars, log, tickVars, faults>>

Types == {"expense", "granted", "completion", "closed"}

\* A row of outbox_events, and a row as it is published.
Row == [type : Types, status : {"pending", "delivered", "failed"}, attempts : 0 .. MaxAttempts]
Event(t) == [type |-> t, status |-> "pending", attempts |-> 0]

Init ==
    /\ task = "open"
    /\ requests = 0 /\ approved = 0
    /\ orders = 0 /\ dispatched = 0
    /\ completions = 0
    /\ serviced = 0
    /\ call = "none"
    /\ owed = {}
    /\ log = <<>>
    /\ cur = 0
    /\ batch = {}
    /\ line = "idle"
    /\ thrown = FALSE
    /\ expenses = 0
    /\ faults = 0
-----------------------------------------------------------------------------
(* TasksService.transition and .requestExpense: read, then write by id *)

AllowedFrom(op) ==
    CASE op = "start" -> {"open", "paused"}
      [] op = "pause" -> {"in_progress"}
      [] op = "complete" -> {"open", "in_progress", "paused"}
      [] op = "expense" -> {"open", "in_progress", "paused"}

Target(op) ==
    CASE op = "start" -> "in_progress"
      [] op = "pause" -> "paused"
      [] op = "complete" -> "completed"

Read(op) ==
    /\ call = "none"
    /\ task \in AllowedFrom(op)
    /\ op = "expense" => expenses < MaxExpenses /\ "expense" \notin owed
    /\ op = "complete" => "closed" \notin owed
    /\ call' = op
    /\ expenses' = IF op = "expense" THEN expenses + 1 ELSE expenses
    /\ UNCHANGED <<dataVars, owed, log, tickVars, faults>>

WriteStatus ==
    /\ call \in {"start", "pause", "complete"}
    /\ task' = Target(call)
    /\ owed' = IF call = "complete" THEN owed \cup {"closed"} ELSE owed
    /\ call' = "none"
    /\ UNCHANGED <<requests, approved, orders, dispatched, completions, serviced,
                   expenses, log, tickVars, faults>>

WriteQuote ==
    /\ call = "expense"
    /\ owed' = owed \cup {"expense"}
    /\ call' = "none"
    /\ UNCHANGED <<dataVars, expenses, log, tickVars, faults>>
-----------------------------------------------------------------------------
(* The approver and the vendor *)

\* approve() on the one-step chain the subscriber creates.
Approve ==
    /\ approved < requests
    /\ "granted" \notin owed
    /\ approved' = approved + 1
    /\ owed' = owed \cup {"granted"}
    /\ UNCHANGED <<task, requests, orders, dispatched, completions, serviced,
                   call, expenses, log, tickVars, faults>>

\* recordCompletion looks at no status, neither the task's nor the order's.
RecordCompletion ==
    /\ completions < MaxCompletions
    /\ "completion" \notin owed
    /\ completions' = completions + 1
    /\ owed' = owed \cup {"completion"}
    /\ UNCHANGED <<task, requests, approved, orders, dispatched, serviced,
                   call, expenses, log, tickVars, faults>>

Publish(t) ==
    /\ t \in owed
    /\ owed' = owed \ {t}
    /\ log' = Append(log, Event(t))
    /\ UNCHANGED <<dataVars, call, expenses, tickVars, faults>>
-----------------------------------------------------------------------------
(* OutboxDispatcher: a tick takes the pending events in order, and an event's *)
(* subscribers in the order of their registration                             *)

First(t) ==
    CASE t = "expense" -> "findRequest"
      [] t = "granted" -> "findPendingOrder"
      [] t = "completion" -> "readTask"
      [] t = "closed" -> "auditAsset"

FirstSubscriber == {"findRequest", "createRequest"}
Statements == FirstSubscriber \cup
    {"findOrder", "createOrder", "auditOrder", "findPendingOrder", "dispatch",
     "auditDispatch", "readTask", "closeTask", "auditTask", "publishClosed", "auditAsset"}

\* What follows the subscriber that runs the current statement.
NextSubscriber == IF line \in FirstSubscriber THEN "findOrder" ELSE "mark"

Pending == {k \in 1 .. Len(log) : log[k].status = "pending"}
Fetched == {k \in Pending : Cardinality({j \in Pending : j < k}) < BatchSize}

\* The dispatcher goes to the oldest event of S.
Take(S) ==
    \E k \in S :
        /\ \A j \in S : k =< j
        /\ cur' = k
        /\ batch' = S \ {k}
        /\ line' = First(log[k].type)

EndTick == line' = "idle" /\ cur' = 0 /\ batch' = {}

StartTick ==
    /\ line = "idle"
    /\ Take(Fetched)
    /\ thrown' = FALSE
    /\ UNCHANGED <<dataVars, userVars, log, faults>>

\* The current event is written as `row`.
Settle(row) ==
    /\ line = "mark"
    /\ log' = [log EXCEPT ![cur] = row]
    /\ IF batch = {} THEN EndTick ELSE Take(batch)
    /\ thrown' = FALSE
    /\ UNCHANGED <<dataVars, userVars, faults>>

MarkDelivered ==
    /\ ~thrown
    /\ Settle([log[cur] EXCEPT !.status = "delivered"])

\* mutant: an event is given up at its first failure
MarkFailedAtOnce ==
    /\ thrown
    /\ Settle([log[cur] EXCEPT !.attempts = @ + 1, !.status = "failed"])

MarkRetryOrFailed ==
    LET row == log[cur]
    IN  /\ thrown
        /\ Settle([row EXCEPT !.attempts = @ + 1,
                              !.status = IF row.attempts + 1 >= MaxAttempts
                                           THEN "failed" ELSE "pending"])
-----------------------------------------------------------------------------
(* The subscribers, a statement at a time *)

Step(from, to) == line = from /\ line' = to /\ UNCHANGED <<cur, batch, thrown>>

\* approvals on ppm.expense.requested
FindRequest ==
    /\ Step("findRequest", IF requests > 0 THEN "findOrder" ELSE "createRequest")
    /\ UNCHANGED <<dataVars, userVars, log, faults>>

CreateRequest ==
    /\ Step("createRequest", "findOrder")
    /\ requests' = requests + 1
    /\ UNCHANGED <<task, approved, orders, dispatched, completions, serviced,
                   userVars, log, faults>>

\* mutant: no look for an order of the same task
FindOrderNever ==
    /\ Step("findOrder", "createOrder")
    /\ UNCHANGED <<dataVars, userVars, log, faults>>

\* reactive on ppm.expense.requested
FindOrder ==
    /\ Step("findOrder", IF orders > 0 THEN "mark" ELSE "createOrder")
    /\ UNCHANGED <<dataVars, userVars, log, faults>>

\* mutant: the order is created in its final status
CreateOrderDispatched ==
    /\ Step("createOrder", "auditOrder")
    /\ orders' = orders + 1
    /\ dispatched' = dispatched + 1
    /\ UNCHANGED <<task, requests, approved, completions, serviced,
                   userVars, log, faults>>

CreateOrder ==
    /\ Step("createOrder", "auditOrder")
    /\ orders' = orders + 1
    /\ UNCHANGED <<task, requests, approved, dispatched, completions, serviced,
                   userVars, log, faults>>

\* reactive on approval.granted; an order that is not there yet is no error
FindPendingOrder ==
    /\ Step("findPendingOrder", IF dispatched < orders THEN "dispatch" ELSE "mark")
    /\ UNCHANGED <<dataVars, userVars, log, faults>>

DispatchOrder ==
    /\ Step("dispatch", "auditDispatch")
    /\ dispatched' = dispatched + 1
    /\ UNCHANGED <<task, requests, approved, orders, completions, serviced,
                   userVars, log, faults>>

\* ppm on completion.recorded
ReadTask ==
    /\ Step("readTask", IF task = "completed" THEN "mark" ELSE "closeTask")
    /\ UNCHANGED <<dataVars, userVars, log, faults>>

CloseTask ==
    /\ Step("closeTask", "auditTask")
    /\ task' = "completed"
    /\ UNCHANGED <<requests, approved, orders, dispatched, completions, serviced,
                   userVars, log, faults>>

\* The audit writes of reactive and ppm, which nothing reads.
AuditStep ==
    /\ \/ Step("auditOrder", "mark")
       \/ Step("auditDispatch", "mark")
       \/ Step("auditTask", "publishClosed")
    /\ UNCHANGED <<dataVars, userVars, log, faults>>

PublishClosed ==
    /\ Step("publishClosed", "mark")
    /\ log' = Append(log, Event("closed"))
    /\ UNCHANGED <<dataVars, userVars, faults>>

\* assets on ppm.case.closed, for a task of a plan item with an asset
AuditAsset ==
    /\ Step("auditAsset", "mark")
    /\ serviced' = serviced + 1
    /\ UNCHANGED <<task, requests, approved, orders, dispatched, completions,
                   userVars, log, faults>>
-----------------------------------------------------------------------------
(* Faults *)

Fault == faults < MaxFaults /\ faults' = faults + 1

\* A statement throws: its subscriber ends, the next one still runs.
SubscriberThrows ==
    /\ Fault
    /\ line \in Statements
    /\ line' = NextSubscriber
    /\ thrown' = TRUE
    /\ UNCHANGED <<dataVars, userVars, log, cur, batch>>

\* The mark itself throws: the tick rejects.
MarkThrows ==
    /\ Fault
    /\ line = "mark"
    /\ EndTick /\ thrown' = FALSE
    /\ UNCHANGED <<dataVars, userVars, log>>

\* The process dies and comes back: calls in progress, and the events they
\* still had to publish, are gone.
Crash ==
    /\ Fault
    /\ EndTick /\ thrown' = FALSE
    /\ call' = "none" /\ owed' = {}
    /\ UNCHANGED <<dataVars, expenses, log>>

Subscriber ==
    \/ FindRequest \/ CreateRequest
    \/ FindOrder \/ CreateOrder
    \/ FindPendingOrder \/ DispatchOrder
    \/ ReadTask \/ CloseTask \/ PublishClosed
    \/ AuditAsset \/ AuditStep

Dispatcher == StartTick \/ Subscriber \/ MarkDelivered \/ MarkRetryOrFailed

Users ==
    \/ \E op \in {"start", "pause", "complete", "expense"} : Read(op)
    \/ WriteStatus
    \/ WriteQuote
    \/ Approve
    \/ RecordCompletion
    \/ \E t \in Types : Publish(t)

Next == Users \/ Dispatcher \/ SubscriberThrows \/ MarkThrows \/ Crash

Spec == Init /\ [][Next]_vars

\* The poll timer goes on and awaited calls come back, unless they are cut.
Fairness == WF_vars(Dispatcher) /\ \A t \in Types : WF_vars(Publish(t))

FairSpec == Spec /\ Fairness
-----------------------------------------------------------------------------
(* Properties *)

TypeOK ==
    /\ task \in {"open", "in_progress", "paused", "completed"}
    /\ requests \in Nat /\ approved \in 0 .. requests
    /\ orders \in Nat /\ dispatched \in 0 .. orders
    /\ completions \in 0 .. MaxCompletions
    /\ serviced \in Nat
    /\ call \in {"none", "start", "pause", "complete", "expense"}
    /\ owed \subseteq Types
    /\ log \in Seq(Row)
    /\ cur \in 0 .. Len(log)
    /\ batch \subseteq 1 .. Len(log)
    /\ line \in {"idle", "mark"} \cup Statements
    /\ line # "idle" => cur > 0
    /\ thrown \in BOOLEAN
    /\ expenses \in 0 .. MaxExpenses
    /\ faults \in 0 .. MaxFaults

\* However often the expense is asked for and its event delivered, a task gets
\* one approval chain and one work order (reactive.service.ts:46).
OneChainPerTask == requests =< 1 /\ orders =< 1

\* No vendor is sent out before the expense is approved, in whatever order
\* events and their retries arrive.
DispatchedOnlyIfApproved == dispatched > 0 => approved > 0

Announced(t) == \E k \in 1 .. Len(log) : log[k].type = t

\* A published approval sends the order out (reactive.service.ts:44-45: "on
\* approval.granted we move WO to dispatched").
GrantReachesOrder == Announced("granted") ~> dispatched > 0
=============================================================================
