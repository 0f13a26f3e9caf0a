------------------------ MODULE ExpenseFlow_proofs ------------------------
(***************************************************************************)
(* Proofs about work that costs money.                                     *)
(*                                                                         *)
(* ExpenseFlow, for any number of requests, completions, faults and        *)
(* retries: a task gets one approval chain and one work order, and the     *)
(* order is sent out only behind an approval.  Then the services at both   *)
(* ends of it, each by itself and as parts of MCOperations: the service    *)
(* desk, mail, triggers and connectors that come in, whom a notice goes to *)
(* and who is responsible for a floor.                                     *)
(***************************************************************************)
EXTENDS ExpenseFlow, MCOperations, Sequences, FiniteSetTheorems, SequenceTheorems, TLAPS

\* The rows a tick still has to settle are pending, and a pending row has
\* attempts left: so no row is tried too often.
RowsOpen ==
    /\ \A k \in 1 .. Len(log) : log[k].status = "pending" => log[k].attempts < MaxAttempts
    /\ \A k \in batch : log[k].status = "pending"
    /\ line # "idle" => log[cur].status = "pending" /\ cur \notin batch

\* What a subscriber has looked up still holds when it writes.
LookupsHold ==
    /\ line = "createRequest" => requests = 0
    /\ line = "createOrder" => orders = 0
    /\ line = "dispatch" => dispatched < orders

\* A grant is published only for an approved request, and only a grant leads
\* to the statement that sends the order out.
GrantsBacked ==
    /\ "granted" \in owed => approved > 0
    /\ \A k \in 1 .. Len(log) : log[k].type = "granted" => approved > 0
    /\ line \in {"findPendingOrder", "dispatch"} => approved > 0

IInv ==
    /\ TypeOK
    /\ RowsOpen
    /\ LookupsHold
    /\ GrantsBacked
    /\ OneChainPerTask
    /\ DispatchedOnlyIfApproved

\* The events the flow publishes are rows of the outbox.
LEMMA EventIsRow ==
    ASSUME NEW t \in Types
    PROVE  /\ Event(t) \in Row
           /\ Event(t).type = t /\ Event(t).status = "pending"
           /\ Event(t).attempts < MaxAttempts
  BY FlowAssumption DEF Event, Row

LEMMA InitHolds == Init => IInv
  <1> SUFFICES ASSUME Init PROVE IInv
    OBVIOUS
  <1> USE FlowAssumption DEF Init
  <1>1. log \in Seq(Row) /\ Len(log) = 0
    OBVIOUS
  <1>2. cur \in 0 .. Len(log) /\ batch \subseteq 1 .. Len(log) /\ thrown \in BOOLEAN
    <2>1. thrown \in BOOLEAN
      OBVIOUS
    <2> QED
      BY <1>1, <2>1
  <1>3. TypeOK
    BY <1>1, <1>2 DEF TypeOK
  <1>4. RowsOpen /\ LookupsHold /\ GrantsBacked
    BY <1>1 DEF RowsOpen, LookupsHold, GrantsBacked
  <1> QED
    BY <1>3, <1>4 DEF IInv, OneChainPerTask, DispatchedOnlyIfApproved

\* The statement of a subscriber's first line is a line, and only a grant
\* leads to findPendingOrder.
LEMMA FirstLine ==
    ASSUME NEW t \in Types
    PROVE  /\ First(t) \in {"findRequest", "findPendingOrder", "readTask", "auditAsset"}
           /\ First(t) = "findPendingOrder" => t = "granted"
  BY DEF First, Types

\* The users' actions leave the dispatcher alone.
LEMMA UsersKeep == IInv /\ Users => IInv'
  <1> SUFFICES ASSUME IInv, Users PROVE IInv'
    OBVIOUS
  <1> USE FlowAssumption DEF IInv, TypeOK, RowsOpen, LookupsHold, GrantsBacked,
       OneChainPerTask, DispatchedOnlyIfApproved, dataVars, userVars, tickVars
  <1>1. ASSUME NEW op \in {"start", "pause", "complete", "expense"}, Read(op) PROVE IInv'
    BY <1>1 DEF Read
  <1>2. CASE WriteStatus
    BY <1>2 DEF WriteStatus, Target, Types
  <1>3. CASE WriteQuote
    BY <1>3 DEF WriteQuote, Types
  <1>4. CASE Approve
    BY <1>4 DEF Approve, Types
  <1>5. CASE RecordCompletion
    BY <1>5 DEF RecordCompletion, Types
  <1>6. ASSUME NEW t \in Types, Publish(t) PROVE IInv'
    BY <1>6, EventIsRow DEF Publish
  <1> QED
    BY <1>1, <1>2, <1>3, <1>4, <1>5, <1>6 DEF Users

\* So do most statements of the subscribers; the log grows by PublishClosed.
LEMMA SubscriberKeeps == IInv /\ Subscriber => IInv'
  <1> SUFFICES ASSUME IInv, Subscriber PROVE IInv'
    OBVIOUS
  <1> USE FlowAssumption DEF IInv, TypeOK, RowsOpen, LookupsHold, GrantsBacked,
       OneChainPerTask, DispatchedOnlyIfApproved, dataVars, userVars, tickVars, Step,
       Statements, FirstSubscriber
  <1>1. CASE FindRequest
    BY <1>1 DEF FindRequest
  <1>2. CASE CreateRequest
    BY <1>2 DEF CreateRequest
  <1>3. CASE FindOrder
    BY <1>3 DEF FindOrder
  <1>4. CASE CreateOrder
    BY <1>4 DEF CreateOrder
  <1>5. CASE FindPendingOrder
    BY <1>5 DEF FindPendingOrder
  <1>6. CASE DispatchOrder
    BY <1>6 DEF DispatchOrder
  <1>7. CASE ReadTask
    BY <1>7 DEF ReadTask
  <1>8. CASE CloseTask
    BY <1>8 DEF CloseTask
  <1>9. CASE PublishClosed
    BY <1>9, EventIsRow DEF PublishClosed, Types
  <1>10. CASE AuditAsset
    BY <1>10 DEF AuditAsset
  <1>11. CASE AuditStep
    BY <1>11 DEF AuditStep
  <1> QED
    BY <1>1, <1>2, <1>3, <1>4, <1>5, <1>6, <1>7, <1>8, <1>9, <1>10, <1>11 DEF Subscriber

\* Taking the oldest of a set of pending events.
LEMMA TakeKeeps ==
    ASSUME IInv, log' \in Seq(Row), Len(log') = Len(log),
           \A k \in 1 .. Len(log) : log'[k].type = log[k].type,
           NEW S, S \subseteq 1 .. Len(log), Take(S),
           \A k \in S : log'[k].status = "pending"
    PROVE  /\ cur' \in 1 .. Len(log') /\ batch' \subseteq 1 .. Len(log')
           /\ line' \in {"findRequest", "findPendingOrder", "readTask", "auditAsset"}
           /\ \A k \in batch' : log'[k].status = "pending"
           /\ log'[cur'].status = "pending" /\ cur' \notin batch'
           /\ line' = "findPendingOrder" => approved > 0
  <1>1. PICK k \in S : cur' = k /\ batch' = S \ {k} /\ line' = First(log[k].type)
    BY DEF Take
  <1>2. log[k].type \in Types
    <2>1. log[k] \in Row
      BY <1>1 DEF IInv, TypeOK
    <2> QED
      BY <2>1 DEF Row
  <1>3. log[k].type = "granted" => approved > 0
    BY DEF IInv, GrantsBacked
  <1> QED
    BY <1>1, <1>2, <1>3, FirstLine

LEMMA StartTickKeeps == IInv /\ StartTick => IInv'
  <1> SUFFICES ASSUME IInv, StartTick PROVE IInv'
    OBVIOUS
  <1>1. log \in Seq(Row) /\ log' = log
    BY DEF StartTick, IInv, TypeOK
  <1>2. Fetched \subseteq 1 .. Len(log) /\ \A k \in Fetched : log[k].status = "pending"
    BY DEF Fetched, Pending
  <1>3. /\ cur' \in 1 .. Len(log') /\ batch' \subseteq 1 .. Len(log')
        /\ line' \in {"findRequest", "findPendingOrder", "readTask", "auditAsset"}
        /\ \A k \in batch' : log'[k].status = "pending"
        /\ log'[cur'].status = "pending" /\ cur' \notin batch'
        /\ line' = "findPendingOrder" => approved > 0
    BY <1>1, <1>2, TakeKeeps DEF StartTick
  <1>4. thrown' \in BOOLEAN
    BY DEF StartTick
  <1>5. UNCHANGED <<dataVars, userVars, faults>>
    BY DEF StartTick
  <1> QED
    BY <1>1, <1>3, <1>4, <1>5 DEF IInv, TypeOK, RowsOpen, LookupsHold, GrantsBacked, OneChainPerTask,
       DispatchedOnlyIfApproved, dataVars, userVars, Statements, FirstSubscriber

\* An event is settled as a row that, if still pending, has attempts left.
LEMMA SettleKeeps ==
    ASSUME IInv, NEW row \in Row, Settle(row), row.type = log[cur].type,
           row.status = "pending" => row.attempts < MaxAttempts
    PROVE  IInv'
  <1>1. cur \in 1 .. Len(log) /\ log \in Seq(Row)
    BY DEF Settle, IInv, TypeOK
  <1>2. /\ log' \in Seq(Row) /\ Len(log') = Len(log)
        /\ \A k \in 1 .. Len(log) : log'[k] = IF k = cur THEN row ELSE log[k]
    BY <1>1 DEF Settle
  <1>3. \A k \in 1 .. Len(log) : log'[k].type = log[k].type
    BY <1>2
  <1>4. \A k \in 1 .. Len(log) : log'[k].status = "pending" => log'[k].attempts < MaxAttempts
    BY <1>2 DEF IInv, RowsOpen
  <1>5. batch \subseteq 1 .. Len(log) /\ \A k \in batch : log'[k].status = "pending"
    BY <1>2 DEF Settle, IInv, TypeOK, RowsOpen
  <1>6. UNCHANGED <<dataVars, userVars, faults>> /\ (EndTick \/ Take(batch))
    BY DEF Settle
  <1>9. thrown' \in BOOLEAN
    BY DEF Settle
  <1>7. CASE EndTick
    BY <1>2, <1>3, <1>4, <1>6, <1>7, <1>9 DEF EndTick, IInv, TypeOK, RowsOpen, LookupsHold,
       GrantsBacked, OneChainPerTask, DispatchedOnlyIfApproved, dataVars, userVars
  <1>8. CASE Take(batch)
    <2>1. /\ cur' \in 1 .. Len(log') /\ batch' \subseteq 1 .. Len(log')
          /\ line' \in {"findRequest", "findPendingOrder", "readTask", "auditAsset"}
          /\ \A k \in batch' : log'[k].status = "pending"
          /\ log'[cur'].status = "pending" /\ cur' \notin batch'
          /\ line' = "findPendingOrder" => approved > 0
      BY <1>2, <1>3, <1>5, <1>8, TakeKeeps
    <2> QED
      BY <1>2, <1>3, <1>4, <1>6, <1>9, <2>1 DEF IInv, TypeOK, RowsOpen, LookupsHold, GrantsBacked,
         OneChainPerTask, DispatchedOnlyIfApproved, dataVars, userVars, Statements,
         FirstSubscriber
  <1> QED
    BY <1>6, <1>7, <1>8

LEMMA MarkKeeps == IInv /\ (MarkDelivered \/ MarkRetryOrFailed) => IInv'
  <1> SUFFICES ASSUME IInv, MarkDelivered \/ MarkRetryOrFailed PROVE IInv'
    OBVIOUS
  <1>1. log[cur] \in Row /\ log[cur].attempts < MaxAttempts
    BY DEF MarkDelivered, MarkRetryOrFailed, Settle, IInv, TypeOK, RowsOpen
  <1>2. CASE MarkDelivered
    <2> DEFINE row == [log[cur] EXCEPT !.status = "delivered"]
    <2>1. row \in Row /\ row.type = log[cur].type /\ row.status = "delivered"
      BY <1>1 DEF Row
    <2> QED
      BY <1>2, <2>1, SettleKeeps DEF MarkDelivered
  <1>3. CASE MarkRetryOrFailed
    <2> DEFINE more == log[cur].attempts + 1
               ends == IF more >= MaxAttempts THEN "failed" ELSE "pending"
               row == [log[cur] EXCEPT !.attempts = @ + 1, !.status = ends]
    <2>0. more \in 0 .. MaxAttempts /\ ends \in {"failed", "pending"}
      BY <1>1, FlowAssumption DEF Row
    <2>1. /\ row \in Row /\ row.type = log[cur].type
          /\ row.status = ends /\ row.attempts = more
      BY <1>1, <2>0 DEF Row
    <2>2. row.status = "pending" => row.attempts < MaxAttempts
      BY <2>0, <2>1, FlowAssumption
    <2>3. Settle(row)
      BY <1>3 DEF MarkRetryOrFailed
    <2> QED
      BY <2>1, <2>2, <2>3, SettleKeeps
  <1> QED
    BY <1>2, <1>3

LEMMA FaultsKeep == IInv /\ (SubscriberThrows \/ MarkThrows \/ Crash) => IInv'
  <1> SUFFICES ASSUME IInv, SubscriberThrows \/ MarkThrows \/ Crash PROVE IInv'
    OBVIOUS
  <1> USE FlowAssumption DEF IInv, TypeOK, RowsOpen, LookupsHold, GrantsBacked,
       OneChainPerTask, DispatchedOnlyIfApproved, dataVars, userVars, EndTick, Fault,
       Statements, FirstSubscriber
  <1>1. CASE SubscriberThrows
    BY <1>1 DEF SubscriberThrows, NextSubscriber
  <1>2. CASE MarkThrows
    <2>1. thrown' \in BOOLEAN
      BY <1>2 DEF MarkThrows
    <2>2. UNCHANGED <<dataVars, userVars, log>> /\ Fault /\ EndTick
      BY <1>2 DEF MarkThrows
    <2> QED
      BY <2>1, <2>2
  <1>3. CASE Crash
    <2>1. thrown' \in BOOLEAN
      BY <1>3 DEF Crash
    <2>2. UNCHANGED <<dataVars, expenses, log>> /\ Fault /\ EndTick /\ call' = "none" /\ owed' = {}
      BY <1>3 DEF Crash
    <2> QED
      BY <2>1, <2>2
  <1> QED
    BY <1>1, <1>2, <1>3

LEMMA StepKeeps == IInv /\ [Next]_vars => IInv'
  <1> SUFFICES ASSUME IInv, [Next]_vars PROVE IInv'
    OBVIOUS
  <1>1. CASE Users
    BY <1>1, UsersKeep
  <1>2. CASE Dispatcher
    BY <1>2, StartTickKeeps, SubscriberKeeps, MarkKeeps DEF Dispatcher
  <1>3. CASE SubscriberThrows \/ MarkThrows \/ Crash
    BY <1>3, FaultsKeep
  <1>4. CASE UNCHANGED vars
    BY <1>4 DEF vars, dataVars, userVars, tickVars, IInv, TypeOK, RowsOpen, LookupsHold,
       GrantsBacked, OneChainPerTask, DispatchedOnlyIfApproved
  <1> QED
    BY <1>1, <1>2, <1>3, <1>4 DEF Next

THEOREM Invariance == Spec => []IInv
  BY InitHolds, StepKeeps, PTL DEF Spec

\* Every reachable state is well typed: no work order is dispatched twice over
\* and no event is tried more than MaxAttempts times.
THEOREM TypeCorrect == Spec => []TypeOK
  BY Invariance, PTL DEF IInv

\* reactive.service.ts:46: replays create neither a second approval request
\* nor a second work order, for any number of requests, failures and crashes.
THEOREM ChainCorrect == Spec => []OneChainPerTask
  BY Invariance, PTL DEF IInv

\* No order is ever sent out before the request behind it is approved.
THEOREM DispatchCorrect == Spec => []DispatchedOnlyIfApproved
  BY Invariance, PTL DEF IInv
-----------------------------------------------------------------------------
(* Reactive: what the status of a case or of a quote says is there *)

\* The cases
CasesEarned ==
    /\ case \in [Intake!Cases -> [status : {"none", "new", "triaged", "dispatched", "resolved"},
                                  acked : BOOLEAN, order : WorkOrders \cup {"none"}]]
    /\ jobs \subseteq WorkOrders
    /\ \A c \in Intake!Cases : /\ case[c].status = "triaged" => case[c].acked
                               /\ case[c].status = "dispatched" => case[c].order \in jobs

\* What the next statement of a call relies on: its case is a row, the order it has written is
\* there, and the row of the revision it is about to write is nobody else's.
DeskHolds(s) ==
    /\ desk[s].op \in {"ack", "dispatch"} => desk[s].x \in Intake!Cases
    /\ desk[s].op = "dispatch" => desk[s].new \in jobs
    /\ desk[s].op = "revise" =>
           /\ desk[s].x \in Quotes /\ desk[s].new \in Quotes
           /\ quote[desk[s].new].status = "none"
           /\ \A t \in Desk \ {s} : desk[t].op = "revise" => desk[t].new # desk[s].new

DeskInv ==
    /\ desk \in [Desk -> [op : {"idle", "ack", "dispatch", "revise"},
                          x : Intake!Cases \cup Quotes \cup {"none"}, new : WorkOrders \cup Quotes \cup {"none"}]]
    /\ \A s \in Desk : DeskHolds(s)

\* The quotes
Revised(q) ==
    \/ \E r \in Quotes : quote[r].revisionOf = q
    \/ q \in unfinished
    \/ \E s \in Desk : desk[s].op = "revise" /\ desk[s].x = q

QuotesEarned ==
    /\ quote \in [Quotes -> [status : {"none", "received", "superseded"}, revisionOf : Quotes \cup {"none"}]]
    /\ \A q \in Quotes : /\ quote[q].status = "none" => quote[q].revisionOf = "none"
                         /\ quote[q].status = "superseded" => Revised(q)

CaseInv == CasesEarned /\ DeskInv /\ QuotesEarned

\* A call that writes a case leaves the rest as it was, and may return.
LEMMA CaseWrite ==
    ASSUME QuotesAreNamed, CaseInv, UNCHANGED <<jobs, quote, unfinished>>, NEW c \in Intake!Cases,
           NEW row \in [status : {"none", "new", "triaged", "dispatched", "resolved"},
                        acked : BOOLEAN, order : WorkOrders \cup {"none"}],
           row.status = "triaged" => row.acked,
           row.status = "dispatched" => row.order \in jobs,
           case' = [case EXCEPT ![c] = row],
           \/ UNCHANGED desk
           \/ \E s \in Desk : desk[s].op # "revise" /\ desk' = [desk EXCEPT ![s] = Intake!Nothing]
    PROVE  CaseInv'
<1>1. CasesEarned'
  BY DEF CaseInv, CasesEarned
<1>2. DeskInv' /\ \A s \in Desk : desk[s].op = "revise" => desk'[s] = desk[s]
  <2>1. CASE UNCHANGED desk
    BY <2>1 DEF CaseInv, DeskInv, DeskHolds
  <2>2. ASSUME NEW s \in Desk, desk[s].op # "revise", desk' = [desk EXCEPT ![s] = Intake!Nothing]
        PROVE  DeskInv' /\ \A t \in Desk : desk[t].op = "revise" => desk'[t] = desk[t]
    BY <2>2 DEF CaseInv, DeskInv, DeskHolds, Intake!Nothing, QuotesAreNamed
  <2> QED
    BY <2>1, <2>2
<1>3. QuotesEarned'
  BY <1>2 DEF CaseInv, QuotesEarned, Revised
<1> QED
  BY <1>1, <1>2, <1>3 DEF CaseInv

LEMMA CaseStep ==
    ASSUME QuotesAreNamed PROVE CaseInv /\ [Intake!Next]_(Intake!vars) => CaseInv'
<1> SUFFICES ASSUME CaseInv, [Intake!Next]_(Intake!vars) PROVE CaseInv'
  OBVIOUS
<1>1. /\ CasesEarned /\ DeskInv /\ QuotesEarned
      /\ \A s \in Desk : DeskHolds(s)
  BY DEF CaseInv, DeskInv
<1>2. ASSUME NEW c \in Intake!Cases, Intake!Report(c) \/ Intake!Resolve(c) PROVE CaseInv'
  <2> DEFINE row == [case[c] EXCEPT !.status = IF Intake!Report(c) THEN "new" ELSE "resolved"]
  <2>1. case[c] \in [status : {"none", "new", "triaged", "dispatched", "resolved"},
                     acked : BOOLEAN, order : WorkOrders \cup {"none"}]
    BY <1>1 DEF CasesEarned
  <2>2. /\ row \in [status : {"none", "new", "triaged", "dispatched", "resolved"},
                    acked : BOOLEAN, order : WorkOrders \cup {"none"}]
        /\ row.status \in {"new", "resolved"}
    BY <2>1
  <2>3. case' = [case EXCEPT ![c] = row] /\ UNCHANGED <<jobs, quote, desk, unfinished>>
    BY <1>2 DEF Intake!Report, Intake!Resolve
  <2> HIDE DEF row
  <2> QED
    BY <2>2, <2>3, CaseWrite
<1>3. ASSUME NEW s \in Desk, Intake!Ack(s) PROVE CaseInv'
  <2> DEFINE c == desk[s].x
             row == [case[c] EXCEPT !.status = "triaged", !.acked = TRUE]
  <2>1. c \in Intake!Cases /\ desk[s].op = "ack"
    BY <1>1, <1>3 DEF DeskHolds, Intake!Ack
  <2>2. case[c] \in [status : {"none", "new", "triaged", "dispatched", "resolved"},
                     acked : BOOLEAN, order : WorkOrders \cup {"none"}]
    BY <1>1, <2>1 DEF CasesEarned
  <2>3. /\ row \in [status : {"none", "new", "triaged", "dispatched", "resolved"},
                    acked : BOOLEAN, order : WorkOrders \cup {"none"}]
        /\ row.status = "triaged" /\ row.acked
    BY <2>2
  <2>4. /\ case' = [case EXCEPT ![c] = row] /\ UNCHANGED <<jobs, quote, unfinished>>
        /\ desk' = [desk EXCEPT ![s] = Intake!Nothing]
    BY <1>1, <1>3 DEF Intake!Ack, Intake!Return, CasesEarned
  <2> HIDE DEF row, c
  <2> QED
    BY <2>1, <2>3, <2>4, CaseWrite
<1>4. ASSUME NEW s \in Desk, Intake!DispatchCase(s) PROVE CaseInv'
  <2> DEFINE c == desk[s].x
             w == desk[s].new
             row == [case[c] EXCEPT !.status = "dispatched", !.order = w]
  <2>1. c \in Intake!Cases /\ desk[s].op = "dispatch" /\ w \in jobs /\ w \in WorkOrders
    BY <1>1, <1>4 DEF DeskHolds, CasesEarned, Intake!DispatchCase
  <2>2. case[c] \in [status : {"none", "new", "triaged", "dispatched", "resolved"},
                     acked : BOOLEAN, order : WorkOrders \cup {"none"}]
    BY <1>1, <2>1 DEF CasesEarned
  <2>3. /\ row \in [status : {"none", "new", "triaged", "dispatched", "resolved"},
                    acked : BOOLEAN, order : WorkOrders \cup {"none"}]
        /\ row.status = "dispatched" /\ row.order \in jobs
    BY <2>1, <2>2
  <2>4. /\ case' = [case EXCEPT ![c] = row] /\ UNCHANGED <<jobs, quote, unfinished>>
        /\ desk' = [desk EXCEPT ![s] = Intake!Nothing]
    BY <1>1, <1>4 DEF Intake!DispatchCase, Intake!Return, CasesEarned
  <2> HIDE DEF row, c
  <2> QED
    BY <2>1, <2>3, <2>4, CaseWrite
<1>5. ASSUME NEW s \in Desk, NEW c \in Intake!Cases, Intake!ReadToAck(s, c) PROVE CaseInv'
  <2> DEFINE lead == [Intake!Nothing EXCEPT !.op = "ack", !.x = c]
  <2>1. lead.op = "ack" /\ lead.x = c /\ lead.new = "none"
        /\ lead \in [op : {"idle", "ack", "dispatch", "revise"},
                     x : Intake!Cases \cup Quotes \cup {"none"}, new : WorkOrders \cup Quotes \cup {"none"}]
    BY DEF Intake!Nothing
  <2>2. /\ UNCHANGED <<case, jobs, quote, unfinished>> /\ desk' = [desk EXCEPT ![s] = lead]
        /\ desk[s].op = "idle"
    BY <1>5 DEF Intake!ReadToAck, Intake!intakeVars, Intake!Free
  <2> HIDE DEF lead
  <2>3. DeskInv' /\ \A t \in Desk : desk[t].op = "revise" => desk'[t] = desk[t]
    BY <1>1, <2>1, <2>2 DEF DeskInv, DeskHolds, QuotesAreNamed
  <2> QED
    BY <1>1, <2>2, <2>3 DEF CaseInv, CasesEarned, QuotesEarned, Revised
<1>6. ASSUME NEW s \in Desk, NEW c \in Intake!Cases, Intake!CreateOrder(s, c) PROVE CaseInv'
  <2>1. PICK w \in WorkOrders \ jobs :
            /\ jobs' = jobs \cup {w}
            /\ desk' = [desk EXCEPT ![s] = [op |-> "dispatch", x |-> c, new |-> w]]
    BY <1>6 DEF Intake!CreateOrder
  <2>2. UNCHANGED <<case, quote, unfinished>> /\ desk[s].op = "idle"
    BY <1>6 DEF Intake!CreateOrder, Intake!Free
  <2>3. DeskInv' /\ \A t \in Desk : desk[t].op = "revise" => desk'[t] = desk[t]
    BY <1>1, <2>1, <2>2 DEF DeskInv, DeskHolds
  <2> QED
    BY <1>1, <2>1, <2>2, <2>3 DEF CaseInv, CasesEarned, QuotesEarned, Revised
<1>7. ASSUME NEW q \in Quotes, Intake!CreateQuote(q) PROVE CaseInv'
  <2> DEFINE row == [quote[q] EXCEPT !.status = "received"]
  <2>1. /\ UNCHANGED <<case, jobs, desk, unfinished>> /\ quote' = [quote EXCEPT ![q] = row]
        /\ quote[q].status = "none" /\ \A r \in Desk : desk[r].new # q
    BY <1>7 DEF Intake!CreateQuote
  <2>2. /\ row.status = "received" /\ row.revisionOf = quote[q].revisionOf
        /\ row \in [status : {"none", "received", "superseded"}, revisionOf : Quotes \cup {"none"}]
    BY <1>1 DEF QuotesEarned
  <2> HIDE DEF row
  <2>3. DeskInv'
    BY <1>1, <2>1 DEF DeskInv, DeskHolds
  <2>4. \A p \in Quotes : Revised(p) => Revised(p)'
    BY <1>1, <2>1, <2>2 DEF QuotesEarned, Revised
  <2>5. QuotesEarned'
    BY <1>1, <2>1, <2>2, <2>4 DEF QuotesEarned
  <2> QED
    BY <1>1, <2>1, <2>3, <2>5 DEF CaseInv, CasesEarned
<1>8. ASSUME NEW s \in Desk, NEW prev \in Quotes, NEW q \in Quotes, Intake!SupersedeQuote(s, prev, q)
      PROVE  CaseInv'
  <2> DEFINE row == [quote[prev] EXCEPT !.status = "superseded"]
  <2>1. /\ UNCHANGED <<case, jobs, unfinished>> /\ quote' = [quote EXCEPT ![prev] = row]
        /\ quote[q].status = "none" /\ quote[prev].status # "none" /\ \A r \in Desk : desk[r].new # q
        /\ desk' = [desk EXCEPT ![s] = [op |-> "revise", x |-> prev, new |-> q]] /\ desk[s].op = "idle"
    BY <1>8 DEF Intake!SupersedeQuote, Intake!Free
  <2>2. /\ row.status = "superseded" /\ row.revisionOf = quote[prev].revisionOf
        /\ row \in [status : {"none", "received", "superseded"}, revisionOf : Quotes \cup {"none"}]
    BY <1>1 DEF QuotesEarned
  <2> HIDE DEF row
  <2>3. /\ DeskInv'
        /\ \A t \in Desk : desk[t].op = "revise" => desk'[t] = desk[t]
        /\ desk'[s].op = "revise" /\ desk'[s].x = prev
    <3>1. \A t \in Desk : DeskHolds(t)'
      BY <1>1, <2>1 DEF DeskInv, DeskHolds, QuotesEarned
    <3> QED
      BY <1>1, <2>1, <3>1 DEF DeskInv
  <2>4. \A p \in Quotes : Revised(p) \/ p = prev => Revised(p)'
    BY <1>1, <2>1, <2>2, <2>3 DEF QuotesEarned, Revised
  <2>5. QuotesEarned'
    BY <1>1, <2>1, <2>2, <2>4 DEF QuotesEarned
  <2> QED
    BY <1>1, <2>1, <2>3, <2>5 DEF CaseInv, CasesEarned
<1>9. ASSUME NEW s \in Desk, Intake!ReviseQuote(s) PROVE CaseInv'
  <2> DEFINE prev == desk[s].x
             q == desk[s].new
  <2>1. /\ UNCHANGED <<case, jobs, unfinished>> /\ desk[s].op = "revise"
        /\ quote' = [quote EXCEPT ![q] = [status |-> "received", revisionOf |-> prev]]
        /\ desk' = [desk EXCEPT ![s] = Intake!Nothing]
    BY <1>9 DEF Intake!ReviseQuote, Intake!Return
  <2>2. /\ prev \in Quotes /\ q \in Quotes /\ quote[q].status = "none"
        /\ \A t \in Desk \ {s} : desk[t].op = "revise" => desk[t].new # q
        /\ quote[q].revisionOf = "none"
    BY <1>1, <2>1 DEF DeskHolds, QuotesEarned
  <2>3. \A t \in Desk \ {s} : desk'[t] = desk[t]
    BY <1>1, <2>1 DEF DeskInv
  <2> HIDE DEF prev, q
  <2>4. DeskInv'
    BY <1>1, <2>1, <2>2 DEF DeskInv, DeskHolds, Intake!Nothing, QuotesAreNamed, QuotesEarned
  <2>5. /\ quote'[q].status = "received" /\ quote'[q].revisionOf = prev
        /\ \A p \in Quotes \ {q} : quote'[p] = quote[p]
    BY <1>1, <2>1, <2>2 DEF QuotesEarned
  <2>6. \A p \in Quotes : Revised(p) => Revised(p)'
    BY <2>1, <2>2, <2>3, <2>5 DEF Revised, QuotesAreNamed, prev
  <2>7. QuotesEarned'
    BY <1>1, <2>1, <2>2, <2>5, <2>6 DEF QuotesEarned
  <2> QED
    BY <1>1, <2>1, <2>4, <2>7 DEF CaseInv, CasesEarned
<1>10. ASSUME NEW s \in Desk, Intake!Throw(s) PROVE CaseInv'
  <2>1. /\ UNCHANGED <<case, jobs, quote>> /\ desk' = [desk EXCEPT ![s] = Intake!Nothing]
        /\ unfinished' = unfinished \cup ({desk[s].x, desk[s].new} \cap (Quotes \cup jobs))
    BY <1>10 DEF Intake!Throw, Intake!Return, Intake!intakeVars
  <2>2. DeskInv' /\ \A t \in Desk \ {s} : desk'[t] = desk[t]
    BY <1>1, <2>1 DEF DeskInv, DeskHolds, Intake!Nothing, QuotesAreNamed
  <2>3. \A p \in Quotes : Revised(p) => Revised(p)'
    BY <2>1, <2>2 DEF Revised
  <2>4. QuotesEarned'
    BY <1>1, <2>1, <2>3 DEF QuotesEarned
  <2> QED
    BY <1>1, <2>1, <2>2, <2>4 DEF CaseInv, CasesEarned
<1>11. CASE UNCHANGED Intake!caseVars
  BY <1>1, <1>11 DEF Intake!caseVars, Intake!intakeVars, CaseInv, CasesEarned, DeskInv, DeskHolds,
                     QuotesEarned, Revised
<1>12. CASE Intake!CaseNext
  BY <1>2, <1>3, <1>4, <1>5, <1>6, <1>7, <1>8, <1>9, <1>10, <1>12
     DEF Intake!CaseNext, Intake!CreateIncident, Intake!CreateServiceRequest, Intake!Submit,
         Intake!ResolveIncident, Intake!ResolveServiceRequest
<1> QED
  BY <1>11, <1>12 DEF Intake!Next, Intake!vars

\* The invariant holds at first, every step keeps it, and it has what is to hold in it.
LEMMA CaseInductive ==
    ASSUME QuotesAreNamed
    PROVE  /\ Intake!CaseInit => CaseInv
           /\ CaseInv /\ [Intake!Next]_(Intake!vars) => CaseInv'
           /\ CaseInv => Intake!StatusIsEarned
<1>1. Intake!CaseInit => CaseInv
  <2>1. Intake!CaseInit => CasesEarned
    BY DEF Intake!CaseInit, CasesEarned
  <2>2. Intake!CaseInit => DeskInv
    BY DEF Intake!CaseInit, Intake!Nothing, DeskInv, DeskHolds
  <2>3. Intake!CaseInit => QuotesEarned
    BY DEF Intake!CaseInit, QuotesEarned
  <2> QED
    BY <2>1, <2>2, <2>3 DEF CaseInv
<1>2. CaseInv => Intake!StatusIsEarned
  <2>1. CaseInv => \A c \in Intake!Cases :
            /\ case[c].status = "triaged" => case[c].acked
            /\ case[c].status = "dispatched" => case[c].order \in jobs
    BY DEF CaseInv, CasesEarned
  <2>2. CaseInv => \A q \in Quotes : quote[q].status = "superseded" => Revised(q)
    BY DEF CaseInv, QuotesEarned
  <2> QED
    BY <2>1, <2>2 DEF Revised, Intake!StatusIsEarned
<1> QED
  BY <1>1, <1>2, CaseStep

\* reactive.service.ts:275-295, :518-580 and :632: whatever calls overlap or are cut short, a
\* triaged incident has its ackedAt, a dispatched case a work order that exists, and a superseded
\* quote a revision unless the call that would write it is in progress or was cut.
THEOREM EarnedCorrect ==
    ASSUME QuotesAreNamed
    PROVE  Intake!Spec => []Intake!StatusIsEarned
BY CaseInductive, PTL DEF Intake!Spec, Intake!Init
-----------------------------------------------------------------------------
(* Inbound e-mail: how many rows a repeated mail gets *)

Writers(e) == {p \in Posts : posting[p].op = "create" /\ posting[p].event = e}

\* A post looks before it writes: the rows there are were written by posts that no longer are
\* about to, each of which looked when there was none.
MailInv ==
    /\ Intake!MailTypeOK
    /\ \A e \in Mails : /\ IsFiniteSet(Intake!RowsOf(e))
                        /\ Cardinality(Intake!RowsOf(e)) + Cardinality(Writers(e)) <= Cardinality(Posts)
    /\ \A p \in Posts : posting[p].op = "create" => posting[p].event \in Mails
    /\ \A p \in Posts : posting[p].op = "settle" => posting[p].row \in Rows
    /\ \A r \in Rows : mail[r].status = "received" /\ mail[r].signed =>
           r \in abandoned \/ \E p \in Posts : posting[p].op = "settle" /\ posting[p].row = r

LEMMA CardinalityOfIntake == \A S : Intake!Cardinality(S) = Cardinality(S)
  BY DEF Intake!Cardinality, Cardinality

LEMMA WriterFacts ==
    ASSUME PostsAreFew, NEW e \in Mails
    PROVE  /\ Cardinality(Posts) \in Nat /\ IsFiniteSet(Writers(e))
           /\ Cardinality(Writers(e)) \in Nat /\ Cardinality(Writers(e)) <= Cardinality(Posts)
BY FS_Subset, FS_CardinalityType DEF PostsAreFew, Writers

LEMMA FewerWriters ==
    ASSUME PostsAreFew, MailInv, NEW e \in Mails, Intake!RowsOf(e)' = Intake!RowsOf(e), Writers(e)' \subseteq Writers(e)
    PROVE  /\ IsFiniteSet(Intake!RowsOf(e)')
           /\ Cardinality(Intake!RowsOf(e)') + Cardinality(Writers(e)') <= Cardinality(Posts)
<1>1. /\ Cardinality(Writers(e)') <= Cardinality(Writers(e)) /\ Cardinality(Writers(e)') \in Nat
  BY WriterFacts, FS_Subset, FS_CardinalityType
<1>2. /\ Cardinality(Intake!RowsOf(e)) \in Nat /\ IsFiniteSet(Intake!RowsOf(e))
      /\ Cardinality(Intake!RowsOf(e)) + Cardinality(Writers(e)) <= Cardinality(Posts)
      /\ Cardinality(Posts) \in Nat /\ Cardinality(Writers(e)) \in Nat
  BY WriterFacts, FS_CardinalityType DEF MailInv
<1>3. IsFiniteSet(Intake!RowsOf(e)') /\ Cardinality(Intake!RowsOf(e)') = Cardinality(Intake!RowsOf(e))
  BY <1>2
<1> QED
  BY <1>1, <1>2, <1>3

LEMMA LookupStep ==
    ASSUME PostsAreFew, MailInv, NEW p \in Posts, NEW e \in Mails, NEW signed \in BOOLEAN,
           Intake!Lookup(p, e, signed)
    PROVE  MailInv'
<1>a. PICK next : next = [Intake!Idle EXCEPT !.op = "create", !.event = e, !.signed = signed]
  OBVIOUS
<1>b. /\ next \in [op : {"idle", "create", "settle"}, event : Mails \cup {"none"}, signed : BOOLEAN,
                   row : Rows \cup {"none"}]
      /\ next.op = "create" /\ next.event = e
  BY <1>a DEF Intake!Idle
<1>1. /\ posting' = [posting EXCEPT ![p] = next]
      /\ mail' = mail /\ abandoned' = abandoned /\ Intake!RowsOf(e) = {} /\ posting[p] = Intake!Idle
      /\ posting[p].op = "idle"
  <2>1. Intake!Idle.op = "idle"
    BY DEF Intake!Idle
  <2> QED
    BY <1>a, <2>1 DEF Intake!Lookup
<1>2. Intake!MailTypeOK'
  BY <1>1, <1>b DEF MailInv, Intake!MailTypeOK
<1>3. /\ posting'[p].op = "create" /\ posting'[p].event = e
      /\ \A q \in Posts \ {p} : posting'[q] = posting[q]
  BY <1>1, <1>b DEF MailInv, Intake!MailTypeOK
<1>4. \A f : Intake!RowsOf(f)' = Intake!RowsOf(f)
  BY <1>1 DEF Intake!RowsOf
<1>5. ASSUME NEW f \in Mails
      PROVE  /\ IsFiniteSet(Intake!RowsOf(f)')
             /\ Cardinality(Intake!RowsOf(f)') + Cardinality(Writers(f)') <= Cardinality(Posts)
  <2>1. CASE f = e
    <3>1. Intake!RowsOf(e)' = {} /\ Writers(e)' \subseteq Posts
      BY <1>1, <1>4 DEF Writers
    <3>2. IsFiniteSet(Intake!RowsOf(e)') /\ Cardinality(Intake!RowsOf(e)') = 0
      BY <3>1, FS_EmptySet
    <3>3. Cardinality(Writers(e)') <= Cardinality(Posts) /\ Cardinality(Writers(e)') \in Nat
          /\ Cardinality(Posts) \in Nat
      BY <3>1, FS_Subset, FS_CardinalityType DEF PostsAreFew
    <3> QED
      BY <2>1, <3>2, <3>3
  <2>2. CASE f # e
    <3>1. Writers(f)' \subseteq Writers(f)
      BY <1>3, <2>2 DEF Writers
    <3> QED
      BY <1>4, <3>1, FewerWriters
  <2> QED
    BY <2>1, <2>2
<1>6. \A q \in Posts : /\ posting'[q].op = "create" => posting'[q].event \in Mails
                       /\ posting'[q].op = "settle" => posting'[q].row \in Rows
  BY <1>3 DEF MailInv
<1>7. \A q \in Posts : posting[q].op = "settle" => posting'[q] = posting[q]
  BY <1>1, <1>3
<1> QED
  BY <1>1, <1>2, <1>5, <1>6, <1>7 DEF MailInv

LEMMA CreateRowStep ==
    ASSUME PostsAreFew, MailInv, NEW p \in Posts, Intake!CreateRow(p)
    PROVE  MailInv'
<1>a. PICK e \in Mails, signed \in BOOLEAN : e = posting[p].event /\ signed = posting[p].signed
  BY DEF MailInv, Intake!MailTypeOK, Intake!CreateRow
<1>b. PICK r \in Rows : /\ mail[r].event = "none"
                        /\ mail' = [mail EXCEPT ![r] = [event |-> e, signed |-> signed, status |-> "received"]]
                        /\ posting' = [posting EXCEPT ![p] =
                               IF signed THEN [posting[p] EXCEPT !.op = "settle", !.row = r] ELSE Intake!Idle]
  BY <1>a DEF Intake!CreateRow, Intake!RowsOf
<1>1. posting[p].op = "create" /\ abandoned' = abandoned
  BY DEF Intake!CreateRow
<1>c. PICK next : next = IF signed THEN [posting[p] EXCEPT !.op = "settle", !.row = r] ELSE Intake!Idle
  OBVIOUS
<1>d. posting' = [posting EXCEPT ![p] = next]
  BY <1>b, <1>c
<1>e. next \in [op : {"idle", "create", "settle"}, event : Mails \cup {"none"}, signed : BOOLEAN,
                row : Rows \cup {"none"}]
      /\ IF signed THEN next.op = "settle" /\ next.row = r ELSE next.op = "idle"
  <2>1. posting[p] \in [op : {"idle", "create", "settle"}, event : Mails \cup {"none"}, signed : BOOLEAN,
                       row : Rows \cup {"none"}]
    BY DEF MailInv, Intake!MailTypeOK
  <2>2. CASE signed
    BY <1>c, <2>1, <2>2
  <2>3. CASE ~signed
    BY <1>c, <2>3 DEF Intake!Idle
  <2> QED
    BY <2>2, <2>3
<1>2. /\ posting'[p] = next
      /\ posting' \in [Posts -> [op : {"idle", "create", "settle"}, event : Mails \cup {"none"},
                              signed : BOOLEAN, row : Rows \cup {"none"}]]
      /\ \A q \in Posts \ {p} : posting'[q] = posting[q]
  BY <1>d, <1>e DEF MailInv, Intake!MailTypeOK
<1>3. /\ mail'[r].event = e /\ mail'[r].signed = signed
      /\ \A x \in Rows \ {r} : mail'[x] = mail[x]
  BY <1>b DEF MailInv, Intake!MailTypeOK
<1>4. Intake!MailTypeOK'
  BY <1>1, <1>2, <1>b DEF MailInv, Intake!MailTypeOK
<1>5. ASSUME NEW f \in Mails
      PROVE  /\ IsFiniteSet(Intake!RowsOf(f)')
             /\ Cardinality(Intake!RowsOf(f)') + Cardinality(Writers(f)') <= Cardinality(Posts)
  <2>1. CASE f = e
    <3>1. /\ Intake!RowsOf(e)' = Intake!RowsOf(e) \cup {r} /\ r \notin Intake!RowsOf(e)
          /\ Writers(e)' = Writers(e) \ {p} /\ p \in Writers(e)
      BY <1>1, <1>2, <1>3, <1>a, <1>b, <1>e DEF Writers, Intake!RowsOf, PostsAreFew
    <3>2. /\ Cardinality(Intake!RowsOf(e)) \in Nat /\ IsFiniteSet(Intake!RowsOf(e))
          /\ Cardinality(Intake!RowsOf(e)) + Cardinality(Writers(e)) <= Cardinality(Posts)
          /\ Cardinality(Posts) \in Nat /\ Cardinality(Writers(e)) \in Nat /\ IsFiniteSet(Writers(e))
      BY WriterFacts, FS_CardinalityType DEF MailInv
    <3>3. /\ IsFiniteSet(Intake!RowsOf(e)')
          /\ Cardinality(Intake!RowsOf(e)') = Cardinality(Intake!RowsOf(e)) + 1
      BY <3>1, <3>2, FS_AddElement
    <3>4. Cardinality(Writers(e)') = Cardinality(Writers(e)) - 1
      BY <3>1, <3>2, FS_RemoveElement
    <3> QED
      BY <2>1, <3>2, <3>3, <3>4
  <2>2. CASE f # e
    <3>1. Writers(f)' \subseteq Writers(f)
      BY <1>1, <1>2, <1>a, <1>e, <2>2 DEF Writers
    <3>2. Intake!RowsOf(f)' = Intake!RowsOf(f)
      BY <1>3, <1>b, <2>2 DEF Intake!RowsOf, PostsAreFew
    <3> QED
      BY <3>1, <3>2, FewerWriters
  <2> QED
    BY <2>1, <2>2
<1>6. \A q \in Posts : /\ posting'[q].op = "create" => posting'[q].event \in Mails
                       /\ posting'[q].op = "settle" => posting'[q].row \in Rows
  BY <1>2, <1>e DEF MailInv
<1>7. ASSUME NEW x \in Rows, mail'[x].status = "received", mail'[x].signed
      PROVE  x \in abandoned' \/ \E q \in Posts : posting'[q].op = "settle" /\ posting'[q].row = x
  <2>1. CASE x = r
    BY <1>2, <1>3, <1>7, <1>e, <2>1
  <2>2. CASE x # r
    <3>1. x \in abandoned \/ \E q \in Posts : posting[q].op = "settle" /\ posting[q].row = x
      BY <1>3, <1>7, <2>2 DEF MailInv
    <3> QED
      BY <1>1, <1>2, <3>1
  <2> QED
    BY <2>1, <2>2
<1> QED
  BY <1>4, <1>5, <1>6, <1>7 DEF MailInv

\* A step that ends a post and adds no row
LEMMA EndPostStep ==
    ASSUME PostsAreFew, MailInv, NEW p \in Posts, posting' = [posting EXCEPT ![p] = Intake!Idle],
           Intake!MailTypeOK', \A x \in Rows : mail'[x].event = mail[x].event,
           \A x \in Rows : mail'[x].status = "received" /\ mail'[x].signed =>
               mail[x].status = "received" /\ mail[x].signed,
           abandoned \subseteq abandoned',
           \A x \in Rows : posting[p].op = "settle" /\ posting[p].row = x =>
               x \in abandoned' \/ mail'[x].status # "received"
    PROVE  MailInv'
<1>1. Intake!Idle.op = "idle" /\ posting'[p] = Intake!Idle /\ \A q \in Posts \ {p} : posting'[q] = posting[q]
  BY DEF Intake!Idle, MailInv, Intake!MailTypeOK
<1>2. ASSUME NEW f \in Mails
      PROVE  /\ IsFiniteSet(Intake!RowsOf(f)')
             /\ Cardinality(Intake!RowsOf(f)') + Cardinality(Writers(f)') <= Cardinality(Posts)
  <2>1. Intake!RowsOf(f)' = Intake!RowsOf(f)
    BY DEF Intake!RowsOf
  <2>2. Writers(f)' \subseteq Writers(f)
    BY <1>1 DEF Writers
  <2> QED
    BY <2>1, <2>2, FewerWriters
<1>3. \A q \in Posts : /\ posting'[q].op = "create" => posting'[q].event \in Mails
                       /\ posting'[q].op = "settle" => posting'[q].row \in Rows
  BY <1>1 DEF MailInv
<1>4. ASSUME NEW x \in Rows, mail'[x].status = "received", mail'[x].signed
      PROVE  x \in abandoned' \/ \E q \in Posts : posting'[q].op = "settle" /\ posting'[q].row = x
  <2>1. x \in abandoned \/ \E q \in Posts : posting[q].op = "settle" /\ posting[q].row = x
    BY <1>4 DEF MailInv
  <2> QED
    BY <1>1, <1>4, <2>1
<1> QED
  BY <1>2, <1>3, <1>4 DEF MailInv

\* The invariant holds at first, every step keeps it, and it has what is to hold in it.
LEMMA MailInductive ==
    ASSUME PostsAreFew
    PROVE  /\ Intake!MailInit => MailInv
           /\ MailInv /\ [Intake!Next]_(Intake!vars) => MailInv'
           /\ MailInv => Intake!RepeatsAreFolded
<1>1. ASSUME Intake!MailInit PROVE MailInv
  <2>1. /\ mail = [r \in Rows |-> [event |-> "none", signed |-> FALSE, status |-> "none"]]
        /\ posting = [p \in Posts |-> [op |-> "idle", event |-> "none", signed |-> FALSE, row |-> "none"]]
        /\ abandoned = {}
    BY <1>1 DEF Intake!Init, Intake!MailInit, Intake!Idle
  <2>2. Intake!MailTypeOK
    BY <2>1 DEF Intake!MailTypeOK
  <2>3. \A e \in Mails : Intake!RowsOf(e) = {} /\ Writers(e) = {}
    BY <2>1 DEF Intake!RowsOf, Writers, PostsAreFew
  <2>4. IsFiniteSet({}) /\ Cardinality({}) = 0 /\ Cardinality(Posts) \in Nat
    BY FS_EmptySet, FS_CardinalityType DEF PostsAreFew
  <2>5. \A e \in Mails : /\ IsFiniteSet(Intake!RowsOf(e))
                         /\ Cardinality(Intake!RowsOf(e)) + Cardinality(Writers(e)) <= Cardinality(Posts)
    BY <2>3, <2>4
  <2> QED
    BY <2>1, <2>2, <2>5 DEF MailInv
<1>2. ASSUME MailInv, [Intake!Next]_Intake!vars PROVE MailInv'
  <2> USE <1>2
  <2>1. ASSUME NEW p \in Posts, NEW e \in Mails, NEW signed \in BOOLEAN, Intake!Lookup(p, e, signed)
        PROVE  MailInv'
    BY <2>1, LookupStep
  <2>2. ASSUME NEW p \in Posts, Intake!CreateRow(p) PROVE MailInv'
    BY <2>2, CreateRowStep
  <2>3. ASSUME NEW p \in Posts, Intake!Settle(p) PROVE MailInv'
    <3>a. PICK r \in Rows : r = posting[p].row
      BY <2>3 DEF MailInv, Intake!Settle
    <3>b. PICK status \in {"orphan", "linked", "parsed", "virus_blocked"} :
              mail' = [mail EXCEPT ![r].status = status]
      BY <2>3, <3>a DEF Intake!Settle
    <3>1. posting' = [posting EXCEPT ![p] = Intake!Idle] /\ abandoned' = abandoned
      BY <2>3 DEF Intake!Settle
    <3>2. /\ mail'[r].event = mail[r].event /\ mail'[r].status = status
          /\ \A x \in Rows \ {r} : mail'[x] = mail[x]
          /\ Intake!MailTypeOK'
      BY <3>b, <3>1 DEF MailInv, Intake!MailTypeOK, Intake!Idle
    <3>3. \A x \in Rows : mail'[x].status = "received" /\ mail'[x].signed =>
               mail[x].status = "received" /\ mail[x].signed
      BY <3>2
    <3> QED
      BY <3>1, <3>2, <3>3, <3>a, EndPostStep
  <2>4. ASSUME NEW p \in Posts, Intake!PostThrows(p) PROVE MailInv'
    <3>1. /\ posting' = [posting EXCEPT ![p] = Intake!Idle] /\ mail' = mail
          /\ abandoned' = abandoned \cup ({posting[p].row} \cap Rows)
      BY <2>4 DEF Intake!PostThrows
    <3>2. Intake!MailTypeOK'
      BY <3>1 DEF MailInv, Intake!MailTypeOK, Intake!Idle
    <3> QED
      BY <3>1, <3>2, EndPostStep
  <2>5. CASE UNCHANGED Intake!mailVars
    BY <2>5 DEF MailInv, Intake!mailVars, Intake!MailTypeOK, Intake!RowsOf, Writers
  <2> QED
    BY <2>1, <2>2, <2>3, <2>4, <2>5 DEF Intake!Next, Intake!MailNext, Intake!vars
<1>3. ASSUME MailInv PROVE Intake!RepeatsAreFolded
  <2>1. ASSUME NEW e \in Mails PROVE Cardinality(Intake!RowsOf(e)) <= Cardinality(Posts)
    <3>1. Cardinality(Intake!RowsOf(e)) \in Nat
      BY <1>3, FS_CardinalityType DEF MailInv
    <3> QED
      BY <1>3, <3>1, WriterFacts DEF MailInv
  <2> QED
    BY <1>3, <2>1, CardinalityOfIntake DEF MailInv, Intake!RepeatsAreFolded
<1> QED
  BY <1>1, <1>2, <1>3

\* inbound-email.service.ts:70-80: for any number of posts, however often a mail is repeated and wherever
\* a post is cut, a mail has at most as many rows as posts can be handled at once, and a signed one
\* is left unparsed only by a post that is at it or did not finish.
THEOREM RepeatsCorrect ==
    ASSUME PostsAreFew
    PROVE  Intake!Spec => []Intake!RepeatsAreFolded
BY MailInductive, PTL DEF Intake!Spec, Intake!Init
-----------------------------------------------------------------------------
(* Floor assignments: how many primaries *)

Primaries == {u \in Crew : onFloor[u] = "primary"}
Appointing == {s \in Wardens : appointing[s] # "none"}

\* A call demotes every primary before it makes one: those there are were made since, one for each
\* call that no longer is about to.
DutyInv ==
    /\ onFloor \in [Crew -> {"none", "any", "primary"}]
    /\ appointing \in [Wardens -> Crew \cup {"none"}]
    /\ IsFiniteSet(Primaries)
    /\ Cardinality(Primaries) + Cardinality(Appointing) <= Cardinality(Wardens)

LEMMA CardinalityOfDuty == \A S : Duty!Cardinality(S) = Cardinality(S)
  BY DEF Duty!Cardinality, Cardinality

LEMMA WardenFacts ==
    ASSUME WardensAreFew, IsFiniteSet(Primaries)
    PROVE  /\ Cardinality(Wardens) \in Nat /\ IsFiniteSet(Appointing)
           /\ Cardinality(Appointing) \in Nat /\ Cardinality(Appointing) <= Cardinality(Wardens)
           /\ Cardinality(Primaries) \in Nat
BY FS_Subset, FS_CardinalityType DEF WardensAreFew, Appointing

\* A step that makes no primary and starts no appointment
LEMMA FewerStep ==
    ASSUME WardensAreFew, DutyInv, onFloor' \in [Crew -> {"none", "any", "primary"}],
           appointing' \in [Wardens -> Crew \cup {"none"}],
           Primaries' \subseteq Primaries, Appointing' \subseteq Appointing
    PROVE  DutyInv'
<1>1. IsFiniteSet(Primaries') /\ Cardinality(Primaries') <= Cardinality(Primaries)
  BY FS_Subset DEF DutyInv
<1>2. IsFiniteSet(Appointing') /\ Cardinality(Appointing') <= Cardinality(Appointing)
  BY WardenFacts, FS_Subset DEF DutyInv
<1>3. /\ Cardinality(Primaries') \in Nat /\ Cardinality(Appointing') \in Nat
      /\ Cardinality(Primaries) \in Nat /\ Cardinality(Appointing) \in Nat /\ Cardinality(Wardens) \in Nat
  BY <1>1, <1>2, WardenFacts, FS_CardinalityType DEF DutyInv
<1> QED
  BY <1>1, <1>2, <1>3 DEF DutyInv

\* The invariant holds at first, every step keeps it, and it has what is to hold in it.
LEMMA DutyInductive ==
    ASSUME WardensAreFew
    PROVE  /\ Duty!DutyInit => DutyInv
           /\ DutyInv /\ [Duty!Next]_(Duty!vars) => DutyInv'
           /\ DutyInv => Duty!PrimaryBound
<1>1. ASSUME Duty!DutyInit PROVE DutyInv
  <2>1. onFloor = [u \in Crew |-> "none"] /\ appointing = [s \in Wardens |-> "none"]
    BY <1>1 DEF Duty!Init, Duty!DutyInit
  <2>2. Primaries = {} /\ Appointing = {}
    BY <2>1 DEF Primaries, Appointing
  <2>3. IsFiniteSet(Primaries) /\ Cardinality(Primaries) = 0 /\ Cardinality(Appointing) = 0
    BY <2>2, FS_EmptySet
  <2> QED
    BY <2>1, <2>3, WardenFacts DEF DutyInv
<1>2. ASSUME DutyInv, [Duty!Next]_Duty!vars PROVE DutyInv'
  <2> USE <1>2
  <2>1. ASSUME NEW u \in Crew, Duty!Appoint(u) \/ Duty!Dismiss(u) \/ Duty!SetAvailability(u) PROVE DutyInv'
    <3>1. /\ onFloor' \in [Crew -> {"none", "any", "primary"}]
          /\ appointing' \in [Wardens -> Crew \cup {"none"}]
          /\ Primaries' \subseteq Primaries /\ Appointing' \subseteq Appointing
      BY <2>1 DEF DutyInv, Primaries, Appointing, Duty!Appoint, Duty!Dismiss, Duty!SetAvailability
    <3> QED
      BY <3>1, FewerStep
  <2>2. ASSUME NEW s \in Wardens, NEW u \in Crew, Duty!DemotePrimary(s, u) PROVE DutyInv'
    <3>1. /\ onFloor' = [v \in Crew |-> IF onFloor[v] = "primary" THEN "any" ELSE onFloor[v]]
          /\ appointing' = [appointing EXCEPT ![s] = u]
      BY <2>2 DEF Duty!DemotePrimary
    <3>2. /\ onFloor' \in [Crew -> {"none", "any", "primary"}]
          /\ appointing' \in [Wardens -> Crew \cup {"none"}]
          /\ Primaries' = {} /\ Appointing' \subseteq Wardens
      BY <3>1 DEF DutyInv, Primaries, Appointing
    <3>3. /\ IsFiniteSet(Primaries') /\ Cardinality(Primaries') = 0
          /\ Cardinality(Appointing') \in Nat /\ Cardinality(Appointing') <= Cardinality(Wardens)
      BY <3>2, FS_EmptySet, FS_Subset, FS_CardinalityType DEF WardensAreFew
    <3> QED
      BY <3>2, <3>3 DEF DutyInv
  <2>3. ASSUME NEW s \in Wardens, Duty!AppointPrimary(s) PROVE DutyInv'
    <3>a. PICK u \in Crew : u = appointing[s]
      BY <2>3 DEF DutyInv, Duty!AppointPrimary
    <3>1. onFloor' = [onFloor EXCEPT ![u] = "primary"] /\ appointing' = [appointing EXCEPT ![s] = "none"]
      BY <2>3, <3>a DEF Duty!AppointPrimary
    <3>2. /\ onFloor' \in [Crew -> {"none", "any", "primary"}]
          /\ appointing' \in [Wardens -> Crew \cup {"none"}]
          /\ Primaries' = Primaries \cup {u}
          /\ Appointing' = Appointing \ {s} /\ s \in Appointing
      BY <3>1, <3>a DEF DutyInv, Primaries, Appointing, WardensAreFew
    <3>3. IsFiniteSet(Primaries') /\ Cardinality(Primaries') \in Nat
          /\ Cardinality(Primaries') <= Cardinality(Primaries) + 1
      <4>1. IsFiniteSet(Primaries) /\ Cardinality(Primaries) \in Nat
        BY WardenFacts DEF DutyInv
      <4>2. CASE u \in Primaries
        <5>1. Primaries' = Primaries
          BY <3>2, <4>2
        <5> QED
          BY <4>1, <5>1
      <4>3. CASE u \notin Primaries
        <5>1. IsFiniteSet(Primaries') /\ Cardinality(Primaries') = Cardinality(Primaries) + 1
          BY <3>2, <4>1, <4>3, FS_AddElement
        <5> QED
          BY <4>1, <5>1
      <4> QED
        BY <4>2, <4>3
    <3>4. Cardinality(Appointing') = Cardinality(Appointing) - 1
      BY <3>2, WardenFacts, FS_RemoveElement DEF DutyInv
    <3>5. Cardinality(Primaries') + Cardinality(Appointing') <= Cardinality(Wardens)
      BY <3>3, <3>4, WardenFacts DEF DutyInv
    <3> QED
      BY <3>2, <3>3, <3>5 DEF DutyInv
  <2>4. ASSUME NEW s \in Wardens, Duty!Throw(s) PROVE DutyInv'
    <3>1. /\ onFloor' \in [Crew -> {"none", "any", "primary"}]
          /\ appointing' \in [Wardens -> Crew \cup {"none"}]
          /\ Primaries' \subseteq Primaries /\ Appointing' \subseteq Appointing
      BY <2>4 DEF DutyInv, Primaries, Appointing, Duty!Throw
    <3> QED
      BY <3>1, FewerStep
  <2>5. ASSUME UNCHANGED <<onFloor, appointing>> PROVE DutyInv'
    BY <2>5 DEF DutyInv, Primaries, Appointing
  <2>6. ASSUME NEW c \in Tickets, Duty!Route(c) \/ \E u \in Crew : Duty!AssignIncident(c, u) \/ Duty!AssignServiceRequest(c, u)
        PROVE  DutyInv'
    BY <2>5, <2>6 DEF Duty!Route, Duty!AssignIncident, Duty!AssignServiceRequest, Duty!Reassign
  <2>7. CASE UNCHANGED Duty!dutyVars
    BY <2>5, <2>7 DEF Duty!dutyVars
  <2> QED
    BY <2>1, <2>2, <2>3, <2>4, <2>6, <2>7 DEF Duty!Next, Duty!DutyNext, Duty!vars
<1>3. DutyInv => Duty!PrimaryBound
  <2>1. ASSUME DutyInv PROVE Cardinality(Primaries) <= Cardinality(Wardens)
    BY <2>1, WardenFacts DEF DutyInv
  <2> QED
    BY <2>1, CardinalityOfDuty DEF Duty!PrimaryBound, Primaries
<1> QED
  BY <1>1, <1>2, <1>3

\* assignment.service.ts:53: for any number of calls, a floor has for each role no more primaries than
\* there are calls that can overlap, however many came before.
THEOREM PrimaryBounded ==
    ASSUME WardensAreFew
    PROVE  Duty!Spec => []Duty!PrimaryBound
BY DutyInductive, PTL DEF Duty!Spec, Duty!Init
-----------------------------------------------------------------------------
(* Fanout: whom an event is delivered to *)

\* Everyone a dispatch in progress was for so far has a delivery, or is still on its list.
DispatchHolds(s) ==
    /\ dispatch[s].op \in {"idle", "rule", "write"}
    /\ dispatch[s].op = "rule" => dispatch[s].done \subseteq delivery
    /\ dispatch[s].op = "write" =>
           dispatch[s].done \subseteq delivery \cup {<<x, dispatch[s].channel>> : x \in dispatch[s].left}

FanInv ==
    /\ DOMAIN dispatch = Dispatches
    /\ \A s \in Dispatches : DispatchHolds(s)
    /\ Fan!RecipientsReached

\* What the resolver finds are members on duty, and what they opted out of is respected: this is so
\* in every state, reached or not.
LEMMA Chosen ==
    ASSUME AudienceIsNoMailbox
    PROVE  Fan!ChosenAreEligible
<1> SUFFICES ASSUME NEW s \in Dispatches, NEW r \in NotifyRules, NEW c \in Fan!Channels,
                    NEW m \in Audience \cap Fan!Resolve(r, c)
             PROVE  /\ profile[m].active
                    /\ r.strategy = "role" => profile[m].role = r.role /\ (profile[m].expired => r.scope # {})
                    /\ c = "email" => profile[m].mail = "open"
                    /\ [channel |-> c, scope |-> "category"] \notin profile[m].mutes
  BY DEF Fan!ChosenAreEligible
<1>1. /\ m \in Fan!Candidates(r, c) /\ ~Fan!Muted(m, r, c)
      /\ c = "email" => profile[m].mail = "open"
  BY DEF Fan!Resolve
<1>2. m \notin Mailboxes
  BY DEF AudienceIsNoMailbox
<1>3. profile[m].active
  BY <1>1, <1>2 DEF Fan!Candidates, Fan!ByTeamMemberIds
<1>4. r.strategy = "role" => Fan!HoldsRole(m, r)
  BY <1>1 DEF Fan!Candidates, Fan!ByTeamMemberIds
<1>5. r.strategy = "role" => profile[m].role = r.role /\ (profile[m].expired => r.scope # {})
  BY <1>4 DEF Fan!HoldsRole
<1>6. PICK p : p = [channel |-> c, scope |-> "category"]
  OBVIOUS
<1>7. p.channel = c /\ p.scope = "category"
  BY <1>6
<1>8. p \notin profile[m].mutes
  BY <1>1, <1>7 DEF Fan!Muted
<1> QED
  BY <1>1, <1>3, <1>5, <1>6, <1>8

\* The invariant holds at first, every step keeps it, and it has what is to hold in it.
LEMMA FanInductive ==
    ASSUME AudienceIsNoMailbox
    PROVE  /\ Fan!Init => FanInv
           /\ FanInv /\ [Fan!Next]_(Fan!vars) => FanInv'
           /\ FanInv => Fan!RecipientsReached /\ Fan!ChosenAreEligible
<1>1. Fan!Init => FanInv
  BY DEF Fan!Init, Fan!Waiting, FanInv, DispatchHolds, Fan!RecipientsReached
<1>2. ASSUME FanInv, [Fan!Next]_Fan!vars PROVE FanInv'
  <2> USE <1>2
  <2>1. ASSUME NEW s \in Dispatches, NEW next, dispatch' = [dispatch EXCEPT ![s] = next],
               settled' \subseteq delivery', delivery \subseteq delivery',
               /\ next.op \in {"idle", "rule", "write"}
               /\ next.op = "rule" => next.done \subseteq delivery'
               /\ next.op = "write" =>
                      next.done \subseteq delivery' \cup {<<x, next.channel>> : x \in next.left}
        PROVE  FanInv'
    <3>1. /\ DOMAIN dispatch' = Dispatches /\ dispatch'[s] = next
          /\ \A t \in Dispatches \ {s} : dispatch'[t] = dispatch[t]
      BY <2>1 DEF FanInv
    <3>2. ASSUME NEW t \in Dispatches PROVE DispatchHolds(t)'
      <4>1. CASE t = s
        BY <4>1, <2>1, <3>1 DEF DispatchHolds
      <4>2. CASE t # s
        <5>1. DispatchHolds(t) /\ dispatch'[t] = dispatch[t]
          BY <4>2, <3>1 DEF FanInv
        <5> QED
          BY <5>1, <2>1 DEF DispatchHolds
      <4> QED
        BY <4>1, <4>2
    <3> QED
      BY <2>1, <3>1, <3>2 DEF FanInv, Fan!RecipientsReached
  <2>2. ASSUME NEW todo, NEW done, NEW channel, NEW left
        PROVE  LET next == Fan!Writing(todo, done, channel, left) IN
               /\ next.op = IF left = {} THEN "rule" ELSE "write"
               /\ next.done = done /\ next.channel = channel /\ next.left = left
    BY DEF Fan!Writing
  <2>3. ASSUME NEW s \in Dispatches, Fan!Dispatch(s) PROVE FanInv'
    <3>1. PICK todo, next : /\ next = Fan!Writing(todo, {}, "none", {})
                            /\ dispatch' = [dispatch EXCEPT ![s] = next]
      BY <2>3 DEF Fan!Dispatch
    <3>2. next.op = "rule" /\ next.done = {}
      BY <3>1, <2>2
    <3>3. settled' \subseteq delivery' /\ delivery \subseteq delivery'
      BY <2>3 DEF Fan!Dispatch, FanInv, Fan!RecipientsReached
    <3> QED
      BY <2>1, <3>1, <3>2, <3>3
  <2>4. ASSUME NEW s \in Dispatches, Fan!ResolveRule(s) PROVE FanInv'
    <3>1. PICK t : dispatch' = [dispatch EXCEPT ![s] =
                      Fan!Writing(@.todo \ {t},
                                  dispatch[s].done \cup {<<x, t[2]>> : x \in Fan!Resolve(t[1], t[2])},
                                  t[2], Fan!Resolve(t[1], t[2]))]
      BY <2>4 DEF Fan!ResolveRule
    <3>2. PICK found : found = Fan!Resolve(t[1], t[2])
      OBVIOUS
    <3>3. PICK done : done = dispatch[s].done \cup {<<x, t[2]>> : x \in found}
      OBVIOUS
    <3>4. PICK next : next = Fan!Writing(dispatch[s].todo \ {t}, done, t[2], found)
      OBVIOUS
    <3>5. dispatch' = [dispatch EXCEPT ![s] = next]
      BY <3>1, <3>2, <3>3, <3>4 DEF FanInv
    <3>6. /\ next.op = IF found = {} THEN "rule" ELSE "write"
          /\ next.done = done /\ next.channel = t[2] /\ next.left = found
      BY <3>4, <2>2
    <3>7. dispatch[s].done \subseteq delivery
      BY <2>4 DEF Fan!ResolveRule, FanInv, DispatchHolds
    <3>8. /\ next.op = "rule" => next.done \subseteq delivery
          /\ next.done \subseteq delivery \cup {<<x, next.channel>> : x \in next.left}
      BY <3>3, <3>6, <3>7
    <3>9. settled' \subseteq delivery' /\ delivery' = delivery
      BY <2>4 DEF Fan!ResolveRule, FanInv, Fan!RecipientsReached
    <3> QED
      BY <2>1, <3>5, <3>6, <3>8, <3>9
  <2>5. ASSUME NEW s \in Dispatches, Fan!CreateDelivery(s) PROVE FanInv'
    <3>1. PICK x \in dispatch[s].left :
              /\ delivery' = delivery \cup {<<x, dispatch[s].channel>>}
              /\ dispatch' = [dispatch EXCEPT ![s] =
                     Fan!Writing(@.todo, @.done, @.channel, @.left \ {x})]
      BY <2>5 DEF Fan!CreateDelivery
    <3>2. PICK next : next = Fan!Writing(dispatch[s].todo, dispatch[s].done, dispatch[s].channel,
                                         dispatch[s].left \ {x})
      OBVIOUS
    <3>3. dispatch' = [dispatch EXCEPT ![s] = next]
      BY <3>1, <3>2 DEF FanInv
    <3>4. /\ next.op = IF dispatch[s].left \ {x} = {} THEN "rule" ELSE "write"
          /\ next.done = dispatch[s].done /\ next.channel = dispatch[s].channel
          /\ next.left = dispatch[s].left \ {x}
      BY <3>2, <2>2
    <3>5. dispatch[s].done \subseteq
              delivery \cup {<<y, dispatch[s].channel>> : y \in dispatch[s].left}
      BY <2>5 DEF Fan!CreateDelivery, FanInv, DispatchHolds
    <3>6. next.done \subseteq delivery' \cup {<<y, next.channel>> : y \in next.left}
      BY <3>1, <3>4, <3>5
    <3>7. next.op = "rule" => next.done \subseteq delivery'
      BY <3>4, <3>6
    <3>8. settled' \subseteq delivery' /\ delivery \subseteq delivery'
      BY <2>5, <3>1 DEF Fan!CreateDelivery, FanInv, Fan!RecipientsReached
    <3> QED
      BY <2>1, <3>3, <3>4, <3>6, <3>7, <3>8
  <2>6. ASSUME NEW s \in Dispatches, Fan!Finish(s) \/ Fan!CutDispatch(s) PROVE FanInv'
    <3>1. PICK next : next = Fan!Waiting
      OBVIOUS
    <3>2. next.op = "idle" /\ dispatch' = [dispatch EXCEPT ![s] = next] /\ delivery' = delivery
      BY <2>6, <3>1 DEF Fan!Finish, Fan!CutDispatch, Fan!Waiting
    <3>3. settled' \subseteq delivery'
      BY <2>6 DEF Fan!Finish, Fan!CutDispatch, FanInv, DispatchHolds, Fan!RecipientsReached
    <3> QED
      BY <2>1, <3>2, <3>3
  <2>7. CASE UNCHANGED <<delivery, dispatch, settled>>
    BY <2>7 DEF FanInv, DispatchHolds, Fan!RecipientsReached
  <2> QED
    BY <1>2, <2>3, <2>4, <2>5, <2>6, <2>7 DEF Fan!Next, Fan!vars, Fan!Refile
<1>3. FanInv => Fan!RecipientsReached
  BY DEF FanInv
<1>4. Fan!ChosenAreEligible
  BY Chosen
<1> QED
  BY <1>1, <1>2, <1>3, <1>4

\* notifications.service.ts:56-142 and recipient-resolver.service.ts:60-189, whatever the rules, the
\* profiles and the order of the rows, however many dispatches of the event overlap and wherever they
\* are cut short: whom a dispatch that came to its end was for has a delivery, and nobody is chosen
\* who is inactive, not in the role, suppressed or has opted out.
THEOREM FanCorrect ==
    ASSUME AudienceIsNoMailbox
    PROVE  Fan!Spec => [](Fan!RecipientsReached /\ Fan!ChosenAreEligible)
BY FanInductive, PTL DEF Fan!Spec
-----------------------------------------------------------------------------
(* Condition triggers: how far apart the tasks of a trigger are *)

TriggerTypes ==
    /\ clock \in Nat /\ opened \subseteq Nat
    /\ trigger.fired \in Nat \cup {-1}
    /\ disturbed \in BOOLEAN
    /\ \A r \in Readers : reading[r].at \in Nat

Firing == {r \in Readers : reading[r].step \in {"spawn", "stamp"}}

\* As long as readings fire one at a time: what fires is a cooldown after the last that fired, and
\* every task but the one about to be stamped is of a reading no later than that.
TriggerHolds ==
    /\ \A r, x \in Firing : r = x
    /\ \A r \in Firing : trigger.fired = -1 \/ reading[r].at - trigger.fired >= Cooldown
    /\ \A a, b \in opened : a < b => b - a >= Cooldown
    /\ \A a \in opened : \/ trigger.fired # -1 /\ a <= trigger.fired
                         \/ \E r \in Readers : reading[r].step = "stamp" /\ reading[r].at = a

TriggerInv ==
    /\ TriggerTypes
    /\ trigger = [op |-> trigger.op, fired |-> trigger.fired, last |-> trigger.last]
    /\ reading = [r \in Readers |-> [value |-> reading[r].value, at |-> reading[r].at, step |-> reading[r].step]]
    /\ ~disturbed => TriggerHolds

\* The invariant holds at first, every step keeps it, and it has what is to hold in it.
LEMMA TriggerInductive ==
    ASSUME Cooldown \in Nat
    PROVE  /\ Connector!TriggerInit => TriggerInv
           /\ TriggerInv /\ [Connector!Next]_(Connector!vars) => TriggerInv'
           /\ TriggerInv => Connector!TasksAreSpaced
<1>1. ASSUME Connector!TriggerInit PROVE TriggerInv
  <2>1. /\ trigger = [op |-> "none", fired |-> -1, last |-> -1] /\ opened = {} /\ clock = 0
        /\ disturbed = FALSE /\ reading = [r \in Readers |-> [value |-> 0, at |-> 0, step |-> "idle"]]
    BY <1>1 DEF Connector!Init, Connector!TriggerInit, Connector!AtRest
  <2> QED
    BY <2>1 DEF TriggerInv, TriggerTypes, TriggerHolds, Firing
<1>2. ASSUME TriggerInv, [Connector!Next]_Connector!vars PROVE TriggerInv'
  <2> USE <1>2
  <2>1. ASSUME NEW r \in Readers, NEW value \in Values, NEW at \in 0 .. clock, Connector!Read(r, value, at)
        PROVE  TriggerInv'
    <3>a. PICK fires \in BOOLEAN :
              fires = (Connector!ThresholdMet(trigger.op, value, trigger.last) /\ ~Connector!Cooling(trigger.fired, at))
      OBVIOUS
    <3>b. PICK step : step = IF fires THEN "spawn" ELSE "note"
      OBVIOUS
    <3>1. /\ reading' = [reading EXCEPT ![r] = [value |-> value, at |-> at, step |-> step]]
          /\ disturbed' = (disturbed \/ (fires /\ \E x \in Readers : reading[x].step \in {"spawn", "stamp"}))
          /\ UNCHANGED <<trigger, opened, clock>> /\ reading[r] = Connector!AtRest
      BY <2>1, <3>a, <3>b DEF Connector!Read
    <3>2. /\ reading'[r].value = value /\ reading'[r].at = at /\ reading'[r].step = step
          /\ \A x \in Readers \ {r} : reading'[x] = reading[x]
          /\ reading' = [x \in Readers |-> [value |-> reading'[x].value, at |-> reading'[x].at, step |-> reading'[x].step]]
      BY <3>1 DEF TriggerInv
    <3>3. TriggerTypes' /\ at \in Nat
      BY <3>1, <3>2 DEF TriggerInv, TriggerTypes
    <3>4. fires => trigger.fired = -1 \/ at - trigger.fired >= Cooldown
      <4>1. trigger.fired \in Nat \cup {-1} /\ at \in Nat
        BY <3>3 DEF TriggerInv, TriggerTypes
      <4>2. fires => ~Connector!Cooling(trigger.fired, at)
        BY <3>a
      <4> HIDE <1>2, <2>1
      <4>3. ~Connector!Cooling(trigger.fired, at) => trigger.fired = -1 \/ at - trigger.fired >= Cooldown
        BY <4>1 DEF Connector!Cooling
      <4> QED
        BY <4>2, <4>3
    <3>5. ASSUME ~disturbed' PROVE TriggerHolds'
      <4>1. TriggerHolds /\ (fires => Firing = {})
        BY <3>1, <3>5 DEF TriggerInv, Firing
      <4>2. Firing' = IF fires THEN {r} ELSE Firing
        BY <3>1, <3>2, <3>b, <4>1 DEF Firing, Connector!AtRest
      <4>3. \A x \in Readers : reading[x].step = "stamp" => reading'[x] = reading[x]
        BY <3>1, <3>2 DEF Connector!AtRest
      <4>4. \A x \in Firing' : x = r \/ (x \in Firing /\ reading'[x] = reading[x])
        BY <3>1, <3>2, <4>2 DEF Firing, Connector!AtRest
      <4>5. r \in Firing' => fires
        BY <3>1, <4>2 DEF Firing, Connector!AtRest
      <4> QED
        BY <3>1, <3>2, <3>4, <4>1, <4>2, <4>3, <4>4, <4>5 DEF TriggerHolds
    <3> QED
      BY <3>1, <3>2, <3>3, <3>5 DEF TriggerInv
  <2>2. ASSUME NEW r \in Readers, Connector!NoteReading(r) PROVE TriggerInv'
    <3>1. /\ trigger' = [trigger EXCEPT !.last = reading[r].value]
          /\ reading' = [reading EXCEPT ![r] = Connector!AtRest] /\ reading[r].step = "note"
          /\ UNCHANGED <<opened, clock, disturbed>>
      BY <2>2 DEF Connector!NoteReading
    <3>2. /\ trigger'.fired = trigger.fired
          /\ trigger' = [op |-> trigger'.op, fired |-> trigger'.fired, last |-> trigger'.last]
          /\ reading'[r].at = 0 /\ reading'[r].step = "idle"
          /\ \A x \in Readers \ {r} : reading'[x] = reading[x]
          /\ reading' = [x \in Readers |-> [value |-> reading'[x].value, at |-> reading'[x].at, step |-> reading'[x].step]]
      BY <3>1 DEF TriggerInv, Connector!AtRest
    <3>3. Firing' = Firing /\ r \notin Firing
      BY <3>1, <3>2 DEF Firing
    <3> QED
      <4>1. TriggerTypes'
        BY <3>1, <3>2 DEF TriggerInv, TriggerTypes
      <4>2. \A x \in Firing : reading'[x] = reading[x]
        BY <3>2, <3>3 DEF Firing
      <4>3. \A x \in Readers : reading[x].step = "stamp" => reading'[x] = reading[x]
        BY <3>1, <3>2
      <4>4. ASSUME TriggerHolds PROVE TriggerHolds'
        BY <3>1, <3>2, <3>3, <4>2, <4>3, <4>4 DEF TriggerHolds
      <4> QED
        BY <3>1, <3>2, <4>1, <4>4 DEF TriggerInv
  <2>3. ASSUME NEW r \in Readers, Connector!CreateTaskFromTrigger(r) PROVE TriggerInv'
    <3>1. /\ opened' = opened \cup {reading[r].at} /\ reading[r].step = "spawn"
          /\ reading' = [reading EXCEPT ![r].step = "stamp"] /\ UNCHANGED <<trigger, clock, disturbed>>
      BY <2>3 DEF Connector!CreateTaskFromTrigger
    <3>2. /\ reading'[r].at = reading[r].at /\ reading'[r].step = "stamp"
          /\ \A x \in Readers \ {r} : reading'[x] = reading[x]
          /\ reading' = [x \in Readers |-> [value |-> reading'[x].value, at |-> reading'[x].at, step |-> reading'[x].step]]
      BY <3>1 DEF TriggerInv
    <3>3. TriggerTypes'
      BY <3>1, <3>2 DEF TriggerInv, TriggerTypes
    <3>4. ASSUME ~disturbed' PROVE TriggerHolds'
      <4>1. TriggerHolds /\ r \in Firing
        BY <3>1, <3>4 DEF TriggerInv, Firing
      <4>2. Firing' = Firing /\ \A x \in Firing : x = r
        BY <3>2, <4>1 DEF Firing, TriggerHolds
      <4>3. \A a \in opened : trigger.fired # -1 /\ a <= trigger.fired
        <5>1. \A x \in Readers : reading[x].step # "stamp"
          BY <3>1, <4>2 DEF Firing
        <5> QED
          BY <4>1, <5>1 DEF TriggerHolds
      <4>4. \A a \in opened : reading[r].at - a >= Cooldown
        <5>1. reading[r].at \in Nat /\ trigger.fired \in Nat \cup {-1} /\ opened \subseteq Nat
          BY DEF TriggerInv, TriggerTypes
        <5> QED
          BY <4>1, <4>3, <5>1 DEF TriggerHolds
      <4>5. ASSUME NEW a \in opened', NEW b \in opened', a < b PROVE b - a >= Cooldown
        <5>1. reading[r].at \in Nat /\ opened \subseteq Nat
          BY DEF TriggerInv, TriggerTypes
        <5> QED
          BY <3>1, <4>1, <4>4, <4>5, <5>1 DEF TriggerHolds
      <4> QED
        BY <3>1, <3>2, <4>1, <4>2, <4>3, <4>5 DEF TriggerHolds
    <3> QED
      BY <3>1, <3>2, <3>3, <3>4 DEF TriggerInv
  <2>4. ASSUME NEW r \in Readers, Connector!StampTrigger(r) PROVE TriggerInv'
    <3>1. /\ trigger' = [trigger EXCEPT !.fired = reading[r].at, !.last = reading[r].value]
          /\ reading' = [reading EXCEPT ![r] = Connector!AtRest] /\ reading[r].step = "stamp"
          /\ UNCHANGED <<opened, clock, disturbed>>
      BY <2>4 DEF Connector!StampTrigger
    <3>2. /\ trigger'.fired = reading[r].at
          /\ trigger' = [op |-> trigger'.op, fired |-> trigger'.fired, last |-> trigger'.last]
          /\ reading'[r].at = 0 /\ reading'[r].step = "idle"
          /\ \A x \in Readers \ {r} : reading'[x] = reading[x]
          /\ reading' = [x \in Readers |-> [value |-> reading'[x].value, at |-> reading'[x].at, step |-> reading'[x].step]]
      BY <3>1 DEF TriggerInv, Connector!AtRest
    <3>3. TriggerTypes'
      BY <3>1, <3>2 DEF TriggerInv, TriggerTypes
    <3>4. ASSUME ~disturbed' PROVE TriggerHolds'
      <4>1. TriggerHolds /\ r \in Firing
        BY <3>1, <3>4 DEF TriggerInv, Firing
      <4>2. Firing' = {} /\ \A x \in Firing : x = r
        BY <3>2, <4>1 DEF Firing, TriggerHolds
      <4>3. /\ reading[r].at \in Nat /\ trigger.fired \in Nat \cup {-1} /\ opened \subseteq Nat
        BY DEF TriggerInv, TriggerTypes
      <4>4. \A a \in opened : a <= reading[r].at
        <5>1. ASSUME NEW a \in opened PROVE a <= reading[r].at
          <6>1. CASE trigger.fired # -1 /\ a <= trigger.fired
            BY <4>1, <4>3, <6>1 DEF TriggerHolds
          <6>2. CASE \E x \in Readers : reading[x].step = "stamp" /\ reading[x].at = a
            BY <4>2, <4>3, <6>2 DEF Firing
          <6> QED
            BY <4>1, <6>1, <6>2 DEF TriggerHolds
        <5> QED
          BY <5>1
      <4> QED
        BY <3>1, <3>2, <4>1, <4>2, <4>3, <4>4 DEF TriggerHolds
    <3> QED
      BY <3>1, <3>2, <3>3, <3>4 DEF TriggerInv
  <2>5. ASSUME NEW r \in Readers, Connector!CutReading(r) PROVE TriggerInv'
    BY <2>5 DEF TriggerInv, TriggerTypes, Connector!CutReading, Connector!AtRest
  <2>6. ASSUME NEW op \in Operators, Connector!Create(op) PROVE TriggerInv'
    <3>1. trigger' = [trigger EXCEPT !.op = op] /\ UNCHANGED <<opened, reading, clock, disturbed>>
      BY <2>6 DEF Connector!Create
    <3>2. trigger'.fired = trigger.fired
          /\ trigger' = [op |-> trigger'.op, fired |-> trigger'.fired, last |-> trigger'.last]
      BY <3>1 DEF TriggerInv
    <3> QED
      BY <3>1, <3>2 DEF TriggerInv, TriggerTypes, TriggerHolds, Firing
  <2>7. CASE Connector!Tick
    BY <2>7 DEF TriggerInv, TriggerTypes, TriggerHolds, Firing, Connector!Tick
  <2>8. CASE UNCHANGED Connector!triggerVars
    BY <2>8 DEF TriggerInv, TriggerTypes, TriggerHolds, Firing, Connector!triggerVars
  <2> QED
    BY <2>1, <2>2, <2>3, <2>4, <2>5, <2>6, <2>7, <2>8
    DEF Connector!Next, Connector!TriggerNext, Connector!vars
<1>3. TriggerInv => Connector!TasksAreSpaced
  BY DEF TriggerInv, TriggerTypes, TriggerHolds, Connector!TasksAreSpaced
<1> QED
  BY <1>1, <1>2, <1>3

\* condition-triggers.service.ts:118-172: for any number of readings, however late and in whatever order
\* they arrive, the tasks a trigger opened lie at least a cooldown apart and the trigger remembers the
\* last of them, unless two were evaluated at once or one was cut before the stamp.
THEOREM SpacingCorrect ==
    ASSUME Cooldown \in Nat
    PROVE  Connector!Spec => []Connector!TasksAreSpaced
BY TriggerInductive, PTL DEF Connector!Spec, Connector!Init
-----------------------------------------------------------------------------
(* Connectors: vendors by name, and an incident for each alarm *)

Lined == Connector!DecodeVendors(Sheet)
Alarms == {p.ref : p \in {q \in Connector!DecodeBridge(Envelope) : Connector!IsIncident(q)}}
Creating(n) == {s \in Loops : loop[s].op = "create" /\ loop[s].line.name = n}
Awaiting(r) == {s \in Loops : loop[s].op = "points" /\ r \in loop[s].todo}

\* What a call has passed is there: a vendor of the name of each line.
SheetHolds(s) ==
    /\ loop[s].op = "find" =>
           /\ loop[s].todo \subseteq Lined
           /\ \A l \in Lined \ loop[s].todo : Connector!NamedBy(l.name) # {}
    /\ loop[s].op = "create" =>
           /\ loop[s].todo \subseteq Lined /\ loop[s].line \in Lined
           /\ \A l \in Lined \ (loop[s].todo \cup {loop[s].line}) : Connector!NamedBy(l.name) # {}

\* A name nobody crossed at is about to be made by one call at most, and then it has no vendor yet.
VendorInv ==
    /\ vendor = [v \in Vendors |-> [name |-> vendor[v].name, terms |-> vendor[v].terms]]
    /\ \A s \in Loops : SheetHolds(s)
    /\ \A n \in Names \ unfound :
           /\ \A v, w \in Connector!NamedBy(n) : v = w
           /\ \A s \in Creating(n) : Connector!NamedBy(n) = {} /\ \A r \in Creating(n) : r = s
    /\ "sheet" \in answered => \A l \in Lined : Connector!NamedBy(l.name) # {}

\* An envelope pays for the incident of each of its points, opened or still to open.
BridgeInv ==
    /\ incidents \in [Connector!Refs -> Nat] /\ posts \in Nat
    /\ \A s \in Loops : loop[s].op = "points" =>
           loop[s].todo \subseteq Alarms /\ \A r \in Alarms \ loop[s].todo : incidents[r] > 0
    /\ \A r \in Connector!Refs : /\ incidents[r] + Cardinality(Awaiting(r)) <= posts
                                 /\ incidents[r] > 0 => r \in Alarms
    /\ "envelope" \in answered => \A r \in Alarms : incidents[r] > 0

InboundInv == DOMAIN loop = Loops /\ VendorInv /\ BridgeInv

\* The call of s goes on to next and nobody else's moves.
GoesTo(s, next) == loop'[s] = next /\ \A r \in Loops \ {s} : loop'[r] = loop[r]

LEMMA Going ==
    ASSUME DOMAIN loop = Loops, NEW s \in Loops, NEW next, Connector!Goto(s, next)
    PROVE  DOMAIN loop' = Loops /\ GoesTo(s, next)
BY DEF Connector!Goto, GoesTo

\* A step that writes no vendor and begins no search
LEMMA VendorFrame ==
    ASSUME VendorInv, NEW s \in Loops, NEW next, GoesTo(s, next), next.op \notin {"find", "create"},
           UNCHANGED <<vendor, unfound>>,
           "sheet" \in answered' => "sheet" \in answered \/ (loop[s].op = "find" /\ loop[s].todo = {})
    PROVE  VendorInv'
<1>1. \A n : Connector!NamedBy(n)' = Connector!NamedBy(n) /\ Creating(n)' \subseteq Creating(n)
  BY DEF Connector!NamedBy, Creating, GoesTo
<1>2. ASSUME NEW r \in Loops PROVE SheetHolds(r)'
  <2>1. CASE r = s
    BY <2>1 DEF SheetHolds, GoesTo
  <2>2. CASE r # s
    <3>1. SheetHolds(r) /\ loop'[r] = loop[r]
      BY <2>2 DEF VendorInv, GoesTo
    <3> QED
      BY <3>1, <1>1 DEF SheetHolds, Lined
  <2> QED
    BY <2>1, <2>2
<1>3. ASSUME NEW n \in Names \ unfound'
      PROVE  /\ \A v, w \in Connector!NamedBy(n)' : v = w
             /\ \A x \in Creating(n)' : Connector!NamedBy(n)' = {} /\ \A r \in Creating(n)' : r = x
  BY <1>1 DEF VendorInv
<1>4. "sheet" \in answered' => \A l \in Lined : Connector!NamedBy(l.name)' # {}
  BY <1>1 DEF VendorInv, SheetHolds
<1> QED
  BY <1>2, <1>3, <1>4 DEF VendorInv, Lined

\* A step that opens no incident and begins no envelope
LEMMA BridgeFrame ==
    ASSUME LinesAndPoints, BridgeInv, NEW s \in Loops, NEW next, GoesTo(s, next), next.op # "points",
           UNCHANGED <<incidents, posts>>,
           "envelope" \in answered' => "envelope" \in answered \/ (loop[s].op = "points" /\ loop[s].todo = {})
    PROVE  BridgeInv'
<1>1. ASSUME NEW r \in Connector!Refs
      PROVE  Cardinality(Awaiting(r)') <= Cardinality(Awaiting(r)) /\ Cardinality(Awaiting(r)') \in Nat /\ Cardinality(Awaiting(r)) \in Nat
  <2>1. Awaiting(r)' \subseteq Awaiting(r)
    BY DEF Awaiting, GoesTo
  <2>2. IsFiniteSet(Awaiting(r))
    BY FS_Subset DEF Awaiting, LinesAndPoints
  <2> QED
    BY <2>1, <2>2, FS_Subset, FS_CardinalityType
<1>2. \A r \in Connector!Refs : incidents[r] + Cardinality(Awaiting(r)') <= posts
  BY <1>1 DEF BridgeInv
<1>3. \A r \in Loops : loop'[r].op = "points" =>
           loop'[r].todo \subseteq Alarms /\ \A x \in Alarms \ loop'[r].todo : incidents[x] > 0
  BY DEF BridgeInv, GoesTo
<1>4. "envelope" \in answered' => \A r \in Alarms : incidents[r] > 0
  BY DEF BridgeInv
<1> QED
  BY <1>2, <1>3, <1>4 DEF BridgeInv, Alarms

LEMMA ImportStep ==
    ASSUME LinesAndPoints, InboundInv, NEW s \in Loops, Connector!ImportVendors(s)
    PROVE  InboundInv'
<1>1. PICK next : next = [op |-> "find", todo |-> Lined]
  OBVIOUS
<1>2. Connector!Goto(s, next) /\ UNCHANGED <<vendor, incidents, posts, answered, unfound>>
  BY <1>1 DEF Connector!ImportVendors, Lined
<1>3. DOMAIN loop' = Loops /\ GoesTo(s, next)
  BY <1>2, Going DEF InboundInv
<1>4. next.op = "find" /\ next.todo = Lined
  BY <1>1
<1>5. BridgeInv'
  BY <1>2, <1>3, <1>4, BridgeFrame DEF InboundInv
<1>6. \A n : Connector!NamedBy(n)' = Connector!NamedBy(n) /\ Creating(n)' \subseteq Creating(n)
  BY <1>2, <1>3, <1>4 DEF Connector!NamedBy, Creating, GoesTo
<1>7. ASSUME NEW r \in Loops PROVE SheetHolds(r)'
  <2>1. CASE r = s
    BY <2>1, <1>3, <1>4 DEF SheetHolds, GoesTo, Lined
  <2>2. CASE r # s
    <3>1. SheetHolds(r) /\ loop'[r] = loop[r]
      BY <2>2, <1>3 DEF InboundInv, VendorInv, GoesTo
    <3> QED
      BY <3>1, <1>6 DEF SheetHolds, Lined
  <2> QED
    BY <2>1, <2>2
<1>8. VendorInv'
  BY <1>2, <1>6, <1>7 DEF InboundInv, VendorInv, Lined
<1> QED
  BY <1>3, <1>5, <1>8 DEF InboundInv

LEMMA FindStep ==
    ASSUME LinesAndPoints, InboundInv, NEW s \in Loops, Connector!FindVendor(s)
    PROVE  InboundInv'
<1>1. PICK l \in loop[s].todo :
          LET rest == loop[s].todo \ {l} IN
          IF Connector!NamedBy(l.name) # {}
          THEN /\ \E v \in Connector!NamedBy(l.name) : vendor' = [vendor EXCEPT ![v].terms = l.terms]
               /\ Connector!Goto(s, [op |-> "find", todo |-> rest])
               /\ UNCHANGED unfound
          ELSE /\ Connector!Goto(s, [op |-> "create", todo |-> rest, line |-> l])
               /\ unfound' = unfound \cup {l.name : r \in {q \in Loops :
                                 loop[q].op = "create" /\ loop[q].line.name = l.name}}
               /\ UNCHANGED vendor
  BY DEF Connector!FindVendor
<1>2. UNCHANGED <<incidents, posts, answered>> /\ loop[s].op = "find"
  BY DEF Connector!FindVendor
<1>3. /\ l \in Lined /\ loop[s].todo \subseteq Lined
      /\ \A k \in Lined \ loop[s].todo : Connector!NamedBy(k.name) # {}
  BY <1>2 DEF InboundInv, VendorInv, SheetHolds
<1>4. CASE Connector!NamedBy(l.name) # {}
  <2>1. PICK v \in Connector!NamedBy(l.name) : vendor' = [vendor EXCEPT ![v].terms = l.terms]
    BY <1>1, <1>4
  <2>2. PICK next : next = [op |-> "find", todo |-> loop[s].todo \ {l}]
    OBVIOUS
  <2>3. DOMAIN loop' = Loops /\ GoesTo(s, next) /\ unfound' = unfound
    BY <1>1, <1>4, <2>2, Going DEF InboundInv
  <2>4. next.op = "find" /\ next.todo = loop[s].todo \ {l}
    BY <2>2
  <2>5. /\ vendor' = [x \in Vendors |-> [name |-> vendor'[x].name, terms |-> vendor'[x].terms]]
        /\ \A x \in Vendors : vendor'[x].name = vendor[x].name
    BY <2>1 DEF InboundInv, VendorInv, Connector!NamedBy
  <2>6. \A n : Connector!NamedBy(n)' = Connector!NamedBy(n) /\ Creating(n)' \subseteq Creating(n)
    BY <2>3, <2>4, <2>5 DEF Connector!NamedBy, Creating, GoesTo
  <2>7. ASSUME NEW r \in Loops PROVE SheetHolds(r)'
    <3>1. CASE r = s
      <4>1. /\ next.todo \subseteq Lined
            /\ \A k \in Lined \ next.todo : Connector!NamedBy(k.name) # {}
        BY <1>3, <1>4, <2>4
      <4>2. loop'[r] = next
        BY <3>1, <2>3 DEF GoesTo
      <4> QED
        BY <4>1, <4>2, <2>4, <2>6 DEF SheetHolds, Lined
    <3>2. CASE r # s
      <4>1. SheetHolds(r) /\ loop'[r] = loop[r]
        BY <3>2, <2>3 DEF InboundInv, VendorInv, GoesTo
      <4> QED
        BY <4>1, <2>6 DEF SheetHolds, Lined
    <3> QED
      BY <3>1, <3>2
  <2>8. VendorInv'
    BY <1>2, <2>3, <2>5, <2>6, <2>7 DEF InboundInv, VendorInv, Lined
  <2>9. BridgeInv'
    BY <1>2, <2>3, <2>4, BridgeFrame DEF InboundInv
  <2> QED
    BY <2>3, <2>8, <2>9 DEF InboundInv
<1>5. CASE Connector!NamedBy(l.name) = {}
  <2>2. PICK next : next = [op |-> "create", todo |-> loop[s].todo \ {l}, line |-> l]
    OBVIOUS
  <2>3. /\ DOMAIN loop' = Loops /\ GoesTo(s, next) /\ vendor' = vendor
        /\ unfound' = unfound \cup {l.name : r \in Creating(l.name)}
    BY <1>1, <1>5, <2>2, Going DEF InboundInv, Creating
  <2>4. next.op = "create" /\ next.todo = loop[s].todo \ {l} /\ next.line = l
    BY <2>2
  <2>5. \A n : Connector!NamedBy(n)' = Connector!NamedBy(n)
    BY <2>3 DEF Connector!NamedBy
  <2>6. \A n : Creating(n)' \subseteq Creating(n) \cup {x \in {s} : n = l.name}
    BY <2>3, <2>4 DEF Creating, GoesTo
  <2>7. ASSUME NEW r \in Loops PROVE SheetHolds(r)'
    <3>1. CASE r = s
      <4>1. /\ next.todo \subseteq Lined /\ next.line \in Lined
            /\ \A k \in Lined \ (next.todo \cup {next.line}) : Connector!NamedBy(k.name) # {}
        BY <1>3, <2>4
      <4>2. loop'[r] = next
        BY <3>1, <2>3 DEF GoesTo
      <4> QED
        BY <4>1, <4>2, <2>4, <2>5 DEF SheetHolds, Lined
    <3>2. CASE r # s
      <4>1. SheetHolds(r) /\ loop'[r] = loop[r]
        BY <3>2, <2>3 DEF InboundInv, VendorInv, GoesTo
      <4> QED
        BY <4>1, <2>5 DEF SheetHolds, Lined
    <3> QED
      BY <3>1, <3>2
  <2>8. ASSUME NEW n \in Names \ unfound'
        PROVE  /\ \A v, w \in Connector!NamedBy(n) : v = w
               /\ \A x \in Creating(n)' : Connector!NamedBy(n) = {} /\ \A r \in Creating(n)' : r = x
    <3>1. n \in Names \ unfound /\ (n = l.name => Creating(l.name) = {})
      BY <2>3
    <3> QED
      BY <1>5, <2>6, <3>1 DEF InboundInv, VendorInv
  <2>9. VendorInv'
    BY <1>2, <2>3, <2>5, <2>7, <2>8 DEF InboundInv, VendorInv, Lined
  <2>10. BridgeInv'
    BY <1>2, <2>3, <2>4, BridgeFrame DEF InboundInv
  <2> QED
    BY <2>3, <2>9, <2>10 DEF InboundInv
<1> QED
  BY <1>4, <1>5

LEMMA CreateVendorStep ==
    ASSUME LinesAndPoints, InboundInv, NEW s \in Loops, Connector!CreateVendor(s)
    PROVE  InboundInv'
<1>1. PICK v \in Vendors : vendor[v] = Connector!NoVendor /\ vendor' = [vendor EXCEPT ![v] = loop[s].line]
  BY DEF Connector!CreateVendor
<1>2. PICK next, l : next = [op |-> "find", todo |-> loop[s].todo] /\ l = loop[s].line
  OBVIOUS
<1>3. DOMAIN loop' = Loops /\ GoesTo(s, next)
  BY <1>2, Going DEF InboundInv, Connector!CreateVendor
<1>4. UNCHANGED <<incidents, posts, answered, unfound>> /\ loop[s].op = "create"
  BY DEF Connector!CreateVendor
<1>5. next.op = "find" /\ next.todo = loop[s].todo
  BY <1>2
<1>6. /\ l \in Lined /\ l.name # "none" /\ l = [name |-> l.name, terms |-> l.terms]
      /\ loop[s].todo \subseteq Lined
      /\ \A k \in Lined \ (loop[s].todo \cup {l}) : Connector!NamedBy(k.name) # {}
  <2>1. /\ l \in Lined /\ loop[s].todo \subseteq Lined
        /\ \A k \in Lined \ (loop[s].todo \cup {l}) : Connector!NamedBy(k.name) # {}
    BY <1>2, <1>4 DEF InboundInv, VendorInv, SheetHolds
  <2> QED
    BY <2>1 DEF Lined, Connector!DecodeVendors, LinesAndPoints
<1>7. /\ vendor'[v] = l /\ vendor[v].name = "none"
      /\ \A x \in Vendors \ {v} : vendor'[x] = vendor[x]
      /\ vendor' = [x \in Vendors |-> [name |-> vendor'[x].name, terms |-> vendor'[x].terms]]
  BY <1>1, <1>2, <1>6 DEF InboundInv, VendorInv, Connector!NoVendor
<1>8. ASSUME NEW n, n # "none"
      PROVE  Connector!NamedBy(n)' = Connector!NamedBy(n) \cup {x \in {v} : l.name = n}
  BY <1>7, <1>8 DEF Connector!NamedBy
<1>9. \A n : Creating(n)' = Creating(n) \ {s}
  BY <1>3, <1>5 DEF Creating, GoesTo
<1>10. ASSUME NEW k \in Lined, Connector!NamedBy(k.name) # {} PROVE Connector!NamedBy(k.name)' # {}
  <2>1. k.name # "none"
    BY DEF Lined, Connector!DecodeVendors
  <2> QED
    BY <1>8, <1>10, <2>1
<1>11. Connector!NamedBy(l.name)' # {}
  BY <1>6, <1>8
<1>12. ASSUME NEW r \in Loops PROVE SheetHolds(r)'
  <2>1. CASE r = s
    <3>1. \A k \in Lined \ next.todo : Connector!NamedBy(k.name)' # {}
      BY <1>5, <1>6, <1>10, <1>11
    <3> QED
      BY <2>1, <3>1, <1>3, <1>5, <1>6 DEF SheetHolds, GoesTo, Lined
  <2>2. CASE r # s
    <3>1. SheetHolds(r) /\ loop'[r] = loop[r]
      BY <2>2, <1>3 DEF InboundInv, VendorInv, GoesTo
    <3> QED
      BY <3>1, <1>10 DEF SheetHolds, Lined
  <2> QED
    BY <2>1, <2>2
<1>13. ASSUME NEW n \in Names \ unfound
       PROVE  /\ \A x, w \in Connector!NamedBy(n)' : x = w
              /\ \A x \in Creating(n)' : Connector!NamedBy(n)' = {} /\ \A r \in Creating(n)' : r = x
  <2>1. n # "none"
    BY DEF LinesAndPoints
  <2>2. /\ \A x, w \in Connector!NamedBy(n) : x = w
        /\ \A x \in Creating(n) : Connector!NamedBy(n) = {} /\ \A r \in Creating(n) : r = x
    BY DEF InboundInv, VendorInv
  <2>3. CASE l.name = n
    <3>1. s \in Creating(n)
      BY <2>3, <1>2, <1>4 DEF Creating
    <3>2. Connector!NamedBy(n)' = {v} /\ Creating(n)' = {}
      BY <2>1, <2>2, <2>3, <3>1, <1>8, <1>9
    <3> QED
      BY <3>2
  <2>4. CASE l.name # n
    <3>1. Connector!NamedBy(n)' = Connector!NamedBy(n)
      BY <2>1, <2>4, <1>8
    <3> QED
      BY <2>2, <3>1, <1>9
  <2> QED
    BY <2>3, <2>4
<1>14. VendorInv'
  <2>1. "sheet" \in answered => \A k \in Lined : Connector!NamedBy(k.name)' # {}
    BY <1>10 DEF InboundInv, VendorInv
  <2> QED
    BY <1>4, <1>7, <1>12, <1>13, <2>1 DEF VendorInv, Lined
<1>15. BridgeInv'
  BY <1>3, <1>4, <1>5, BridgeFrame DEF InboundInv
<1> QED
  BY <1>3, <1>14, <1>15 DEF InboundInv

LEMMA IngestStep ==
    ASSUME LinesAndPoints, InboundInv, NEW s \in Loops, Connector!IngestBridge(s)
    PROVE  InboundInv'
<1>1. PICK next : next = [op |-> "points", todo |-> Alarms]
  OBVIOUS
<1>2. /\ Connector!Goto(s, next) /\ posts' = posts + 1 /\ loop[s].op = "idle"
      /\ UNCHANGED <<vendor, incidents, answered, unfound>>
  BY <1>1 DEF Connector!IngestBridge, Alarms
<1>3. DOMAIN loop' = Loops /\ GoesTo(s, next)
  BY <1>2, Going DEF InboundInv
<1>4. next.op = "points" /\ next.todo = Alarms
  BY <1>1
<1>5. VendorInv'
  BY <1>2, <1>3, <1>4, VendorFrame DEF InboundInv
<1>6. ASSUME NEW r \in Connector!Refs PROVE incidents[r] + Cardinality(Awaiting(r)') <= posts'
  <2>1. Awaiting(r)' \subseteq Awaiting(r) \cup {s} /\ s \notin Awaiting(r)
    BY <1>2, <1>3 DEF Awaiting, GoesTo
  <2>2. IsFiniteSet(Awaiting(r))
    BY FS_Subset DEF Awaiting, LinesAndPoints
  <2>3. IsFiniteSet(Awaiting(r) \cup {s}) /\ Cardinality(Awaiting(r) \cup {s}) = Cardinality(Awaiting(r)) + 1
    BY <2>1, <2>2, FS_AddElement
  <2>4. Cardinality(Awaiting(r)') <= Cardinality(Awaiting(r) \cup {s}) /\ Cardinality(Awaiting(r)') \in Nat
    BY <2>1, <2>3, FS_Subset, FS_CardinalityType
  <2>5. Cardinality(Awaiting(r)) \in Nat /\ incidents[r] \in Nat /\ posts \in Nat
    BY <2>2, FS_CardinalityType DEF InboundInv, BridgeInv
  <2> QED
    BY <1>2, <2>3, <2>4, <2>5 DEF InboundInv, BridgeInv
<1>7. \A r \in Loops : loop'[r].op = "points" =>
          loop'[r].todo \subseteq Alarms /\ \A x \in Alarms \ loop'[r].todo : incidents[x] > 0
  BY <1>3, <1>4 DEF InboundInv, BridgeInv, GoesTo
<1>8. BridgeInv'
  BY <1>2, <1>6, <1>7 DEF InboundInv, BridgeInv, Alarms
<1> QED
  BY <1>3, <1>5, <1>8 DEF InboundInv

LEMMA OpenStep ==
    ASSUME LinesAndPoints, InboundInv, NEW s \in Loops, Connector!OpenIncident(s)
    PROVE  InboundInv'
<1>1. PICK x \in loop[s].todo : /\ incidents' = [incidents EXCEPT ![x] = @ + 1]
                                /\ Connector!Goto(s, [op |-> "points", todo |-> loop[s].todo \ {x}])
  BY DEF Connector!OpenIncident
<1>2. PICK next : next = [op |-> "points", todo |-> loop[s].todo \ {x}]
  OBVIOUS
<1>3. DOMAIN loop' = Loops /\ GoesTo(s, next)
  BY <1>1, <1>2, Going DEF InboundInv
<1>4. next.op = "points" /\ next.todo = loop[s].todo \ {x}
  BY <1>2
<1>5. loop[s].op = "points" /\ UNCHANGED <<vendor, posts, answered, unfound>>
  BY DEF Connector!OpenIncident
<1>6. VendorInv'
  BY <1>3, <1>4, <1>5, VendorFrame DEF InboundInv
<1>7. x \in Alarms /\ x \in Connector!Refs
  <2>1. x \in Alarms
    BY <1>5 DEF InboundInv, BridgeInv
  <2> QED
    BY <2>1 DEF Alarms, Connector!Refs, Connector!DecodeBridge
<1>8. /\ incidents' \in [Connector!Refs -> Nat] /\ incidents'[x] = incidents[x] + 1
      /\ \A r \in Connector!Refs \ {x} : incidents'[r] = incidents[r]
      /\ \A r \in Connector!Refs : incidents[r] \in Nat
  BY <1>1, <1>7 DEF InboundInv, BridgeInv
<1>9. ASSUME NEW r \in Connector!Refs PROVE incidents'[r] + Cardinality(Awaiting(r)') <= posts
  <2>1. Awaiting(r)' = IF r = x THEN Awaiting(r) \ {s} ELSE Awaiting(r)
    BY <1>1, <1>3, <1>4, <1>5 DEF Awaiting, GoesTo
  <2>2. IsFiniteSet(Awaiting(r)) /\ (r = x => s \in Awaiting(r))
    BY <1>1, <1>5, FS_Subset DEF Awaiting, LinesAndPoints
  <2>3. incidents[r] + Cardinality(Awaiting(r)) <= posts /\ incidents[r] \in Nat /\ posts \in Nat
    BY <1>8 DEF InboundInv, BridgeInv
  <2>4. CASE r = x
    <3>1. Cardinality(Awaiting(r)') = Cardinality(Awaiting(r)) - 1 /\ Cardinality(Awaiting(r)) \in Nat
      BY <2>1, <2>2, <2>4, FS_RemoveElement, FS_CardinalityType
    <3> QED
      BY <2>3, <2>4, <3>1, <1>8
  <2>5. CASE r # x
    BY <2>1, <2>3, <2>5, <1>8
  <2> QED
    BY <2>4, <2>5
<1>10. \A r \in Alarms : r \in Connector!Refs
  BY DEF Alarms, Connector!Refs, Connector!DecodeBridge
<1>11. \A r \in Alarms : incidents[r] > 0 => incidents'[r] > 0
  BY <1>8, <1>10
<1>12. ASSUME NEW r \in Loops, loop'[r].op = "points"
       PROVE  loop'[r].todo \subseteq Alarms /\ \A y \in Alarms \ loop'[r].todo : incidents'[y] > 0
  <2>1. CASE r = s
    <3>1. loop[s].todo \subseteq Alarms /\ \A y \in Alarms \ loop[s].todo : incidents[y] > 0
      BY <1>5 DEF InboundInv, BridgeInv
    <3>2. incidents'[x] > 0
      BY <1>7, <1>8
    <3> QED
      BY <2>1, <3>1, <3>2, <1>3, <1>4, <1>11 DEF GoesTo
  <2>2. CASE r # s
    <3>1. loop'[r] = loop[r]
      BY <2>2, <1>3 DEF GoesTo
    <3> QED
      BY <3>1, <1>11, <1>12 DEF InboundInv, BridgeInv
  <2> QED
    BY <2>1, <2>2
<1>13. BridgeInv'
  <2>1. \A r \in Connector!Refs : incidents'[r] > 0 => r \in Alarms
    BY <1>7, <1>8 DEF InboundInv, BridgeInv
  <2>2. "envelope" \in answered => \A r \in Alarms : incidents'[r] > 0
    BY <1>11 DEF InboundInv, BridgeInv
  <2> QED
    BY <1>5, <1>8, <1>9, <1>12, <2>1, <2>2 DEF InboundInv, BridgeInv, Alarms, Connector!Refs
<1> QED
  BY <1>3, <1>6, <1>13 DEF InboundInv

LEMMA ReturnStep ==
    ASSUME LinesAndPoints, InboundInv, NEW s \in Loops,
           Connector!AnswerImport(s) \/ Connector!AnswerBridge(s) \/ Connector!CutLoop(s)
    PROVE  InboundInv'
<1>1. PICK next : next = Connector!Out
  OBVIOUS
<1>2. next.op = "idle"
  BY <1>1 DEF Connector!Out
<1>3. Connector!Goto(s, next) /\ UNCHANGED <<vendor, incidents, posts, unfound>>
  BY <1>1 DEF Connector!AnswerImport, Connector!AnswerBridge, Connector!CutLoop
<1>4. DOMAIN loop' = Loops /\ GoesTo(s, next)
  BY <1>3, Going DEF InboundInv
<1>5. "sheet" \in answered' => "sheet" \in answered \/ (loop[s].op = "find" /\ loop[s].todo = {})
  BY DEF Connector!AnswerImport, Connector!AnswerBridge, Connector!CutLoop
<1>6. "envelope" \in answered' => "envelope" \in answered \/ (loop[s].op = "points" /\ loop[s].todo = {})
  BY DEF Connector!AnswerImport, Connector!AnswerBridge, Connector!CutLoop
<1>7. VendorInv'
  BY <1>2, <1>3, <1>4, <1>5, VendorFrame DEF InboundInv
<1>8. BridgeInv'
  BY <1>2, <1>3, <1>4, <1>6, BridgeFrame DEF InboundInv
<1> QED
  BY <1>4, <1>7, <1>8 DEF InboundInv

LEMMA CardinalityOfConnectors == \A S : Connector!Cardinality(S) = Cardinality(S)
  BY DEF Connector!Cardinality, Cardinality

LEMMA InboundInductive ==
    ASSUME LinesAndPoints
    PROVE  /\ Connector!InboundInit => InboundInv
           /\ InboundInv /\ [Connector!Next]_(Connector!vars) => InboundInv'
           /\ InboundInv => Connector!InboundIsOnce
<1>1. ASSUME Connector!InboundInit PROVE InboundInv
  <2>1. /\ vendor = [v \in Vendors |-> [name |-> "none", terms |-> "none"]]
        /\ incidents = [r \in Connector!Refs |-> 0] /\ posts = 0 /\ answered = {} /\ unfound = {}
        /\ DOMAIN loop = Loops /\ \A s \in Loops : loop[s].op = "idle"
    BY <1>1 DEF Connector!InboundInit, Connector!NoVendor, Connector!Out
  <2>2. \A n \in Names : Connector!NamedBy(n) = {} /\ Creating(n) = {}
    BY <2>1 DEF Connector!NamedBy, Creating, LinesAndPoints
  <2>3. VendorInv
    BY <2>1, <2>2 DEF VendorInv, SheetHolds
  <2>4. \A r \in Connector!Refs : Awaiting(r) = {} /\ incidents[r] = 0
    BY <2>1 DEF Awaiting
  <2>5. BridgeInv
    <3>1. Cardinality({}) = 0
      BY FS_EmptySet
    <3>2. posts = 0 /\ incidents \in [Connector!Refs -> Nat]
      BY <2>1
    <3>3. \A r \in Connector!Refs : incidents[r] + Cardinality(Awaiting(r)) <= posts
      BY <2>4, <3>1, <3>2
    <3> QED
      BY <2>1, <2>4, <3>2, <3>3 DEF BridgeInv
  <2> QED
    BY <2>1, <2>3, <2>5 DEF InboundInv
<1>2. ASSUME InboundInv, [Connector!Next]_(Connector!vars) PROVE InboundInv'
  <2>1. CASE UNCHANGED Connector!inboundVars
    <3>1. UNCHANGED <<vendor, incidents, posts, answered, loop, unfound>>
      BY <2>1 DEF Connector!inboundVars
    <3>2. /\ \A n : Connector!NamedBy(n)' = Connector!NamedBy(n) /\ Creating(n)' = Creating(n) /\ Awaiting(n)' = Awaiting(n)
          /\ \A s \in Loops : SheetHolds(s)' = SheetHolds(s)
      BY <3>1 DEF Connector!NamedBy, Creating, Awaiting, SheetHolds, Lined
    <3> QED
      BY <1>2, <3>1, <3>2 DEF InboundInv, VendorInv, BridgeInv, Lined, Alarms
  <2>2. CASE Connector!InboundNext
    <3>1. PICK s \in Loops :
              \/ Connector!ImportVendors(s) \/ Connector!FindVendor(s) \/ Connector!CreateVendor(s)
              \/ Connector!IngestBridge(s) \/ Connector!OpenIncident(s)
              \/ Connector!AnswerImport(s) \/ Connector!AnswerBridge(s) \/ Connector!CutLoop(s)
      BY <2>2 DEF Connector!InboundNext
    <3> QED
      BY <1>2, <3>1, ImportStep, FindStep, CreateVendorStep, IngestStep, OpenStep, ReturnStep
  <2> QED
    BY <1>2, <2>1, <2>2 DEF Connector!Next, Connector!vars
<1>3. ASSUME InboundInv PROVE Connector!InboundIsOnce
  <2>1. ASSUME NEW n \in Names PROVE Cardinality(Connector!NamedBy(n)) <= 1 \/ n \in unfound
    <3>1. CASE n \in unfound
      BY <3>1
    <3>2. CASE n \notin unfound
      <4>1. \A v, w \in Connector!NamedBy(n) : v = w
        BY <1>3, <3>2 DEF InboundInv, VendorInv
      <4>2. CASE Connector!NamedBy(n) = {}
        <5>1. Cardinality({}) = 0
          BY FS_EmptySet
        <5> QED
          BY <4>2, <5>1
      <4>3. CASE Connector!NamedBy(n) # {}
        <5>1. PICK v \in Connector!NamedBy(n) : TRUE
          BY <4>3
        <5>2. Connector!NamedBy(n) = {v}
          BY <4>1, <5>1
        <5>3. Cardinality({v}) = 1
          BY FS_Singleton
        <5> QED
          BY <5>2, <5>3
      <4> QED
        BY <4>2, <4>3
    <3> QED
      BY <3>1, <3>2
  <2>2. "sheet" \in answered => \A l \in Sheet : l.name # "none" => Connector!NamedBy(l.name) # {}
    BY <1>3 DEF InboundInv, VendorInv, Lined, Connector!DecodeVendors
  <2>3. ASSUME NEW p \in Envelope
        PROVE  /\ incidents[p.ref] <= posts
               /\ incidents[p.ref] > 0 => Connector!IsIncident(p) /\ p \in Connector!DecodeBridge(Envelope)
               /\ "envelope" \in answered /\ Connector!IsIncident(p) /\ p \in Connector!DecodeBridge(Envelope)
                      => incidents[p.ref] > 0
    <3>1. p.ref \in Connector!Refs
      BY DEF Connector!Refs
    <3>2. IsFiniteSet(Awaiting(p.ref))
      BY FS_Subset DEF Awaiting, LinesAndPoints
    <3>3. incidents[p.ref] <= posts
      BY <1>3, <3>1, <3>2, FS_CardinalityType DEF InboundInv, BridgeInv
    <3>4. ASSUME p.ref \in Alarms PROVE Connector!IsIncident(p) /\ p \in Connector!DecodeBridge(Envelope)
      <4>1. PICK q \in Connector!DecodeBridge(Envelope) : Connector!IsIncident(q) /\ q.ref = p.ref
        BY <3>4 DEF Alarms
      <4>2. q \in Envelope /\ q.ref # "none"
        BY <4>1 DEF Connector!DecodeBridge
      <4>3. p = q
        BY <4>1, <4>2 DEF LinesAndPoints
      <4> QED
        BY <4>1, <4>3
    <3>5. incidents[p.ref] > 0 => p.ref \in Alarms
      BY <1>3, <3>1 DEF InboundInv, BridgeInv
    <3>6. "envelope" \in answered /\ Connector!IsIncident(p) /\ p \in Connector!DecodeBridge(Envelope)
              => incidents[p.ref] > 0
      BY <1>3 DEF InboundInv, BridgeInv, Alarms
    <3> QED
      BY <3>3, <3>4, <3>5, <3>6
  <2> QED
    BY <2>1, <2>2, <2>3, CardinalityOfConnectors DEF Connector!InboundIsOnce
<1> QED
  BY <1>1, <1>2, <1>3

\* connectors.service.ts:80-195: for any sheets, envelopes and calls, a name that no two calls looked up at
\* once has one vendor and a posted envelope the incident of each alarm, one for each time at most.
THEOREM InboundCorrect ==
    ASSUME LinesAndPoints
    PROVE  Connector!Spec => []Connector!InboundIsOnce
BY InboundInductive, PTL DEF Connector!Spec, Connector!Init
-----------------------------------------------------------------------------
(* Operations: the parts together *)

\* A step of the operations is one of the part in focus.
LEMMA OperationSteps ==
    ASSUME [MCNext]_mcVars
    PROVE  /\ focus' = focus
           /\ focus = "reactive" => [Intake!Next]_(Intake!vars)
           /\ focus = "mail" => [Intake!Next]_(Intake!vars)
           /\ focus = "duty" => [Duty!Next]_(Duty!vars)
           /\ focus = "fanout" => [Fan!Next]_(Fan!vars)
           /\ focus = "triggers" => [Connector!Next]_(Connector!vars)
           /\ focus = "inbound" => [Connector!Next]_(Connector!vars)
<1>1. CASE UNCHANGED mcVars
  BY <1>1 DEF mcVars, intakeVars, mailVars, dutyVars, roundVars, fanVars, triggerVars, inboundVars, exportVars,
         Intake!vars, Intake!caseVars, Intake!intakeVars, Intake!mailVars, Duty!vars, Duty!dutyVars,
         Duty!roundVars, Fan!vars, Connector!vars, Connector!triggerVars, Connector!inboundVars,
         Connector!exportVars
<1>2. CASE MCNext
  <2>1. focus' = focus
    BY <1>2 DEF MCNext
  <2>2. focus = "reactive" => Intake!Next
    <3>1. focus = "reactive" => Intake!CaseNext /\ UNCHANGED <<mailVars>>
      BY <1>2 DEF MCNext
    <3> QED
      BY <3>1 DEF mailVars, Intake!mailVars, Intake!Next
  <2>3. focus = "mail" => Intake!Next
    <3>1. focus = "mail" => Intake!MailNext /\ UNCHANGED <<intakeVars>>
      BY <1>2 DEF MCNext
    <3> QED
      BY <3>1 DEF intakeVars, Intake!caseVars, Intake!intakeVars, Intake!Next
  <2>4. focus = "duty" => Duty!Next
    <3>1. focus = "duty" => Duty!DutyNext /\ UNCHANGED <<roundVars>>
      BY <1>2 DEF MCNext
    <3> QED
      BY <3>1 DEF roundVars, Duty!roundVars, Duty!Next
  <2>5. focus = "fanout" => Fan!Next
    BY <1>2 DEF MCNext
  <2>6. focus = "triggers" => Connector!Next
    <3>1. focus = "triggers" => Connector!TriggerNext /\ UNCHANGED <<inboundVars, exportVars>>
      BY <1>2 DEF MCNext
    <3> QED
      BY <3>1 DEF inboundVars, exportVars, Connector!inboundVars, Connector!exportVars, Connector!Next
  <2>7. focus = "inbound" => Connector!Next
    <3>1. focus = "inbound" => Connector!InboundNext /\ UNCHANGED <<triggerVars, exportVars>>
      BY <1>2 DEF MCNext
    <3> QED
      BY <3>1 DEF triggerVars, exportVars, Connector!triggerVars, Connector!exportVars, Connector!Next
  <2> QED
    BY <2>1, <2>2, <2>3, <2>4, <2>5, <2>6, <2>7
<1> QED
  BY <1>1, <1>2

\* reactive.service.ts:272-292 and :530-603, in the operations: a case has the acknowledgement or the order
\* its status claims, a superseded quote its revision, for any rows and calls.
THEOREM OperationsEarned == MCSpec => []StatusIsEarned
<1> DEFINE Inv == focus = "reactive" => CaseInv
<1>a. QuotesAreNamed
  BY OperationsAssumption
<1>1. MCInit => Inv
  BY <1>a, CaseInductive DEF MCInit
<1>2. Inv /\ [MCNext]_mcVars => Inv'
  BY <1>a, CaseInductive, OperationSteps
<1>3. Inv => StatusIsEarned
  BY <1>a, CaseInductive DEF StatusIsEarned
<1> QED
  BY <1>1, <1>2, <1>3, PTL DEF MCSpec

\* assignment.service.ts:36-81, notifications.service.ts:56-142, in the operations: a floor has no more
\* primaries than calls that overlap, and a notification reaches those it is for and no others.
THEOREM OperationsRightPeople == MCSpec => []RightPeople
<1> DEFINE Inv ==
             /\ focus = "duty" => DutyInv
             /\ focus = "fanout" => FanInv
<1>a. WardensAreFew /\ AudienceIsNoMailbox
  BY OperationsAssumption
<1>1. MCInit => Inv
  BY <1>a, DutyInductive, FanInductive DEF MCInit
<1>2. Inv /\ [MCNext]_mcVars => Inv'
  BY <1>a, DutyInductive, FanInductive, OperationSteps
<1>3. Inv => RightPeople
  BY <1>a, DutyInductive, FanInductive DEF RightPeople
<1> QED
  BY <1>1, <1>2, <1>3, PTL DEF MCSpec

\* inbound-email.service.ts:53-154, condition-triggers.service.ts:118-172, connectors.service.ts:80-195, in
\* the operations: a mail, a reading, a sheet and an envelope that come again make no more work than
\* the calls that overlap or are cut account for.
THEOREM OperationsOneWork == MCSpec => []OneWorkPerSignal
<1> DEFINE Inv ==
             /\ focus = "mail" => MailInv
             /\ focus = "triggers" => TriggerInv
             /\ focus = "inbound" => InboundInv
<1>a. PostsAreFew /\ Cooldown \in Nat /\ LinesAndPoints
  BY OperationsAssumption
<1>1. MCInit => Inv
  BY <1>a, MailInductive, TriggerInductive, InboundInductive DEF MCInit
<1>2. Inv /\ [MCNext]_mcVars => Inv'
  BY <1>a, MailInductive, TriggerInductive, InboundInductive, OperationSteps
<1>3. Inv => OneWorkPerSignal
  BY <1>a, MailInductive, TriggerInductive, InboundInductive DEF OneWorkPerSignal
<1> QED
  BY <1>1, <1>2, <1>3, PTL DEF MCSpec
=============================================================================
