------------------------------ MODULE PpmTask ------------------------------
(***************************************************************************)
(* One PPM execution (a TaskInstance) from scheduling to archive, and the  *)
(* three places that move it: the lifecycle of PpmService, the field       *)
(* operations of TasksService, and the subscriber that closes the task     *)
(* when a vendor's completion is recorded.                                 *)
(*                                                                         *)
(* A call reads the task, checks, and then writes it by id; a quote also   *)
(* leaves an entry in the execution log, and a submission first creates an *)
(* approval request.  A slot is one server-side call at a time.            *)
(***************************************************************************)
EXTENDS Integers, Sequences

CONSTANTS
    Slots,       \* calls that can be in progress at the same time
    Users,       \* managers of the workspace
    Mode,        \* TaskInstance.executionMode
    MaxRequests, \* bound of the model: approval requests created
    MaxFaults    \* bound of the model: calls cut short by a throw or a crash

Modes == {"in_house", "contracted", "ad_hoc_approved"}

ASSUME TaskAssumption ==
    /\ Mode \in Modes
    /\ MaxRequests \in Nat
    /\ MaxFaults \in Nat
    /\ "vendor" \notin Users /\ "nobody" \notin Users

VARIABLES
    stage,       \* TaskInstance.lifecycleStage
    status,      \* TaskInstance.status
    executor,    \* TaskInstance.completedByUserId
    attached,    \* TaskInstance.approvalRequestId, 0 for none
    requests,    \* requests[i]: the approval request with id i
    quotedBy,    \* who made the oldest quote entry of the execution log
    call,        \* call[s]: what slot s is doing
    overtaken,   \* history: calls whose task another call has written since they read it
    torn,       \* history: an overtaken call wrote a column, and none has written all since
    faults

taskVars == <<stage, status, executor, attached>>
raceVars == <<overtaken, torn>>
vars == <<taskVars, requests, quotedBy, call, raceVars, faults>>

Stages == {"scheduled", "quote_requested", "quote_received", "awaiting_approval",
           "approved", "ordered", "in_progress", "completed", "evidence_distributed",
           "archived", "cancelled"}
FieldStages == {"started", "paused"}
Done == {"completed", "evidence_distributed", "archived"}

AdHoc == Mode = "ad_hoc_approved"

Idle == [op |-> "none", user |-> "nobody", at |-> "idle", request |-> 0]

Init ==
    /\ stage = "scheduled"
    /\ status = "open"
    /\ executor = "nobody"
    /\ attached = 0
    /\ requests = <<>>
    /\ quotedBy = "nobody"
    /\ call = [s \in Slots |-> Idle]
    /\ overtaken = {}
    /\ torn = FALSE
    /\ faults = 0
-----------------------------------------------------------------------------
(* PpmService.transition: `from`, `to` and the operation's own checks *)

Moves == {"requestQuote", "recordQuote", "markApproved", "placeOrder",
          "markInProgress", "distributeEvidence", "archive", "cancel"}

\* mutant: an archived task can still be cancelled
CancellableArchived == Stages \ {"completed", "cancelled"}

Cancellable == Stages \ {"completed", "archived", "cancelled"}

\* mutant: the order is placed without looking at the mode
OrderableAnyMode == {"approved", "scheduled"}

Orderable == IF AdHoc THEN {"approved"} ELSE {"scheduled"}

From(op) ==
    CASE op = "requestQuote" -> {"scheduled"}
      [] op = "recordQuote" -> {"quote_requested", "scheduled"}
      [] op = "markApproved" -> {"awaiting_approval"}
      [] op = "placeOrder" -> Orderable
      [] op = "markInProgress" -> IF AdHoc THEN {"ordered"} ELSE {"scheduled", "ordered"}
      [] op = "distributeEvidence" -> {"completed", "evidence_distributed"}
      [] op = "archive" -> {"completed", "evidence_distributed"}
      [] op = "cancel" -> Cancellable

To(op) ==
    CASE op = "requestQuote" -> "quote_requested"
      [] op = "recordQuote" -> "quote_received"
      [] op = "markApproved" -> "approved"
      [] op = "placeOrder" -> "ordered"
      [] op = "markInProgress" -> "in_progress"
      [] op = "distributeEvidence" -> "evidence_distributed"
      [] op = "archive" -> "archived"
      [] op = "cancel" -> "cancelled"

\* mutant: the ratification does not look at the request's status
RatifiableAnyhow(u) == attached # 0 /\ requests[attached].requester # u

\* markApproved: an approved request, made by somebody else, is attached.
Ratifiable(u) ==
    /\ attached # 0
    /\ requests[attached].approved
    /\ requests[attached].requester # u

Enter(s, op, u, where) ==
    /\ call[s].at = "idle"
    /\ call' = [call EXCEPT ![s] = [op |-> op, user |-> u, at |-> where, request |-> 0]]
    /\ overtaken' = overtaken \ {s}
    /\ UNCHANGED <<taskVars, requests, quotedBy, torn, faults>>

GoTo(s, where) == call' = [call EXCEPT ![s].at = where]
Return(s) == call' = [call EXCEPT ![s] = Idle]

\* The task is written by id, whatever has become of what s read of it: every other call in
\* progress is overtaken.  A write of both stage and status settles what an overtaken one left.
Overwrite(s, both) ==
    /\ overtaken' = {t \in Slots \ {s} : call[t].at # "idle"}
    /\ torn' = (s \in overtaken \/ (torn /\ ~both))

\* Only requestQuote and markApproved look at the mode.
Move(s, op, u) ==
    /\ op \in {"requestQuote", "markApproved"} => AdHoc
    /\ op # "markApproved" => stage \in From(op)
    /\ op = "markApproved" => Ratifiable(u)
    /\ Enter(s, op, u, IF op = "markApproved" THEN "check" ELSE "write")

\* markApproved has the task read a second time, by transition.
CheckAgain(s) ==
    /\ call[s].at = "check"
    /\ IF stage \in From(call[s].op) THEN GoTo(s, "write") ELSE Return(s)
    /\ UNCHANGED <<taskVars, requests, quotedBy, raceVars, faults>>

WriteMove(s) ==
    /\ call[s].at = "write" /\ call[s].op \in Moves
    /\ stage' = To(call[s].op)
    /\ status' = IF call[s].op = "cancel" THEN "cancelled" ELSE status
    /\ IF call[s].op \in {"requestQuote", "recordQuote"} THEN GoTo(s, "log") ELSE Return(s)
    /\ Overwrite(s, call[s].op = "cancel")
    /\ UNCHANGED <<executor, attached, requests, quotedBy, faults>>

LogQuote(s) ==
    /\ call[s].at = "log"
    /\ quotedBy' = IF quotedBy = "nobody" THEN call[s].user ELSE quotedBy
    /\ Return(s)
    /\ UNCHANGED <<taskVars, requests, raceVars, faults>>
-----------------------------------------------------------------------------
(* submitForApproval *)

Submit(s, u) ==
    /\ AdHoc
    /\ stage = "quote_received"
    /\ Len(requests) < MaxRequests
    /\ Enter(s, "submit", u, "sod")

\* The oldest quote entry decides who may not submit.
CheckSubmitter(s) ==
    /\ call[s].at = "sod"
    /\ IF quotedBy = call[s].user
         THEN Return(s) ELSE GoTo(s, "create")
    /\ UNCHANGED <<taskVars, requests, quotedBy, raceVars, faults>>

CreateRequest(s) ==
    /\ call[s].at = "create"
    /\ Len(requests) < MaxRequests
    /\ requests' = Append(requests, [requester |-> call[s].user, approved |-> FALSE])
    /\ call' = [call EXCEPT ![s].at = "attach", ![s].request = Len(requests) + 1]
    /\ UNCHANGED <<taskVars, quotedBy, raceVars, faults>>

Attach(s) ==
    /\ call[s].at = "attach"
    /\ stage' = "awaiting_approval"
    /\ attached' = call[s].request
    /\ Return(s)
    /\ Overwrite(s, FALSE)
    /\ UNCHANGED <<status, executor, requests, quotedBy, faults>>

\* ApprovalsService.approve on the last step of the chain (ApprovalChain).
ApproveRequest(i) ==
    /\ i \in 1 .. Len(requests)
    /\ ~requests[i].approved
    /\ requests' = [requests EXCEPT ![i].approved = TRUE]
    /\ UNCHANGED <<taskVars, quotedBy, call, raceVars, faults>>
-----------------------------------------------------------------------------
(* Completion, its review, and the operations of TasksService *)

\* recordCompletion asks for no approval, whatever the mode.
Complete(s, u) ==
    /\ stage \in {"in_progress", "ordered", "scheduled"}
    /\ Enter(s, "recordCompletion", u, "write")

FieldFrom(op) ==
    CASE op = "start" -> {"open", "paused"}
      [] op = "pause" -> {"in_progress"}
      [] op = "complete" -> {"open", "in_progress", "paused"}

Field(s, op, u) ==
    /\ status \in FieldFrom(op)
    /\ Enter(s, op, u, "write")

\* The subscriber of completion.recorded, for a vendor's completion.
VendorCloses(s) ==
    /\ status \notin {"completed", "cancelled"}
    /\ Enter(s, "vendor", "vendor", "write")

WriteCompletion(s) ==
    /\ call[s].at = "write" /\ call[s].op \in {"recordCompletion", "complete", "vendor"}
    /\ stage' = "completed"
    /\ status' = "completed"
    /\ executor' = call[s].user
    /\ Return(s)
    /\ Overwrite(s, TRUE)
    /\ UNCHANGED <<attached, requests, quotedBy, faults>>

WriteField(s) ==
    /\ call[s].at = "write" /\ call[s].op \in {"start", "pause"}
    /\ stage' = IF call[s].op = "start" THEN "started" ELSE "paused"
    /\ status' = IF call[s].op = "start" THEN "in_progress" ELSE "paused"
    /\ Return(s)
    /\ Overwrite(s, TRUE)
    /\ UNCHANGED <<executor, attached, requests, quotedBy, faults>>

\* reviewCompletion; an acceptance leaves the task as it is.
Reject(s, u) ==
    /\ stage = "completed"
    /\ executor # u
    /\ Enter(s, "reject", u, "write")

WriteReject(s) ==
    /\ call[s].at = "write" /\ call[s].op = "reject"
    /\ stage' = "in_progress"
    /\ status' = "open"
    /\ executor' = "nobody"
    /\ Return(s)
    /\ Overwrite(s, TRUE)
    /\ UNCHANGED <<attached, requests, quotedBy, faults>>

\* A statement of the call throws, or the process dies.
Stop(s) ==
    /\ call[s].at # "idle"
    /\ faults < MaxFaults
    /\ faults' = faults + 1
    /\ Return(s)
    /\ UNCHANGED <<taskVars, requests, quotedBy, raceVars>>

Start(s, u) ==
    \/ \E op \in Moves : Move(s, op, u)
    \/ \E op \in {"start", "pause", "complete"} : Field(s, op, u)
    \/ Submit(s, u)
    \/ Complete(s, u)
    \/ Reject(s, u)

Continue(s) ==
    \/ CheckAgain(s)
    \/ WriteMove(s)
    \/ LogQuote(s)
    \/ CheckSubmitter(s)
    \/ CreateRequest(s)
    \/ Attach(s)
    \/ WriteCompletion(s)
    \/ WriteField(s)
    \/ WriteReject(s)

Next ==
    \/ \E s \in Slots : (\E u \in Users : Start(s, u)) \/ VendorCloses(s) \/ Continue(s) \/ Stop(s)
    \/ \E i \in 1 .. MaxRequests : ApproveRequest(i)

Spec == Init /\ [][Next]_vars
-----------------------------------------------------------------------------
(* Properties *)

Calls ==
    [op : Moves \cup {"none", "submit", "recordCompletion", "start", "pause", "complete",
                      "vendor", "reject"},
     user : Users \cup {"nobody", "vendor"},
     at : {"idle", "check", "write", "log", "sod", "create", "attach"},
     request : 0 .. MaxRequests]

Requests == [requester : Users, approved : BOOLEAN]

TypeOK ==
    /\ stage \in Stages \cup FieldStages
    /\ status \in {"open", "in_progress", "paused", "completed", "cancelled"}
    /\ executor \in Users \cup {"nobody", "vendor"}
    /\ requests \in Seq(Requests)
    /\ attached \in 0 .. Len(requests)
    /\ quotedBy \in Users \cup {"nobody"}
    /\ call \in [Slots -> Calls]
    /\ overtaken \subseteq Slots
    /\ torn \in BOOLEAN
    /\ faults \in 0 .. MaxFaults

\* Ad-hoc work (ppm.service.ts:46) is approved or ordered only behind a request of its own that was
\* approved, however submissions, ratifications and field calls interleave.
SomeApproved == \E i \in 1 .. Len(requests) : requests[i].approved

OrderedMeansApproved == AdHoc /\ stage \in {"approved", "ordered"} => SomeApproved

\* It is the attached request that was approved (ppm.service.ts:758-831), even when a submission
\* failed half way and was made again, unless a call wrote the task that another had written
\* since it read it, and no call has written stage and status since.
AttachedIsApproved ==
    AdHoc /\ stage \in {"approved", "ordered"} /\ ~torn => attached # 0 /\ requests[attached].approved

\* An archived or cancelled task is taken up again by no call that began after it was over
\* (ppm.service.ts:1285-1310, tasks.service.ts:385-402): only by one that another overtook,
\* or on a row that such a one has left with a stage and a status that do not agree.
TerminalIsFinal ==
    [][(stage \in {"archived", "cancelled"} /\ ~torn /\ ~torn') => UNCHANGED <<stage, status>>]_vars
=============================================================================
