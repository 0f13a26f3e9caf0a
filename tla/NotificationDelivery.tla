----------------------- MODULE NotificationDelivery -----------------------
(***************************************************************************)
(* NotificationsService and its DeliveryDispatcher: the rows that          *)
(* createDelivery writes, the workers that claim, send and settle them.    *)
(*                                                                         *)
(* A delivery is its dedupKey, one recipient on one channel for one event. *)
(* Every awaited call of processPending is a step: it can throw, and the   *)
(* process can die between any two.                                        *)
(***************************************************************************)
EXTENDS Integers, FiniteSets

CONSTANTS
    Deliveries,   \* dedup keys of the deliveries the events call for
    Channel,      \* Channel[d]: "email", "inapp" or "push"
    Deliverable,  \* those with an address, a user id or a device, on a known channel
    Priority,     \* Priority[d], of the rule that asks for it: "low", "normal" or "high"
    Workers,      \* processes running a DeliveryDispatcher
    BatchSize,    \* NOTIFY_BATCH_SIZE
    MaxAttempts,  \* the row's maxAttempts
    MaxFaults     \* bound of the model: calls that throw, and crashes

ASSUME DeliveryAssumption ==
    /\ Channel \in [Deliveries -> {"email", "inapp", "push"}]
    /\ Deliverable \subseteq Deliveries
    /\ Priority \in [Deliveries -> {"low", "normal", "high"}]
    /\ BatchSize \in Nat \ {0}
    /\ MaxAttempts \in Nat \ {0}
    /\ MaxFaults \in Nat
    /\ "none" \notin Deliveries

VARIABLES
    status,    \* NotificationDelivery.status, "absent" when there is no row
    attempts,  \* NotificationDelivery.attempts
    due,       \* due[d]: scheduledAt has passed
    pc,        \* pc[w]: the call worker w is about to make
    batch,     \* batch[w]: rows fetched and not yet claimed or skipped
    seen,      \* seen[w][d]: attempts of d as w fetched it
    cur,       \* cur[w]: the row w has claimed
    retry,     \* retry[w]: third argument of the markFailed call w makes
    inCatch,   \* inCatch[w]: that call is made by processPending's catch
    copies,    \* history: messages the recipient got (mail accepted, inbox row)
    audited,   \* history: "sent" and "dead" audit entries written for d
    faults     \* history: calls that threw, and crashes

rowVars == <<status, attempts, due>>
workerVars == <<pc, batch, seen, cur, retry, inCatch>>
vars == <<rowVars, workerVars, copies, audited, faults>>

Settled == {"sent", "failed"}
Holding == {"deliver", "record", "auditSent", "mark", "auditDead"}

Due == {d \in Deliveries : status[d] = "pending" /\ due[d]}

\* priority is a text column, and its descending order is the text's.
TextOrder(d) == CASE Priority[d] = "high" -> 1
                  [] Priority[d] = "low" -> 2
                  [] Priority[d] = "normal" -> 3

\* S is what findMany may return: a prefix of that order, at most BatchSize.
IsBatch(S) ==
    /\ S \subseteq Due
    /\ Cardinality(S) = IF Cardinality(Due) < BatchSize THEN Cardinality(Due) ELSE BatchSize
    /\ \A d \in S, f \in Due \ S : TextOrder(d) >= TextOrder(f)

Init ==
    /\ status = [d \in Deliveries |-> "absent"]
    /\ attempts = [d \in Deliveries |-> 0]
    /\ due = [d \in Deliveries |-> FALSE]
    /\ pc = [w \in Workers |-> "idle"]
    /\ batch = [w \in Workers |-> {}]
    /\ seen = [w \in Workers |-> [d \in Deliveries |-> 0]]
    /\ cur = [w \in Workers |-> "none"]
    /\ retry = [w \in Workers |-> FALSE]
    /\ inCatch = [w \in Workers |-> FALSE]
    /\ copies = [d \in Deliveries |-> 0]
    /\ audited = [d \in Deliveries |-> {}]
    /\ faults = 0

\* w goes on to another call.
GoTo(w, where) == pc' = [pc EXCEPT ![w] = where]
-----------------------------------------------------------------------------
\* createDelivery: the unique dedupKey turns a replayed event into no change.
Create(d) ==
    /\ status[d] = "absent"
    /\ status' = [status EXCEPT ![d] = "pending"]
    /\ due' = [due EXCEPT ![d] = TRUE]
    /\ UNCHANGED <<attempts, workerVars, copies, audited, faults>>

BecomeDue(d) ==
    /\ status[d] = "pending"
    /\ ~due[d]
    /\ due' = [due EXCEPT ![d] = TRUE]
    /\ UNCHANGED <<status, attempts, workerVars, copies, audited, faults>>
-----------------------------------------------------------------------------
(* processPending *)

\* DeliveryDispatcher.tick with `busy` clear; an empty fetch changes nothing.
Fetch(w) ==
    /\ pc[w] = "idle"
    /\ Due # {}
    /\ \E S \in SUBSET Due : IsBatch(S) /\ batch' = [batch EXCEPT ![w] = S]
    /\ seen' = [seen EXCEPT ![w] = attempts]
    /\ GoTo(w, "rows")
    /\ UNCHANGED <<rowVars, cur, retry, inCatch, copies, audited, faults>>

First(S, d) == d \in S /\ \A f \in S : TextOrder(d) >= TextOrder(f)

\* mutant: the claim is an unconditional update
ClaimUnchecked(w) ==
    /\ pc[w] = "rows"
    /\ \E d \in batch[w] :
        /\ First(batch[w], d)
        /\ batch' = [batch EXCEPT ![w] = @ \ {d}]
        /\ status' = [status EXCEPT ![d] = "sending"]
        /\ cur' = [cur EXCEPT ![w] = d]
        /\ inCatch' = [inCatch EXCEPT ![w] = FALSE]
        /\ GoTo(w, "deliver")
    /\ UNCHANGED <<attempts, due, seen, retry, copies, audited, faults>>

\* updateMany where status = 'pending': the one write that arbitrates workers.
Claim(w) ==
    /\ pc[w] = "rows"
    /\ \E d \in batch[w] :
        /\ First(batch[w], d)
        /\ status[d] = "pending"
        /\ batch' = [batch EXCEPT ![w] = @ \ {d}]
        /\ status' = [status EXCEPT ![d] = "sending"]
        /\ cur' = [cur EXCEPT ![w] = d]
        /\ inCatch' = [inCatch EXCEPT ![w] = FALSE]
        /\ GoTo(w, "deliver")
    /\ UNCHANGED <<attempts, due, seen, retry, copies, audited, faults>>

SkipRaced(w) ==
    /\ pc[w] = "rows"
    /\ \E d \in batch[w] :
        /\ First(batch[w], d)
        /\ status[d] # "pending"
        /\ batch' = [batch EXCEPT ![w] = @ \ {d}]
    /\ UNCHANGED <<rowVars, pc, seen, cur, retry, inCatch, copies, audited, faults>>

EndBatch(w) ==
    /\ pc[w] = "rows"
    /\ batch[w] = {}
    /\ GoTo(w, "idle")
    /\ UNCHANGED <<rowVars, batch, seen, cur, retry, inCatch, copies, audited, faults>>

\* No address, no user id, no device or an unknown channel: no retry.
Reject(w) ==
    /\ pc[w] = "deliver"
    /\ cur[w] \notin Deliverable
    /\ retry' = [retry EXCEPT ![w] = FALSE]
    /\ GoTo(w, "mark")
    /\ UNCHANGED <<rowVars, batch, seen, cur, inCatch, copies, audited, faults>>

\* mailer.send returns ok, or the inbox row is created; push sends nothing yet.
Send(w) ==
    /\ pc[w] = "deliver"
    /\ cur[w] \in Deliverable
    /\ copies' = [copies EXCEPT ![cur[w]] = IF Channel[cur[w]] = "push" THEN @ ELSE @ + 1]
    /\ GoTo(w, "record")
    /\ UNCHANGED <<rowVars, batch, seen, cur, retry, inCatch, audited, faults>>

\* mutant: a refused mail is recorded like an accepted one
SendRefusedIgnored(w) ==
    /\ pc[w] = "deliver"
    /\ cur[w] \in Deliverable
    /\ Channel[cur[w]] = "email"
    /\ GoTo(w, "record")
    /\ UNCHANGED <<rowVars, batch, seen, cur, retry, inCatch, copies, audited, faults>>

SendRefused(w) ==
    /\ pc[w] = "deliver"
    /\ cur[w] \in Deliverable
    /\ Channel[cur[w]] = "email"
    /\ retry' = [retry EXCEPT ![w] = TRUE]
    /\ GoTo(w, "mark")
    /\ UNCHANGED <<rowVars, batch, seen, cur, inCatch, copies, audited, faults>>

\* attempts: { increment: 1 } counts from the row, not from what w fetched.
RecordSent(w) ==
    /\ pc[w] = "record"
    /\ status' = [status EXCEPT ![cur[w]] = "sent"]
    /\ attempts' = [attempts EXCEPT ![cur[w]] = @ + 1]
    /\ GoTo(w, IF Channel[cur[w]] = "email" THEN "auditSent" ELSE "rows")
    /\ UNCHANGED <<due, batch, seen, cur, retry, inCatch, copies, audited, faults>>

Audit(w, where, what) ==
    /\ pc[w] = where
    /\ audited' = [audited EXCEPT ![cur[w]] = @ \cup {what}]
    /\ GoTo(w, "rows")
    /\ UNCHANGED <<rowVars, batch, seen, cur, retry, inCatch, copies, faults>>

AuditSent(w) == Audit(w, "auditSent", "sent")
AuditDead(w) == Audit(w, "auditDead", "dead")
-----------------------------------------------------------------------------
(* markFailed: attempts counts from the row as w fetched it *)

\* mutant: a retried row forgets the attempts it has used
RescheduleForgets(w) ==
    /\ pc[w] = "mark"
    /\ retry[w] /\ seen[w][cur[w]] + 1 < MaxAttempts
    /\ status' = [status EXCEPT ![cur[w]] = "pending"]
    /\ due' = [due EXCEPT ![cur[w]] = FALSE]
    /\ GoTo(w, "rows")
    /\ UNCHANGED <<attempts, batch, seen, cur, retry, inCatch, copies, audited, faults>>

Reschedule(w) ==
    /\ pc[w] = "mark"
    /\ retry[w] /\ seen[w][cur[w]] + 1 < MaxAttempts
    /\ attempts' = [attempts EXCEPT ![cur[w]] = seen[w][cur[w]] + 1]
    /\ status' = [status EXCEPT ![cur[w]] = "pending"]
    /\ due' = [due EXCEPT ![cur[w]] = FALSE]
    /\ GoTo(w, "rows")
    /\ UNCHANGED <<batch, seen, cur, retry, inCatch, copies, audited, faults>>

DeadLetter(w) ==
    /\ pc[w] = "mark"
    /\ ~retry[w] \/ seen[w][cur[w]] + 1 >= MaxAttempts
    /\ attempts' = [attempts EXCEPT ![cur[w]] = seen[w][cur[w]] + 1]
    /\ status' = [status EXCEPT ![cur[w]] = "failed"]
    /\ GoTo(w, "auditDead")
    /\ UNCHANGED <<due, batch, seen, cur, retry, inCatch, copies, audited, faults>>
-----------------------------------------------------------------------------
(* Faults *)

Fault == faults < MaxFaults /\ faults' = faults + 1

\* A call made for the claimed row throws inside the try: the catch marks it.
ThrowInTry(w) ==
    /\ Fault
    /\ pc[w] \in Holding
    /\ ~inCatch[w]
    /\ inCatch' = [inCatch EXCEPT ![w] = TRUE]
    /\ retry' = [retry EXCEPT ![w] = TRUE]
    /\ GoTo(w, "mark")
    /\ UNCHANGED <<rowVars, batch, seen, cur, copies, audited>>

DropBatch(w, where) ==
    /\ Fault
    /\ batch' = [batch EXCEPT ![w] = {}]
    /\ GoTo(w, where)
    /\ UNCHANGED <<rowVars, seen, cur, retry, inCatch, copies, audited>>

\* mutant: `busy` stays set when the tick rejects
ThrowOutsideStaysBusy(w) ==
    /\ pc[w] = "rows" \/ (pc[w] \in Holding /\ inCatch[w])
    /\ DropBatch(w, "busy")

\* A call outside the try, or the catch's own markFailed, throws: the tick
\* rejects, `busy` is cleared, and the rest of the batch waits.
ThrowOutside(w) ==
    /\ pc[w] = "rows" \/ (pc[w] \in Holding /\ inCatch[w])
    /\ DropBatch(w, "idle")

Crash(w) == pc[w] # "down" /\ DropBatch(w, "down")

Restart(w) ==
    /\ pc[w] = "down"
    /\ GoTo(w, "idle")
    /\ UNCHANGED <<rowVars, batch, seen, cur, retry, inCatch, copies, audited, faults>>

Work(w) ==
    \/ Fetch(w)
    \/ Claim(w)
    \/ SkipRaced(w)
    \/ EndBatch(w)
    \/ Reject(w)
    \/ Send(w)
    \/ SendRefused(w)
    \/ RecordSent(w)
    \/ AuditSent(w)
    \/ AuditDead(w)
    \/ Reschedule(w)
    \/ DeadLetter(w)
    \/ Restart(w)

Next ==
    \/ \E d \in Deliveries : Create(d) \/ BecomeDue(d)
    \/ \E w \in Workers : Work(w) \/ ThrowInTry(w) \/ ThrowOutside(w) \/ Crash(w)

Spec == Init /\ [][Next]_vars

\* The poll timer and the clock go on; awaited calls come back.
Fairness ==
    /\ \A w \in Workers : WF_vars(Work(w))
    /\ \A d \in Deliveries : WF_vars(BecomeDue(d))

FairSpec == Spec /\ Fairness
-----------------------------------------------------------------------------
(* Properties *)

TypeOK ==
    /\ status \in [Deliveries -> {"absent", "pending", "sending"} \cup Settled]
    /\ attempts \in [Deliveries -> 0 .. MaxAttempts]
    /\ due \in [Deliveries -> BOOLEAN]
    /\ pc \in [Workers -> {"idle", "rows", "down"} \cup Holding]
    /\ batch \in [Workers -> SUBSET Deliveries]
    /\ seen \in [Workers -> [Deliveries -> 0 .. MaxAttempts]]
    /\ cur \in [Workers -> Deliveries \cup {"none"}]
    /\ retry \in [Workers -> BOOLEAN]
    /\ inCatch \in [Workers -> BOOLEAN]
    /\ copies \in [Deliveries -> Nat]
    /\ audited \in [Deliveries -> SUBSET {"sent", "dead"}]
    /\ faults \in 0 .. MaxFaults

\* No two workers ever hold one row, so no message is sent twice at once.
ExclusiveClaim ==
    \A v, w \in Workers :
        v # w /\ {pc[v], pc[w]} \subseteq Holding => cur[v] # cur[w]

\* A row is `sent` only if its recipient really got a message: a refused mail,
\* a throwing call or a stale worker never marks it.
SentMeansReceived ==
    \A d \in Deliveries :
        status[d] = "sent" /\ Channel[d] # "push" => copies[d] > 0

\* A row that can be delivered is dead-lettered only after maxAttempts tries.
DeadLetterIsExhausted ==
    \A d \in Deliveries :
        status[d] = "failed" /\ d \in Deliverable => attempts[d] >= MaxAttempts

\* With one worker a recipient gets at most maxAttempts copies, even when the
\* write that records a success, or its audit entry, keeps failing.
CopiesBound ==
    \A d \in Deliveries : copies[d] =< MaxAttempts

\* d is claimed by nobody: its worker died, or its catch's markFailed threw.
Lost(d) ==
    status[d] = "sending" /\ \A w \in Workers : pc[w] \in Holding => cur[w] # d

\* Losing its worker is the only way a delivery fails to settle: throwing
\* calls, crashes between rows and restarts all leave it to a later tick.
SettledUnlessLost ==
    \A d \in Deliveries :
        status[d] = "pending" ~> status[d] \in Settled \/ Lost(d)
=============================================================================
