------------------------------ MODULE Outbox ------------------------------
(***************************************************************************)
(* The cross-module event pipeline: OutboxService.publish on the producer  *)
(* side, OutboxDispatcher.tick on the consumer side, the OutboxEvent table *)
(* between them.                                                           *)
(*                                                                         *)
(* Every database call and every subscriber call of a tick is a step of    *)
(* its own, because the process awaits it: other requests publish, and the *)
(* process can die, between any two.  A subscriber is the position of its  *)
(* handler in the registry's list for the event's type.                    *)
(***************************************************************************)
EXTENDS Integers, FiniteSets

CONSTANTS
    Events,        \* the domain events that may be published
    HandlerCount,  \* HandlerCount[e]: handlers registered for e's type
    Processes,     \* server processes; the deployment the code is written for has one
    BatchSize,     \* OUTBOX_BATCH_SIZE
    MaxAttempts,   \* OUTBOX_MAX_ATTEMPTS
    MaxAborts      \* bound of the model: ticks cut short by a crash or a database error

ASSUME OutboxAssumption ==
    /\ HandlerCount \in [Events -> Nat]
    /\ BatchSize \in Nat \ {0}
    /\ MaxAttempts \in Nat \ {0}
    /\ MaxAborts \in Nat
    /\ "none" \notin Events

VARIABLES
    change,     \* change[e]: the producer's own write and its publish call
    status,     \* OutboxEvent.status, "unpublished" when there is no row
    attempts,   \* OutboxEvent.attempts
    createdAt,  \* OutboxEvent.createdAt, 0 when there is no row
    clock,      \* the database clock
    pc,         \* pc[p]: where process p's dispatcher is
    batch,      \* batch[p]: rows fetched by the tick and not yet finished
    seen,       \* seen[p][e]: attempts of e as the tick read it
    cur,        \* cur[p]: the row being dispatched
    next,       \* next[p]: the next handler to call for it
    allOk,      \* allOk[p]: dispatchAll's local of that name
    handled,    \* history: handlers that have completed for e without throwing
    calls,      \* history: calls[e]: dispatchAll passes begun on e
    aborts      \* history: ticks cut short

rowVars == <<status, attempts, createdAt>>
workerVars == <<pc, batch, seen, cur, next, allOk>>
vars == <<change, rowVars, clock, workerVars, handled, calls, aborts>>

Handlers(e) == 1 .. HandlerCount[e]
Settled == {"delivered", "failed"}
Pending == {e \in Events : status[e] = "pending"}

\* mutant: newest first
FetchNewest ==
    {e \in Pending :
        Cardinality({f \in Pending : createdAt[f] > createdAt[e]}) < BatchSize}

\* findMany({ status: 'pending' }, orderBy createdAt asc, take BATCH_SIZE)
FetchBatch ==
    {e \in Pending :
        Cardinality({f \in Pending : createdAt[f] < createdAt[e]}) < BatchSize}

Init ==
    /\ change = [e \in Events |-> "none"]
    /\ status = [e \in Events |-> "unpublished"]
    /\ attempts = [e \in Events |-> 0]
    /\ createdAt = [e \in Events |-> 0]
    /\ clock = 0
    /\ pc = [p \in Processes |-> "idle"]
    /\ batch = [p \in Processes |-> {}]
    /\ seen = [p \in Processes |-> [e \in Events |-> 0]]
    /\ cur = [p \in Processes |-> "none"]
    /\ next = [p \in Processes |-> 1]
    /\ allOk = [p \in Processes |-> TRUE]
    /\ handled = [e \in Events |-> {}]
    /\ calls = [e \in Events |-> 0]
    /\ aborts = 0
-----------------------------------------------------------------------------
(* Producers *)

\* The business write that the event announces; it is committed by itself.
Commit(e) ==
    /\ change[e] = "none"
    /\ change' = [change EXCEPT ![e] = "committed"]
    /\ UNCHANGED <<rowVars, clock, workerVars, handled, calls, aborts>>

\* outbox.publish(this.prisma, ...): a second, separate write.
Publish(e) ==
    /\ change[e] = "committed"
    /\ change' = [change EXCEPT ![e] = "published"]
    /\ status' = [status EXCEPT ![e] = "pending"]
    /\ attempts' = [attempts EXCEPT ![e] = 0]
    /\ createdAt' = [createdAt EXCEPT ![e] = clock + 1]
    /\ clock' = clock + 1
    /\ UNCHANGED <<workerVars, handled, calls, aborts>>

\* The producing request dies, or its publish call throws, after the write.
ProducerStops(e) ==
    /\ change[e] = "committed"
    /\ change' = [change EXCEPT ![e] = "abandoned"]
    /\ UNCHANGED <<rowVars, clock, workerVars, handled, calls, aborts>>
-----------------------------------------------------------------------------
(* OutboxDispatcher *)

\* tick(): `running` is set from here to EndTick or Abort, and a timer that
\* fires meanwhile returns at once.  An empty fetch changes nothing.
StartTick(p) ==
    /\ pc[p] = "idle"
    /\ Pending # {}
    /\ pc' = [pc EXCEPT ![p] = "rows"]
    /\ batch' = [batch EXCEPT ![p] = FetchBatch]
    /\ seen' = [seen EXCEPT ![p] = attempts]
    /\ UNCHANGED <<change, rowVars, clock, cur, next, allOk, handled, calls, aborts>>

\* The rows are visited in the order of the fetch, oldest first.
Oldest(S, e) == e \in S /\ \A f \in S : createdAt[e] =< createdAt[f]

NextRow(p) ==
    /\ pc[p] = "rows"
    /\ \E e \in batch[p] :
        /\ Oldest(batch[p], e)
        /\ cur' = [cur EXCEPT ![p] = e]
        /\ calls' = [calls EXCEPT ![e] = @ + 1]
        /\ pc' = [pc EXCEPT ![p] = IF HandlerCount[e] = 0 THEN "mark" ELSE "dispatch"]
    /\ next' = [next EXCEPT ![p] = 1]
    /\ allOk' = [allOk EXCEPT ![p] = TRUE]
    /\ UNCHANGED <<change, rowVars, clock, batch, seen, handled, aborts>>

\* mutant: dispatchAll returns after the first handler
AdvanceToMark(p) ==
    /\ next' = [next EXCEPT ![p] = @ + 1]
    /\ pc' = [pc EXCEPT ![p] = "mark"]

\* dispatchAll moves to the next handler whatever the last one did.
Advance(p) ==
    /\ next' = [next EXCEPT ![p] = @ + 1]
    /\ pc' = [pc EXCEPT ![p] = IF next[p] = HandlerCount[cur[p]] THEN "mark" ELSE @]

HandlerReturns(p) ==
    /\ pc[p] = "dispatch"
    /\ handled' = [handled EXCEPT ![cur[p]] = @ \cup {next[p]}]
    /\ Advance(p)
    /\ UNCHANGED <<change, rowVars, clock, batch, seen, cur, allOk, calls, aborts>>

HandlerThrows(p) ==
    /\ pc[p] = "dispatch"
    /\ allOk' = [allOk EXCEPT ![p] = FALSE]
    /\ Advance(p)
    /\ UNCHANGED <<change, rowVars, clock, batch, seen, cur, handled, calls, aborts>>

\* The end of one iteration of tick's loop.
FinishRow(p) ==
    /\ pc' = [pc EXCEPT ![p] = "rows"]
    /\ batch' = [batch EXCEPT ![p] = @ \ {cur[p]}]
    /\ UNCHANGED <<seen, cur, next, allOk>>

MarkDelivered(p) ==
    /\ pc[p] = "mark"
    /\ allOk[p]
    /\ status' = [status EXCEPT ![cur[p]] = "delivered"]
    /\ FinishRow(p)
    /\ UNCHANGED <<change, attempts, createdAt, clock, handled, calls, aborts>>

\* mutant: the ceiling is compared with the attempts before this one
MarkRetryOffByOne(p) ==
    /\ pc[p] = "mark"
    /\ ~allOk[p]
    /\ attempts' = [attempts EXCEPT ![cur[p]] = seen[p][cur[p]] + 1]
    /\ status' = [status EXCEPT ![cur[p]] =
                    IF seen[p][cur[p]] >= MaxAttempts THEN "failed" ELSE @]
    /\ FinishRow(p)
    /\ UNCHANGED <<change, createdAt, clock, handled, calls, aborts>>

\* `attempts` is computed from the row as the tick read it.
MarkRetryOrFailed(p) ==
    /\ pc[p] = "mark"
    /\ ~allOk[p]
    /\ attempts' = [attempts EXCEPT ![cur[p]] = seen[p][cur[p]] + 1]
    /\ status' = [status EXCEPT ![cur[p]] =
                    IF seen[p][cur[p]] + 1 >= MaxAttempts THEN "failed" ELSE @]
    /\ FinishRow(p)
    /\ UNCHANGED <<change, createdAt, clock, handled, calls, aborts>>

EndTick(p) ==
    /\ pc[p] = "rows"
    /\ batch[p] = {}
    /\ pc' = [pc EXCEPT ![p] = "idle"]
    /\ UNCHANGED <<change, rowVars, clock, batch, seen, cur, next, allOk, handled, calls, aborts>>

\* The tick's locals go with it; the rows keep what was written.
DropTick(p, where) ==
    /\ aborts < MaxAborts
    /\ aborts' = aborts + 1
    /\ pc' = [pc EXCEPT ![p] = where]
    /\ batch' = [batch EXCEPT ![p] = {}]
    /\ UNCHANGED <<change, rowVars, clock, seen, cur, next, allOk, handled, calls>>

\* mutant: no `finally`, so `running` stays set
MarkThrowsKeepsRunning(p) == pc[p] = "mark" /\ DropTick(p, "running")

\* markDelivered or markRetryOrFailed throws: tick rejects, `finally` clears
\* `running`, and the rest of the batch waits for a later tick.
MarkThrows(p) == pc[p] = "mark" /\ DropTick(p, "idle")

Crash(p) == pc[p] # "down" /\ DropTick(p, "down")

Restart(p) ==
    /\ pc[p] = "down"
    /\ pc' = [pc EXCEPT ![p] = "idle"]
    /\ UNCHANGED <<change, rowVars, clock, batch, seen, cur, next, allOk, handled, calls, aborts>>

\* A step of the tick that the process takes by itself.
Work(p) ==
    \/ StartTick(p)
    \/ NextRow(p)
    \/ HandlerReturns(p)
    \/ HandlerThrows(p)
    \/ MarkDelivered(p)
    \/ MarkRetryOrFailed(p)
    \/ EndTick(p)
    \/ Restart(p)

Produce(e) == Commit(e) \/ Publish(e) \/ ProducerStops(e)

Next ==
    \/ \E e \in Events : Produce(e)
    \/ \E p \in Processes : Work(p) \/ MarkThrows(p) \/ Crash(p)

Spec == Init /\ [][Next]_vars

\* The timer keeps firing and awaited calls come back; nothing is assumed of
\* the producers, of the handlers' outcomes or of the aborts.
Fairness == \A p \in Processes : WF_vars(Work(p))

FairSpec == Spec /\ Fairness
-----------------------------------------------------------------------------
TypeOK ==
    /\ change \in [Events -> {"none", "committed", "published", "abandoned"}]
    /\ status \in [Events -> {"unpublished", "pending"} \cup Settled]
    /\ attempts \in [Events -> 0 .. MaxAttempts]
    /\ createdAt \in [Events -> Nat]
    /\ clock \in Nat
    /\ pc \in [Processes -> {"idle", "rows", "dispatch", "mark", "down"}]
    /\ batch \in [Processes -> SUBSET Events]
    /\ seen \in [Processes -> [Events -> 0 .. MaxAttempts]]
    /\ cur \in [Processes -> Events \cup {"none"}]
    /\ next \in [Processes -> Nat]
    /\ allOk \in [Processes -> BOOLEAN]
    /\ handled \in [Events -> SUBSET Nat]
    /\ calls \in [Events -> Nat]
    /\ aborts \in 0 .. MaxAborts
-----------------------------------------------------------------------------
(* Properties *)

\* A row is marked delivered only when every subscriber of its type has
\* completed for it: dispatchAll runs them all and one throw keeps the row.
DeliveredImpliesHandled ==
    \A e \in Events : status[e] = "delivered" => handled[e] = Handlers(e)

\* The dispatcher gives a row up only after MAX_ATTEMPTS whole passes over its
\* subscribers; a crash or a failed mark never uses an attempt up.
FailedOnlyAfterMaxAttempts ==
    \A e \in Events : status[e] = "failed" => calls[e] >= MaxAttempts

\* How often idempotent subscribers must bear a redelivery: MAX_ATTEMPTS
\* passes, and one more for each tick that a crash or a database error cut
\* short.  Rests on the single-flight `running` of a single process.
RedeliveryBound ==
    \A e \in Events : calls[e] =< MaxAttempts + aborts

\* No event overtakes an older one on its first attempt: the fetch is oldest
\* first and takes a prefix, so a younger row cannot fill the batch.
FirstAttemptInOrder ==
    \A e, f \in Events :
        /\ 0 < createdAt[e]
        /\ createdAt[e] < createdAt[f]
        /\ calls[f] > 0
        => calls[e] > 0

\* A delivered or failed row is never written again: no tick still holds it.
SettledIsFinal ==
    [][\A e \in Events :
        status[e] \in Settled =>
            status'[e] = status[e] /\ attempts'[e] = attempts[e]]_vars

\* Every published event leaves the pending set, however its subscribers
\* behave: the attempts ceiling keeps a poison event from polling forever.
EventuallySettled ==
    \A e \in Events : status[e] = "pending" ~> status[e] \in Settled

\* outbox.service.ts:5-7, "Atomicity guarantees that the event row lands in
\* the DB iff the originating change committed", once the request is over.
PublishedIffCommitted ==
    \A e \in Events :
        change[e] # "committed" => (change[e] # "none" <=> status[e] # "unpublished")

\* The promise to publishers, with completions as a set.
Promise == INSTANCE EventDelivery WITH status <- status, handled <- handled
ImplementsPromise == Promise!Spec
=============================================================================
