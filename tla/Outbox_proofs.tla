--------------------------- MODULE Outbox_proofs ---------------------------
(***************************************************************************)
(* Proofs about Outbox, for any events, subscribers, bounds and, where it  *)
(* is not said otherwise, any number of processes.                         *)
(***************************************************************************)
EXTENDS Outbox, FiniteSetTheorems, TLAPS

Busy == {"dispatch", "mark"}

\* A row under way is in the batch, and the dispatcher has called a prefix of
\* its handlers.
CursorInv ==
    \A p \in Processes :
        pc[p] \in Busy =>
            /\ cur[p] \in batch[p]
            /\ pc[p] = "dispatch" => next[p] \in Handlers(cur[p])
            /\ pc[p] = "mark" => next[p] = HandlerCount[cur[p]] + 1

\* As long as allOk stands, every handler called so far has completed.
PrefixInv ==
    \A p \in Processes :
        pc[p] \in Busy /\ allOk[p] => 1 .. (next[p] - 1) \subseteq handled[cur[p]]

\* Rows in a batch were pending when fetched: they exist and had attempts left.
BatchInv ==
    \A p \in Processes : \A e \in batch[p] :
        /\ status[e] # "unpublished"
        /\ seen[p][e] < MaxAttempts

RowInv ==
    \A e \in Events :
        /\ status[e] = "pending" => attempts[e] < MaxAttempts
        /\ change[e] \in {"none", "committed"} => status[e] = "unpublished"
        /\ handled[e] \subseteq Handlers(e)
        /\ status[e] = "delivered" => Handlers(e) \subseteq handled[e]

IInv == TypeOK /\ CursorInv /\ PrefixInv /\ BatchInv /\ RowInv

LEMMA InitIInv == Init => IInv
  BY OutboxAssumption DEF Init, IInv, TypeOK, CursorInv, PrefixInv, BatchInv, RowInv,
     Busy, Handlers, Settled

LEMMA NextIInv == IInv /\ [Next]_vars => IInv'
  <1> SUFFICES ASSUME IInv, [Next]_vars PROVE IInv'
    OBVIOUS
  <1> USE OutboxAssumption DEF rowVars, workerVars, Settled, Busy, Handlers
  <1>1. ASSUME NEW e \in Events, Produce(e) PROVE IInv'
    <2> USE <1>1 DEF Produce, Commit, Publish, ProducerStops
    <2>1. TypeOK'
      <3>1. CASE Commit(e)
        BY <3>1 DEF IInv, TypeOK
      <3>2. CASE Publish(e)
        BY <3>2 DEF IInv, TypeOK
      <3>3. CASE ProducerStops(e)
        BY <3>3 DEF IInv, TypeOK
      <3> QED
        BY <3>1, <3>2, <3>3
    <2>2. CursorInv'
      BY DEF IInv, TypeOK, CursorInv
    <2>3. PrefixInv'
      BY DEF IInv, TypeOK, CursorInv, PrefixInv
    <2>4. BatchInv'
      BY DEF IInv, TypeOK, CursorInv, BatchInv, RowInv
    <2>5. RowInv'
      BY DEF IInv, TypeOK, CursorInv, PrefixInv, BatchInv, RowInv
    <2> QED
      BY <2>1, <2>2, <2>3, <2>4, <2>5 DEF IInv
  <1>2. ASSUME NEW p \in Processes, StartTick(p) PROVE IInv'
    <2> USE <1>2 DEF StartTick, FetchBatch, Pending
    <2>1. TypeOK'
      BY DEF IInv, TypeOK, CursorInv, BatchInv
    <2>2. CursorInv'
      BY DEF IInv, TypeOK, CursorInv
    <2>3. PrefixInv'
      BY DEF IInv, TypeOK, CursorInv, PrefixInv
    <2>4. BatchInv'
      BY DEF IInv, TypeOK, CursorInv, BatchInv, RowInv
    <2>5. RowInv'
      BY DEF IInv, TypeOK, CursorInv, PrefixInv, BatchInv, RowInv
    <2> QED
      BY <2>1, <2>2, <2>3, <2>4, <2>5 DEF IInv
  <1>3. ASSUME NEW p \in Processes, NextRow(p) PROVE IInv'
    <2> USE <1>3 DEF NextRow, Oldest
    <2>1. TypeOK'
      BY DEF IInv, TypeOK, CursorInv, BatchInv
    <2>2. CursorInv'
      BY DEF IInv, TypeOK, CursorInv
    <2>3. PrefixInv'
      BY DEF IInv, TypeOK, CursorInv, PrefixInv
    <2>4. BatchInv'
      BY DEF IInv, TypeOK, CursorInv, BatchInv, RowInv
    <2>5. RowInv'
      BY DEF IInv, TypeOK, CursorInv, PrefixInv, BatchInv, RowInv
    <2> QED
      BY <2>1, <2>2, <2>3, <2>4, <2>5 DEF IInv
  <1>4. ASSUME NEW p \in Processes, HandlerReturns(p) PROVE IInv'
    <2> USE <1>4 DEF HandlerReturns, Advance
    <2>1. TypeOK'
      BY DEF IInv, TypeOK, CursorInv, BatchInv
    <2>2. CursorInv'
      <3> SUFFICES ASSUME NEW q \in Processes, pc'[q] \in Busy
                   PROVE  /\ cur[q] \in batch[q]
                          /\ pc'[q] = "dispatch" => next'[q] \in Handlers(cur[q])
                          /\ pc'[q] = "mark" => next'[q] = HandlerCount[cur[q]] + 1
        BY DEF CursorInv
      <3>1. CASE q # p
        BY <3>1 DEF IInv, TypeOK, CursorInv
      <3>2. CASE q = p
        <4>1. /\ cur[p] \in Events
              /\ HandlerCount[cur[p]] \in Nat
              /\ next[p] \in Handlers(cur[p])
              /\ cur[p] \in batch[p]
          BY DEF IInv, TypeOK, CursorInv
        <4>2. next'[p] = next[p] + 1
          BY DEF IInv, TypeOK
        <4>3. pc'[p] = IF next[p] = HandlerCount[cur[p]] THEN "mark" ELSE "dispatch"
          BY DEF IInv, TypeOK
        <4>4. next[p] # HandlerCount[cur[p]] => next[p] + 1 \in Handlers(cur[p])
          BY <4>1
        <4> QED
          BY <3>2, <4>1, <4>2, <4>3, <4>4
      <3> QED
        BY <3>1, <3>2
    <2>3. PrefixInv'
      BY DEF IInv, TypeOK, CursorInv, PrefixInv
    <2>4. BatchInv'
      BY DEF IInv, TypeOK, CursorInv, BatchInv, RowInv
    <2>5. RowInv'
      BY DEF IInv, TypeOK, CursorInv, PrefixInv, BatchInv, RowInv
    <2> QED
      BY <2>1, <2>2, <2>3, <2>4, <2>5 DEF IInv
  <1>5. ASSUME NEW p \in Processes, HandlerThrows(p) PROVE IInv'
    <2> USE <1>5 DEF HandlerThrows, Advance
    <2>1. TypeOK'
      BY DEF IInv, TypeOK, CursorInv, BatchInv
    <2>2. CursorInv'
      <3> SUFFICES ASSUME NEW q \in Processes, pc'[q] \in Busy
                   PROVE  /\ cur[q] \in batch[q]
                          /\ pc'[q] = "dispatch" => next'[q] \in Handlers(cur[q])
                          /\ pc'[q] = "mark" => next'[q] = HandlerCount[cur[q]] + 1
        BY DEF CursorInv
      <3>1. CASE q # p
        BY <3>1 DEF IInv, TypeOK, CursorInv
      <3>2. CASE q = p
        <4>1. /\ cur[p] \in Events
              /\ HandlerCount[cur[p]] \in Nat
              /\ next[p] \in Handlers(cur[p])
              /\ cur[p] \in batch[p]
          BY DEF IInv, TypeOK, CursorInv
        <4>2. next'[p] = next[p] + 1
          BY DEF IInv, TypeOK
        <4>3. pc'[p] = IF next[p] = HandlerCount[cur[p]] THEN "mark" ELSE "dispatch"
          BY DEF IInv, TypeOK
        <4>4. next[p] # HandlerCount[cur[p]] => next[p] + 1 \in Handlers(cur[p])
          BY <4>1
        <4> QED
          BY <3>2, <4>1, <4>2, <4>3, <4>4
      <3> QED
        BY <3>1, <3>2
    <2>3. PrefixInv'
      BY DEF IInv, TypeOK, CursorInv, PrefixInv
    <2>4. BatchInv'
      BY DEF IInv, TypeOK, CursorInv, BatchInv, RowInv
    <2>5. RowInv'
      BY DEF IInv, TypeOK, CursorInv, PrefixInv, BatchInv, RowInv
    <2> QED
      BY <2>1, <2>2, <2>3, <2>4, <2>5 DEF IInv
  <1>6. ASSUME NEW p \in Processes, MarkDelivered(p) PROVE IInv'
    <2> USE <1>6 DEF MarkDelivered, FinishRow
    <2>1. TypeOK'
      BY DEF IInv, TypeOK, CursorInv, BatchInv
    <2>2. CursorInv'
      BY DEF IInv, TypeOK, CursorInv
    <2>3. PrefixInv'
      BY DEF IInv, TypeOK, CursorInv, PrefixInv
    <2>4. BatchInv'
      BY DEF IInv, TypeOK, CursorInv, BatchInv, RowInv
    <2>5. RowInv'
      BY DEF IInv, TypeOK, CursorInv, PrefixInv, BatchInv, RowInv
    <2> QED
      BY <2>1, <2>2, <2>3, <2>4, <2>5 DEF IInv
  <1>7. ASSUME NEW p \in Processes, MarkRetryOrFailed(p) PROVE IInv'
    <2> USE <1>7 DEF MarkRetryOrFailed, FinishRow
    <2>1. TypeOK'
      BY DEF IInv, TypeOK, CursorInv, BatchInv
    <2>2. CursorInv'
      BY DEF IInv, TypeOK, CursorInv
    <2>3. PrefixInv'
      BY DEF IInv, TypeOK, CursorInv, PrefixInv
    <2>4. BatchInv'
      BY DEF IInv, TypeOK, CursorInv, BatchInv, RowInv
    <2>5. RowInv'
      BY DEF IInv, TypeOK, CursorInv, PrefixInv, BatchInv, RowInv
    <2> QED
      BY <2>1, <2>2, <2>3, <2>4, <2>5 DEF IInv
  <1>8. ASSUME NEW p \in Processes, EndTick(p) \/ Restart(p) PROVE IInv'
    <2> USE <1>8 DEF EndTick, Restart
    <2>1. TypeOK'
      BY DEF IInv, TypeOK, CursorInv, BatchInv
    <2>2. CursorInv'
      BY DEF IInv, TypeOK, CursorInv
    <2>3. PrefixInv'
      BY DEF IInv, TypeOK, CursorInv, PrefixInv
    <2>4. BatchInv'
      BY DEF IInv, TypeOK, CursorInv, BatchInv, RowInv
    <2>5. RowInv'
      BY DEF IInv, TypeOK, CursorInv, PrefixInv, BatchInv, RowInv
    <2> QED
      BY <2>1, <2>2, <2>3, <2>4, <2>5 DEF IInv
  <1>9. ASSUME NEW p \in Processes, MarkThrows(p) \/ Crash(p) PROVE IInv'
    <2>0. PICK where \in {"idle", "down"} : DropTick(p, where)
      BY <1>9 DEF MarkThrows, Crash
    <2> USE <2>0 DEF DropTick
    <2>1. TypeOK'
      <3>1. aborts' \in 0 .. MaxAborts
        BY DEF IInv, TypeOK
      <3>2. pc' \in [Processes -> {"idle", "rows", "dispatch", "mark", "down"}]
        BY DEF IInv, TypeOK
      <3> QED
        BY <3>1, <3>2 DEF IInv, TypeOK
    <2>2. CursorInv'
      BY DEF IInv, TypeOK, CursorInv
    <2>3. PrefixInv'
      BY DEF IInv, TypeOK, CursorInv, PrefixInv
    <2>4. BatchInv'
      BY DEF IInv, TypeOK, CursorInv, BatchInv, RowInv
    <2>5. RowInv'
      BY DEF IInv, TypeOK, CursorInv, PrefixInv, BatchInv, RowInv
    <2> QED
      BY <2>1, <2>2, <2>3, <2>4, <2>5 DEF IInv
  <1>10. CASE UNCHANGED vars
    BY <1>10 DEF vars, IInv, TypeOK, CursorInv, PrefixInv, BatchInv, RowInv
  <1> QED
    BY <1>1, <1>2, <1>3, <1>4, <1>5, <1>6, <1>7, <1>8, <1>9, <1>10 DEF Next, Work

THEOREM IInvCorrect == Spec => []IInv
  BY InitIInv, NextIInv, PTL DEF Spec

\* Every reachable state is well typed; in particular no row's attempts pass
\* MAX_ATTEMPTS, however many processes mark it.
THEOREM TypeCorrect == Spec => []TypeOK
  <1>1. IInv => TypeOK
    BY DEF IInv
  <1> QED
    BY <1>1, IInvCorrect, PTL

\* A delivered row has been completed by every one of its subscribers, for any
\* number of processes polling the same table.
THEOREM DeliveryCorrect == Spec => []DeliveredImpliesHandled
  <1>1. IInv => DeliveredImpliesHandled
    BY DEF IInv, RowInv, DeliveredImpliesHandled
  <1> QED
    BY <1>1, IInvCorrect, PTL
-----------------------------------------------------------------------------
(* Attempts are backed by passes over the handlers *)

CallsInv ==
    /\ \A e \in Events :
        /\ attempts[e] =< calls[e]
        /\ status[e] = "failed" => calls[e] >= MaxAttempts
    /\ \A p \in Processes :
        /\ \A e \in batch[p] : seen[p][e] =< calls[e]
        /\ pc[p] \in Busy => seen[p][cur[p]] + 1 =< calls[cur[p]]

LEMMA NextCallsInv == IInv /\ CallsInv /\ [Next]_vars => CallsInv'
  <1> SUFFICES ASSUME IInv, CallsInv, [Next]_vars PROVE CallsInv'
    OBVIOUS
  <1> USE OutboxAssumption DEF rowVars, workerVars, Settled, Busy, IInv, TypeOK, CallsInv
  <1>1. ASSUME NEW e \in Events, Produce(e) PROVE CallsInv'
    BY <1>1 DEF Produce, Commit, Publish, ProducerStops
  <1>2. ASSUME NEW p \in Processes, StartTick(p) PROVE CallsInv'
    BY <1>2 DEF StartTick, FetchBatch, Pending
  <1>3. ASSUME NEW p \in Processes, NextRow(p) PROVE CallsInv'
    BY <1>3 DEF NextRow, Oldest
  <1>4. ASSUME NEW p \in Processes, HandlerReturns(p) \/ HandlerThrows(p) PROVE CallsInv'
    BY <1>4 DEF HandlerReturns, HandlerThrows, Advance
  <1>5. ASSUME NEW p \in Processes, MarkDelivered(p) PROVE CallsInv'
    BY <1>5 DEF MarkDelivered, FinishRow
  <1>6. ASSUME NEW p \in Processes, MarkRetryOrFailed(p) PROVE CallsInv'
    BY <1>6 DEF MarkRetryOrFailed, FinishRow, CursorInv
  <1>7. ASSUME NEW p \in Processes, EndTick(p) \/ Restart(p) PROVE CallsInv'
    BY <1>7 DEF EndTick, Restart
  <1>8. ASSUME NEW p \in Processes, MarkThrows(p) \/ Crash(p) PROVE CallsInv'
    <2>1. PICK where \in {"idle", "down"} : DropTick(p, where)
      BY <1>8 DEF MarkThrows, Crash
    <2> QED
      BY <2>1 DEF DropTick
  <1>9. CASE UNCHANGED vars
    BY <1>9 DEF vars
  <1> QED
    BY <1>1, <1>2, <1>3, <1>4, <1>5, <1>6, <1>7, <1>8, <1>9 DEF Next, Work

\* A row is given up only after MAX_ATTEMPTS passes over its subscribers, for
\* any number of processes: a lost update of `attempts` can only add passes.
THEOREM GiveUpCorrect == Spec => []FailedOnlyAfterMaxAttempts
  <1>1. Init => CallsInv
    BY OutboxAssumption DEF Init, CallsInv, Busy
  <1>2. CallsInv => FailedOnlyAfterMaxAttempts
    BY DEF CallsInv, FailedOnlyAfterMaxAttempts
  <1> QED
    BY <1>1, <1>2, IInvCorrect, NextCallsInv, PTL DEF Spec
-----------------------------------------------------------------------------
(* What a single process adds *)

SingleProcess == \A p, q \in Processes : p = q

\* No one else settles or retries a row while the tick holds it.
HeldInv ==
    \A p \in Processes : \A e \in batch[p] :
        status[e] = "pending" /\ seen[p][e] = attempts[e]

LEMMA NextHeldInv ==
  ASSUME SingleProcess
  PROVE  IInv /\ HeldInv /\ [Next]_vars => HeldInv'
  <1> SUFFICES ASSUME IInv, HeldInv, [Next]_vars PROVE HeldInv'
    OBVIOUS
  <1> USE OutboxAssumption, SingleProcess
      DEF rowVars, workerVars, Settled, Busy, IInv, TypeOK, HeldInv, SingleProcess
  <1>1. ASSUME NEW e \in Events, Produce(e) PROVE HeldInv'
    BY <1>1 DEF Produce, Commit, Publish, ProducerStops, BatchInv, RowInv
  <1>2. ASSUME NEW p \in Processes, StartTick(p) PROVE HeldInv'
    BY <1>2 DEF StartTick, FetchBatch, Pending
  <1>3. ASSUME NEW p \in Processes, NextRow(p) PROVE HeldInv'
    BY <1>3 DEF NextRow, Oldest
  <1>4. ASSUME NEW p \in Processes, HandlerReturns(p) \/ HandlerThrows(p) PROVE HeldInv'
    BY <1>4 DEF HandlerReturns, HandlerThrows, Advance
  <1>5. ASSUME NEW p \in Processes, MarkDelivered(p) PROVE HeldInv'
    BY <1>5 DEF MarkDelivered, FinishRow, CursorInv
  <1>6. ASSUME NEW p \in Processes, MarkRetryOrFailed(p) PROVE HeldInv'
    BY <1>6 DEF MarkRetryOrFailed, FinishRow, CursorInv
  <1>7. ASSUME NEW p \in Processes, EndTick(p) \/ Restart(p) PROVE HeldInv'
    BY <1>7 DEF EndTick, Restart
  <1>8. ASSUME NEW p \in Processes, MarkThrows(p) \/ Crash(p) PROVE HeldInv'
    <2>1. PICK where \in {"idle", "down"} : DropTick(p, where)
      BY <1>8 DEF MarkThrows, Crash
    <2> QED
      BY <2>1 DEF DropTick
  <1>9. CASE UNCHANGED vars
    BY <1>9 DEF vars
  <1> QED
    BY <1>1, <1>2, <1>3, <1>4, <1>5, <1>6, <1>7, <1>8, <1>9 DEF Next, Work

THEOREM HeldCorrect ==
  ASSUME SingleProcess
  PROVE  Spec => []HeldInv
  <1>1. Init => HeldInv
    BY DEF Init, HeldInv
  <1>2. IInv /\ HeldInv /\ [Next]_vars => HeldInv'
    BY NextHeldInv
  <1> QED
    BY <1>1, <1>2, IInvCorrect, PTL DEF Spec

\* With one process, a delivered or failed row is never written again.
THEOREM FinalityCorrect ==
  ASSUME SingleProcess
  PROVE  Spec => SettledIsFinal
  <1> DEFINE Final == \A e \in Events :
               status[e] \in Settled =>
                   status'[e] = status[e] /\ attempts'[e] = attempts[e]
  <1>1. IInv /\ HeldInv /\ [Next]_vars => [Final]_vars
    <2> SUFFICES ASSUME IInv, HeldInv, Next PROVE Final
      OBVIOUS
    <2> USE DEF rowVars, IInv, TypeOK, Settled
    <2>1. ASSUME NEW e \in Events, Produce(e) PROVE Final
      BY <2>1 DEF Produce, Commit, Publish, ProducerStops, RowInv
    <2>2. ASSUME NEW p \in Processes, MarkDelivered(p) \/ MarkRetryOrFailed(p) PROVE Final
      <3>1. status[cur[p]] = "pending"
        BY <2>2 DEF MarkDelivered, MarkRetryOrFailed, CursorInv, Busy, HeldInv
      <3> QED
        BY <2>2, <3>1 DEF MarkDelivered, MarkRetryOrFailed
    <2>3. ASSUME NEW p \in Processes,
                 \/ StartTick(p) \/ NextRow(p) \/ HandlerReturns(p) \/ HandlerThrows(p)
                 \/ EndTick(p) \/ Restart(p) \/ MarkThrows(p) \/ Crash(p)
          PROVE  Final
      BY <2>3 DEF StartTick, NextRow, HandlerReturns, HandlerThrows, EndTick, Restart,
         MarkThrows, Crash, DropTick
    <2> QED
      BY <2>1, <2>2, <2>3 DEF Next, Work
  <1> HIDE DEF Final
  <1>2. Spec => [][Final]_vars
    BY <1>1, IInvCorrect, HeldCorrect, PTL DEF Spec
  <1> QED
    BY <1>2 DEF SettledIsFinal, Final
-----------------------------------------------------------------------------
(* The dispatcher keeps the promise to publishers *)

LEMMA PromiseStep ==
  IInv /\ HeldInv /\ [Next]_vars => [Promise!Next]_(Promise!vars)
  <1> SUFFICES ASSUME IInv, HeldInv, [Next]_vars
               PROVE  Promise!Next \/ UNCHANGED <<status, handled>>
    BY DEF Promise!vars
  <1> USE DEF rowVars, IInv, TypeOK, Promise!Subscribers
  <1>1. ASSUME NEW e \in Events, Produce(e)
        PROVE  Promise!Next \/ UNCHANGED <<status, handled>>
    <2>1. CASE Publish(e)
      BY <2>1 DEF Publish, RowInv, Promise!Publish, Promise!Next
    <2> QED
      BY <1>1, <2>1 DEF Produce, Commit, ProducerStops
  <1>2. ASSUME NEW p \in Processes, HandlerReturns(p) PROVE Promise!Next
    <2>1. cur[p] \in Events /\ status[cur[p]] = "pending"
                            /\ next[p] \in 1 .. HandlerCount[cur[p]]
      BY <1>2 DEF HandlerReturns, CursorInv, HeldInv, Busy, Handlers
    <2>2. Promise!Complete(cur[p], next[p])
      BY <1>2, <2>1 DEF HandlerReturns, Promise!Complete
    <2> QED
      BY <2>1, <2>2 DEF Promise!Next
  <1>3. ASSUME NEW p \in Processes, MarkDelivered(p) PROVE Promise!Next
    <2>1. cur[p] \in Events /\ status[cur[p]] = "pending"
      BY <1>3 DEF MarkDelivered, CursorInv, HeldInv, Busy
    <2>2. handled[cur[p]] = 1 .. HandlerCount[cur[p]]
      <3>1. HandlerCount[cur[p]] \in Nat /\ next[p] = HandlerCount[cur[p]] + 1
        BY <1>3, <2>1, OutboxAssumption DEF MarkDelivered, CursorInv, Busy
      <3>2. 1 .. (next[p] - 1) \subseteq handled[cur[p]]
        BY <1>3 DEF MarkDelivered, PrefixInv, Busy
      <3>3. handled[cur[p]] \subseteq 1 .. HandlerCount[cur[p]]
        BY <2>1 DEF RowInv, Handlers
      <3>4. next[p] - 1 = HandlerCount[cur[p]]
        BY <3>1
      <3> QED
        BY <3>2, <3>3, <3>4
    <2>3. Promise!Deliver(cur[p])
      BY <1>3, <2>1, <2>2 DEF MarkDelivered, Promise!Deliver
    <2> QED
      BY <2>1, <2>3 DEF Promise!Next
  <1>4. ASSUME NEW p \in Processes, MarkRetryOrFailed(p)
        PROVE  Promise!Next \/ UNCHANGED <<status, handled>>
    <2>1. cur[p] \in Events /\ status[cur[p]] = "pending"
      BY <1>4 DEF MarkRetryOrFailed, CursorInv, HeldInv, Busy
    <2>2. CASE seen[p][cur[p]] + 1 >= MaxAttempts
      BY <1>4, <2>1, <2>2 DEF MarkRetryOrFailed, Promise!GiveUp, Promise!Next
    <2>3. CASE ~(seen[p][cur[p]] + 1 >= MaxAttempts)
      BY <1>4, <2>1, <2>3 DEF MarkRetryOrFailed
    <2> QED
      BY <2>2, <2>3
  <1>5. ASSUME NEW p \in Processes,
               \/ StartTick(p) \/ NextRow(p) \/ HandlerThrows(p) \/ EndTick(p)
               \/ Restart(p) \/ MarkThrows(p) \/ Crash(p)
        PROVE  UNCHANGED <<status, handled>>
    BY <1>5 DEF StartTick, NextRow, HandlerThrows, EndTick, Restart, MarkThrows, Crash,
       DropTick
  <1>6. CASE UNCHANGED vars
    BY <1>6 DEF vars
  <1> QED
    BY <1>1, <1>2, <1>3, <1>4, <1>5, <1>6 DEF Next, Work

\* With one process, Outbox implements EventDelivery: every step of the
\* dispatcher is a step of the promise or leaves it alone.
THEOREM OutboxImplementsPromise ==
  ASSUME SingleProcess
  PROVE  Spec => ImplementsPromise
  <1>1. Init => Promise!Init
    BY DEF Init, Promise!Init
  <1> QED
    BY <1>1, PromiseStep, IInvCorrect, HeldCorrect, PTL
       DEF Spec, ImplementsPromise, Promise!Spec
-----------------------------------------------------------------------------
(* How many redeliveries a subscriber must bear *)

InFlight(e) == \E p \in Processes : pc[p] \in Busy /\ cur[p] = e

\* Every pass is paid for by an attempt, by a tick cut short, or is the one
\* under way; the last pass of a delivered row left no attempt.
BoundInv ==
    \A e \in Events :
        /\ ~InFlight(e) /\ status[e] # "delivered" => calls[e] =< attempts[e] + aborts
        /\ InFlight(e) \/ status[e] = "delivered" =>
               /\ calls[e] =< attempts[e] + aborts + 1
               /\ attempts[e] < MaxAttempts
        /\ status[e] = "unpublished" => calls[e] = 0

LEMMA NextBoundInv ==
  ASSUME SingleProcess
  PROVE  IInv /\ HeldInv /\ BoundInv /\ [Next]_vars => BoundInv'
  <1> SUFFICES ASSUME IInv, HeldInv, BoundInv, [Next]_vars PROVE BoundInv'
    OBVIOUS
  <1> USE OutboxAssumption, SingleProcess
      DEF rowVars, workerVars, Settled, Busy, IInv, TypeOK, SingleProcess, BoundInv, InFlight
  <1>1. ASSUME NEW e \in Events, Produce(e) PROVE BoundInv'
    BY <1>1 DEF Produce, Commit, Publish, ProducerStops, BatchInv, CursorInv, RowInv
  <1>2. ASSUME NEW p \in Processes, StartTick(p) PROVE BoundInv'
    BY <1>2 DEF StartTick
  <1>3. ASSUME NEW p \in Processes, NextRow(p) PROVE BoundInv'
    <2>1. PICK x \in batch[p] : calls' = [calls EXCEPT ![x] = calls[x] + 1] /\ cur' = [cur EXCEPT ![p] = x]
      BY <1>3 DEF NextRow
    <2>2. x \in Events /\ status[x] = "pending" /\ attempts[x] < MaxAttempts
      BY <2>1 DEF HeldInv, RowInv
    <2>3. UNCHANGED <<status, attempts, aborts>> /\ pc[p] = "rows" /\ pc'[p] \in {"dispatch", "mark"}
      BY <1>3 DEF NextRow
    <2>4. \A e \in Events : ~InFlight(e)
      BY <2>3
    <2>5. \A e \in Events : InFlight(e)' <=> e = x
      BY <2>1, <2>3
    <2>6. calls'[x] = calls[x] + 1 /\ \A e \in Events \ {x} : calls'[e] = calls[e]
      BY <2>1, <2>2
    <2>7. calls[x] =< attempts[x] + aborts /\ calls[x] \in Nat
      BY <2>2, <2>4
    <2> QED
      BY <2>2, <2>3, <2>4, <2>5, <2>6, <2>7
  <1>4. ASSUME NEW p \in Processes, HandlerReturns(p) \/ HandlerThrows(p) PROVE BoundInv'
    BY <1>4 DEF HandlerReturns, HandlerThrows, Advance
  <1>5. ASSUME NEW p \in Processes, MarkDelivered(p) PROVE BoundInv'
    BY <1>5 DEF MarkDelivered, FinishRow, CursorInv
  <1>6. ASSUME NEW p \in Processes, MarkRetryOrFailed(p) PROVE BoundInv'
    BY <1>6 DEF MarkRetryOrFailed, FinishRow, CursorInv, HeldInv
  <1>7. ASSUME NEW p \in Processes, EndTick(p) \/ Restart(p) PROVE BoundInv'
    BY <1>7 DEF EndTick, Restart
  <1>8. ASSUME NEW p \in Processes, MarkThrows(p) \/ Crash(p) PROVE BoundInv'
    <2>1. PICK where \in {"idle", "down"} : DropTick(p, where)
      BY <1>8 DEF MarkThrows, Crash
    <2> QED
      BY <2>1 DEF DropTick
  <1>9. CASE UNCHANGED vars
    BY <1>9 DEF vars
  <1> QED
    BY <1>1, <1>2, <1>3, <1>4, <1>5, <1>6, <1>7, <1>8, <1>9 DEF Next, Work

\* With one process, a subscriber is called for one event at most MAX_ATTEMPTS
\* times, and once more for each tick that was cut short.
THEOREM RedeliveryBounded ==
  ASSUME SingleProcess
  PROVE  Spec => []RedeliveryBound
  <1>1. Init => BoundInv
    BY OutboxAssumption DEF Init, BoundInv, InFlight, Busy
  <1>2. IInv /\ HeldInv /\ BoundInv /\ [Next]_vars => BoundInv'
    BY NextBoundInv
  <1>3. IInv /\ BoundInv => RedeliveryBound
    BY OutboxAssumption DEF IInv, TypeOK, BoundInv, RedeliveryBound
  <1> QED
    BY <1>1, <1>2, <1>3, IInvCorrect, HeldCorrect, PTL DEF Spec
-----------------------------------------------------------------------------
(* No event overtakes an older one *)

Written == {e \in Events : status[e] # "unpublished"}

\* Creation times are handed out once, and a row without one has not been published.
ClockInv ==
    /\ IsFiniteSet(Written)
    /\ \A e \in Events :
        /\ createdAt[e] =< clock
        /\ status[e] = "unpublished" <=> createdAt[e] = 0
        /\ status[e] = "unpublished" => calls[e] = 0
        /\ calls[e] = 0 => status[e] \notin Settled

\* A tick that holds a row also holds every older row that nobody has tried yet.
OrderInv ==
    /\ \A p \in Processes : pc[p] \in Busy => calls[cur[p]] > 0
    /\ \A p \in Processes : \A f \in batch[p], e \in Events :
          0 < createdAt[e] /\ createdAt[e] < createdAt[f] /\ calls[e] = 0 => e \in batch[p]
    /\ FirstAttemptInOrder

LEMMA NextClockInv == IInv /\ ClockInv /\ OrderInv /\ [Next]_vars => ClockInv'
  <1> SUFFICES ASSUME IInv, ClockInv, OrderInv, [Next]_vars PROVE ClockInv'
    OBVIOUS
  <1> USE OutboxAssumption DEF rowVars, workerVars, Settled, Busy, TypeOK
  <1>0. TypeOK /\ BatchInv /\ CursorInv
    BY DEF IInv
  <1>1. ASSUME NEW e \in Events, Produce(e) PROVE ClockInv'
    <2>1. CASE Publish(e)
      <3>1. Written' = Written \cup {e}
        BY <1>0, <2>1 DEF Publish, Written
      <3>2. IsFiniteSet(Written')
        BY <3>1, FS_AddElement DEF ClockInv
      <3>3. status[e] = "unpublished" /\ UNCHANGED calls
        BY <1>0, <2>1 DEF Publish, IInv, RowInv
      <3> QED
        BY <1>0, <2>1, <3>2, <3>3 DEF Publish, ClockInv
    <2>2. CASE Commit(e) \/ ProducerStops(e)
      BY <2>2 DEF Commit, ProducerStops, ClockInv, Written
    <2> QED
      BY <1>1, <2>1, <2>2 DEF Produce
  <1>2. ASSUME NEW p \in Processes, NextRow(p) PROVE ClockInv'
    <2>1. PICK x \in batch[p] : calls' = [calls EXCEPT ![x] = @ + 1]
      BY <1>2 DEF NextRow
    <2>2. UNCHANGED <<status, createdAt, clock>>
      BY <1>2 DEF NextRow
    <2>3. x \in Events /\ status[x] # "unpublished"
      BY <1>0, <2>1 DEF BatchInv
    <2> QED
      BY <1>0, <2>1, <2>2, <2>3 DEF ClockInv, Written
  <1>3. ASSUME NEW p \in Processes, MarkDelivered(p) \/ MarkRetryOrFailed(p) PROVE ClockInv'
    <2>1. UNCHANGED <<createdAt, clock, calls>>
      BY <1>3 DEF MarkDelivered, MarkRetryOrFailed
    <2>2. PICK where \in Settled \cup {status[cur[p]]} : status' = [status EXCEPT ![cur[p]] = where]
      BY <1>3 DEF MarkDelivered, MarkRetryOrFailed
    <2>3. cur[p] \in Events /\ status[cur[p]] # "unpublished" /\ calls[cur[p]] > 0
      BY <1>0, <1>3 DEF MarkDelivered, MarkRetryOrFailed, CursorInv, BatchInv, OrderInv
    <2>4. Written' = Written
      BY <1>0, <2>2, <2>3 DEF Written
    <2> QED
      BY <1>0, <2>1, <2>2, <2>3, <2>4 DEF ClockInv
  <1>4. ASSUME UNCHANGED <<status, createdAt, clock, calls>> PROVE ClockInv'
    BY <1>4 DEF ClockInv, Written
  <1>5. ASSUME NEW p \in Processes, MarkThrows(p) \/ Crash(p) PROVE ClockInv'
    BY <1>4, <1>5 DEF MarkThrows, Crash, DropTick
  <1>6. ASSUME NEW p \in Processes, Work(p) PROVE ClockInv'
    BY <1>2, <1>3, <1>4, <1>6 DEF Work, StartTick, HandlerReturns, HandlerThrows, EndTick, Restart
  <1>7. CASE UNCHANGED vars
    BY <1>4, <1>7 DEF vars
  <1> QED
    BY <1>1, <1>5, <1>6, <1>7 DEF Next

\* The fetch takes a prefix of the pending rows.
LEMMA FetchIsPrefix ==
    ASSUME TypeOK, ClockInv, NEW e \in Events, NEW f \in FetchBatch,
           status[e] = "pending", createdAt[e] < createdAt[f]
    PROVE  e \in FetchBatch
  <1> DEFINE older(x) == {g \in Pending : createdAt[g] < createdAt[x]}
  <1>1. f \in Events /\ Cardinality(older(f)) < BatchSize
    BY DEF FetchBatch, Pending
  <1>2. IsFiniteSet(Written) /\ older(f) \subseteq Written
    BY DEF ClockInv, Pending, Written
  <1>3. older(e) \subseteq older(f)
    BY <1>1 DEF TypeOK, Pending
  <1>4. IsFiniteSet(older(f))
    BY <1>2, FS_Subset
  <1>5. /\ Cardinality(older(e)) \in Nat /\ Cardinality(older(f)) \in Nat
        /\ Cardinality(older(e)) =< Cardinality(older(f))
    BY <1>3, <1>4, FS_Subset, FS_CardinalityType
  <1> HIDE DEF older
  <1>6. Cardinality(older(e)) < BatchSize
    BY <1>1, <1>5, OutboxAssumption
  <1> QED
    BY <1>6 DEF FetchBatch, Pending, older

LEMMA NextOrderInv == IInv /\ ClockInv /\ OrderInv /\ [Next]_vars => OrderInv'
  <1> SUFFICES ASSUME IInv, ClockInv, OrderInv, [Next]_vars PROVE OrderInv'
    OBVIOUS
  <1> USE OutboxAssumption DEF rowVars, workerVars, Settled, Busy, TypeOK
  <1>0. TypeOK /\ BatchInv /\ CursorInv
    BY DEF IInv
  <1>1. ASSUME NEW e \in Events, Produce(e) PROVE OrderInv'
    <2>1. CASE Publish(e)
      <3>1. status[e] = "unpublished" /\ UNCHANGED <<calls, batch, pc, cur>>
        BY <1>0, <2>1 DEF Publish, IInv, RowInv
      <3>2. \A p \in Processes : e \notin batch[p]
        BY <1>0, <3>1 DEF BatchInv
      <3>3. /\ calls[e] = 0 /\ createdAt' = [createdAt EXCEPT ![e] = clock + 1]
            /\ \A f \in Events : createdAt[f] =< clock
        BY <2>1, <3>1 DEF Publish, ClockInv
      <3> QED
        BY <1>0, <3>1, <3>2, <3>3 DEF OrderInv, FirstAttemptInOrder
    <2>2. CASE Commit(e) \/ ProducerStops(e)
      BY <2>2 DEF Commit, ProducerStops, OrderInv, FirstAttemptInOrder
    <2> QED
      BY <1>1, <2>1, <2>2 DEF Produce
  <1>2. ASSUME NEW p \in Processes, StartTick(p) PROVE OrderInv'
    <2>1. /\ UNCHANGED <<createdAt, calls, cur>> /\ pc' = [pc EXCEPT ![p] = "rows"]
          /\ batch' = [batch EXCEPT ![p] = FetchBatch]
      BY <1>2 DEF StartTick
    <2>2. \A f \in FetchBatch, e \in Events :
             0 < createdAt[e] /\ createdAt[e] < createdAt[f] /\ calls[e] = 0 => e \in FetchBatch
      <3> SUFFICES ASSUME NEW f \in FetchBatch, NEW e \in Events,
                          0 < createdAt[e], createdAt[e] < createdAt[f], calls[e] = 0
                   PROVE  e \in FetchBatch
        OBVIOUS
      <3>1. status[e] = "pending"
        BY <1>0 DEF ClockInv
      <3> QED
        BY <1>0, <3>1, FetchIsPrefix
    <2> QED
      BY <1>0, <2>1, <2>2 DEF OrderInv, FirstAttemptInOrder
  <1>3. ASSUME NEW p \in Processes, NextRow(p) PROVE OrderInv'
    <2>1. PICK x \in batch[p] :
            /\ \A f \in batch[p] : createdAt[x] =< createdAt[f]
            /\ calls' = [calls EXCEPT ![x] = @ + 1]
            /\ cur' = [cur EXCEPT ![p] = x]
      BY <1>3 DEF NextRow, Oldest
    <2>2. UNCHANGED <<createdAt, batch>> /\ \A q \in Processes : q # p => pc'[q] = pc[q]
      BY <1>0, <1>3 DEF NextRow
    <2>3. x \in Events
      BY <1>0, <2>1
    <2>4. \A e \in Events : 0 < createdAt[e] /\ createdAt[e] < createdAt[x] => calls[e] > 0
      BY <1>0, <2>1, <2>3 DEF OrderInv
    <2>5. calls'[x] > 0 /\ \A e \in Events : calls'[e] >= calls[e] /\ (e # x => calls'[e] = calls[e])
      BY <1>0, <2>1, <2>3
    <2>6. \A q \in Processes : pc'[q] \in Busy => calls'[cur'[q]] > 0
      BY <1>0, <2>1, <2>2, <2>3, <2>5 DEF OrderInv, CursorInv
    <2>7. FirstAttemptInOrder'
      BY <1>0, <2>2, <2>3, <2>4, <2>5 DEF OrderInv, FirstAttemptInOrder
    <2> QED
      BY <1>0, <2>2, <2>5, <2>6, <2>7 DEF OrderInv
  <1>4. ASSUME NEW p \in Processes, HandlerReturns(p) \/ HandlerThrows(p) PROVE OrderInv'
    <2>1. UNCHANGED <<createdAt, batch, calls, cur>>
      BY <1>4 DEF HandlerReturns, HandlerThrows
    <2>2. \A q \in Processes : pc'[q] \in Busy => pc[q] \in Busy
      BY <1>0, <1>4 DEF HandlerReturns, HandlerThrows, Advance
    <2> QED
      BY <1>0, <2>1, <2>2 DEF OrderInv, FirstAttemptInOrder
  <1>5. ASSUME NEW p \in Processes, MarkDelivered(p) \/ MarkRetryOrFailed(p) PROVE OrderInv'
    <2>1. /\ UNCHANGED <<createdAt, calls, cur>> /\ pc' = [pc EXCEPT ![p] = "rows"]
          /\ batch' = [batch EXCEPT ![p] = @ \ {cur[p]}]
      BY <1>5 DEF MarkDelivered, MarkRetryOrFailed, FinishRow
    <2>2. calls[cur[p]] > 0
      BY <1>5 DEF MarkDelivered, MarkRetryOrFailed, OrderInv
    <2> QED
      BY <1>0, <2>1, <2>2 DEF OrderInv, FirstAttemptInOrder
  <1>6. ASSUME NEW p \in Processes, EndTick(p) \/ Restart(p) PROVE OrderInv'
    BY <1>0, <1>6 DEF EndTick, Restart, OrderInv, FirstAttemptInOrder
  <1>7. ASSUME NEW p \in Processes, MarkThrows(p) \/ Crash(p) PROVE OrderInv'
    <2>1. PICK where \in {"idle", "down"} : pc' = [pc EXCEPT ![p] = where]
      BY <1>7 DEF MarkThrows, Crash, DropTick
    <2>2. UNCHANGED <<createdAt, calls, cur>> /\ batch' = [batch EXCEPT ![p] = {}]
      BY <1>7 DEF MarkThrows, Crash, DropTick
    <2> QED
      BY <1>0, <2>1, <2>2 DEF OrderInv, FirstAttemptInOrder
  <1>8. CASE UNCHANGED vars
    BY <1>8 DEF vars, OrderInv, FirstAttemptInOrder
  <1> QED
    BY <1>1, <1>2, <1>3, <1>4, <1>5, <1>6, <1>7, <1>8 DEF Next, Work

\* Whatever the number of processes, no row is tried for the first time before an older one: the
\* fetch takes the oldest rows and a tick visits them in that order (outbox.dispatcher.ts:80).
THEOREM OrderCorrect == Spec => []FirstAttemptInOrder
  <1>1. Init => ClockInv
    <2> SUFFICES ASSUME Init PROVE ClockInv
      OBVIOUS
    <2>1. Written = {}
      BY DEF Init, Written
    <2> QED
      BY <2>1, FS_EmptySet DEF Init, ClockInv, Settled
  <1>2. Init => OrderInv
    BY DEF Init, OrderInv, FirstAttemptInOrder, Busy
  <1>3. OrderInv => FirstAttemptInOrder
    BY DEF OrderInv
  <1> QED
    BY <1>1, <1>2, <1>3, IInvCorrect, NextClockInv, NextOrderInv, PTL DEF Spec
=============================================================================
