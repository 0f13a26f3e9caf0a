-------------------- MODULE NotificationDelivery_proofs --------------------
(***************************************************************************)
(* Proofs about work that is done in several statements, and may be cut.   *)
(*                                                                         *)
(* NotificationDelivery, for any deliveries, any bounds and any number of  *)
(* workers; then the services whose calls write in several statements,     *)
(* each by itself and as parts of MCOperations: imports, rounds, onboarding. *)
(***************************************************************************)
EXTENDS NotificationDelivery, MCOperations, Sequences, FiniteSetTheorems, SequenceTheorems,
        WellFoundedInduction, TLAPS

\* A pending row, a fetched row and a row under way have a try left.
TriesInv ==
    /\ \A d \in Deliveries : status[d] \in {"absent", "pending"} => attempts[d] < MaxAttempts
    /\ \A w \in Workers :
        /\ \A d \in batch[w] : seen[w][d] < MaxAttempts
        /\ pc[w] \in Holding => cur[w] \in Deliveries /\ seen[w][cur[w]] < MaxAttempts
        /\ pc[w] \in {"deliver", "record"} => attempts[cur[w]] < MaxAttempts

\* A row under way is not up for claiming, and it has one holder.
ClaimInv ==
    /\ \A w \in Workers : pc[w] \in Holding => status[cur[w]] \notin {"absent", "pending"}
    /\ \A w \in Workers : \A d \in batch[w] : status[d] # "absent"
    /\ ExclusiveClaim

\* Success is recorded only behind an accepted message.
SentInv ==
    /\ SentMeansReceived
    /\ \A w \in Workers :
        pc[w] = "record" /\ Channel[cur[w]] # "push" => copies[cur[w]] > 0

\* A row that can be delivered is only ever failed with a retry asked for.
DeadInv ==
    /\ DeadLetterIsExhausted
    /\ \A w \in Workers : pc[w] = "mark" /\ cur[w] \in Deliverable => retry[w]
    /\ \A w \in Workers : pc[w] \in {"deliver", "record"} => status[cur[w]] = "sending"

IInv == TypeOK /\ TriesInv /\ ClaimInv /\ SentInv /\ DeadInv

LEMMA InitIInv == Init => IInv
  BY DeliveryAssumption DEF Init, IInv, TypeOK, TriesInv, ClaimInv, SentInv, DeadInv,
     ExclusiveClaim, SentMeansReceived, DeadLetterIsExhausted, Holding, Settled

LEMMA NextIInv == IInv /\ [Next]_vars => IInv'
  <1> SUFFICES ASSUME IInv, [Next]_vars PROVE IInv'
    OBVIOUS
  <1> USE DeliveryAssumption DEF rowVars, workerVars, Settled, Holding
  <1>1. ASSUME NEW d \in Deliveries, Create(d) \/ BecomeDue(d) PROVE IInv'
    <2> USE <1>1 DEF Create, BecomeDue
    <2>1. TypeOK'
      <3>1. CASE Create(d)
        BY <3>1 DEF IInv, TypeOK
      <3>2. CASE BecomeDue(d)
        BY <3>2 DEF IInv, TypeOK
      <3> QED
        BY <3>1, <3>2
    <2>2. TriesInv'
      BY DEF IInv, TypeOK, TriesInv, ClaimInv, ExclusiveClaim
    <2>3. ClaimInv'
      BY DEF IInv, TypeOK, TriesInv, ClaimInv, ExclusiveClaim
    <2>4. SentInv'
      BY DEF IInv, TypeOK, TriesInv, SentInv, SentMeansReceived
    <2>5. DeadInv'
      BY DEF IInv, TypeOK, TriesInv, ClaimInv, ExclusiveClaim, DeadInv, DeadLetterIsExhausted
    <2> QED
      BY <2>1, <2>2, <2>3, <2>4, <2>5 DEF IInv
  <1>2. ASSUME NEW w \in Workers, Fetch(w) PROVE IInv'
    <2>1. PICK S \in SUBSET Deliveries :
            /\ batch' = [batch EXCEPT ![w] = S]
            /\ \A d \in S : status[d] = "pending"
      BY <1>2 DEF Fetch, Due
    <2>2. /\ pc' = [pc EXCEPT ![w] = "rows"]
          /\ seen' = [seen EXCEPT ![w] = attempts]
          /\ UNCHANGED <<rowVars, cur, retry, inCatch, copies, audited, faults>>
      BY <1>2 DEF Fetch, GoTo
    <2>3. TypeOK'
      BY <2>1, <2>2 DEF IInv, TypeOK
    <2>4. TriesInv'
      BY <2>1, <2>2 DEF IInv, TypeOK, TriesInv
    <2>5. ClaimInv'
      BY <2>1, <2>2 DEF IInv, TypeOK, ClaimInv, ExclusiveClaim
    <2>6. SentInv'
      BY <2>2 DEF IInv, TypeOK, SentInv, SentMeansReceived
    <2>7. DeadInv'
      BY <2>2 DEF IInv, TypeOK, DeadInv, DeadLetterIsExhausted
    <2> QED
      BY <2>3, <2>4, <2>5, <2>6, <2>7 DEF IInv
  <1>3. ASSUME NEW w \in Workers, Claim(w) PROVE IInv'
    <2>1. PICK d \in batch[w] :
            /\ status[d] = "pending"
            /\ batch' = [batch EXCEPT ![w] = @ \ {d}]
            /\ status' = [status EXCEPT ![d] = "sending"]
            /\ cur' = [cur EXCEPT ![w] = d]
            /\ inCatch' = [inCatch EXCEPT ![w] = FALSE]
            /\ pc' = [pc EXCEPT ![w] = "deliver"]
      BY <1>3 DEF Claim, GoTo
    <2>2. UNCHANGED <<attempts, due, seen, retry, copies, audited, faults>>
      BY <1>3 DEF Claim
    <2>3. d \in Deliveries /\ seen[w][d] < MaxAttempts /\ attempts[d] < MaxAttempts
      BY <2>1 DEF IInv, TypeOK, TriesInv
    <2>4. \A v \in Workers : pc[v] \in Holding => cur[v] # d
      BY <2>1 DEF IInv, ClaimInv
    <2>5. TypeOK'
      BY <2>1, <2>2, <2>3 DEF IInv, TypeOK
    <2>6. TriesInv'
      BY <2>1, <2>2, <2>3 DEF IInv, TypeOK, TriesInv
    <2>7. ClaimInv'
      <3>1. \A v \in Workers : pc'[v] \in Holding => status'[cur'[v]] \notin {"absent", "pending"}
        BY <2>1, <2>3, <2>4 DEF IInv, TypeOK, TriesInv, ClaimInv
      <3>2. \A v \in Workers : \A e \in batch'[v] : status'[e] # "absent"
        BY <2>1, <2>3 DEF IInv, TypeOK, ClaimInv
      <3>3. ExclusiveClaim'
        BY <2>1, <2>3, <2>4 DEF IInv, TypeOK, ClaimInv, ExclusiveClaim
      <3> QED
        BY <3>1, <3>2, <3>3 DEF ClaimInv
    <2>8. SentInv'
      BY <2>1, <2>2, <2>3 DEF IInv, TypeOK, SentInv, SentMeansReceived
    <2>9. DeadInv'
      BY <2>1, <2>2, <2>3, <2>4 DEF IInv, TypeOK, DeadInv, DeadLetterIsExhausted
    <2> QED
      BY <2>5, <2>6, <2>7, <2>8, <2>9 DEF IInv
  <1>4. ASSUME NEW w \in Workers, SkipRaced(w) \/ EndBatch(w) PROVE IInv'
    <2>1. /\ pc' \in {pc, [pc EXCEPT ![w] = "idle"]}
          /\ UNCHANGED <<rowVars, seen, cur, retry, inCatch, copies, audited, faults>>
      BY <1>4 DEF SkipRaced, EndBatch, GoTo
    <2>2. PICK S \in SUBSET batch[w] : batch' = [batch EXCEPT ![w] = S]
      <3>1. CASE SkipRaced(w)
        BY <3>1 DEF SkipRaced
      <3>2. CASE EndBatch(w)
        BY <3>2 DEF EndBatch, IInv, TypeOK
      <3> QED
        BY <1>4, <3>1, <3>2
    <2>3. TypeOK'
      BY <2>1, <2>2 DEF IInv, TypeOK
    <2>4. TriesInv'
      BY <2>1, <2>2 DEF IInv, TypeOK, TriesInv
    <2>5. ClaimInv'
      BY <2>1, <2>2 DEF IInv, TypeOK, ClaimInv, ExclusiveClaim
    <2>6. SentInv' /\ DeadInv'
      BY <2>1 DEF IInv, TypeOK, SentInv, SentMeansReceived, DeadInv, DeadLetterIsExhausted
    <2> QED
      BY <2>3, <2>4, <2>5, <2>6 DEF IInv
  <1>5. ASSUME NEW w \in Workers, Reject(w) PROVE IInv'
    <2> USE <1>5 DEF Reject, GoTo
    <2>1. TypeOK'
      BY DEF IInv, TypeOK, TriesInv
    <2>2. TriesInv'
      BY DEF IInv, TypeOK, TriesInv, ClaimInv, ExclusiveClaim
    <2>3. ClaimInv'
      BY DEF IInv, TypeOK, TriesInv, ClaimInv, ExclusiveClaim
    <2>4. SentInv'
      BY DEF IInv, TypeOK, TriesInv, SentInv, SentMeansReceived
    <2>5. DeadInv'
      BY DEF IInv, TypeOK, TriesInv, ClaimInv, ExclusiveClaim, DeadInv, DeadLetterIsExhausted
    <2> QED
      BY <2>1, <2>2, <2>3, <2>4, <2>5 DEF IInv
  <1>6. ASSUME NEW w \in Workers, Send(w) PROVE IInv'
    <2> USE <1>6 DEF Send, GoTo
    <2>1. TypeOK'
      BY DEF IInv, TypeOK, TriesInv
    <2>2. TriesInv'
      BY DEF IInv, TypeOK, TriesInv, ClaimInv, ExclusiveClaim
    <2>3. ClaimInv'
      BY DEF IInv, TypeOK, TriesInv, ClaimInv, ExclusiveClaim
    <2>4. SentInv'
      BY DEF IInv, TypeOK, TriesInv, SentInv, SentMeansReceived
    <2>5. DeadInv'
      BY DEF IInv, TypeOK, TriesInv, ClaimInv, ExclusiveClaim, DeadInv, DeadLetterIsExhausted
    <2> QED
      BY <2>1, <2>2, <2>3, <2>4, <2>5 DEF IInv
  <1>7. ASSUME NEW w \in Workers, SendRefused(w) PROVE IInv'
    <2> USE <1>7 DEF SendRefused, GoTo
    <2>1. TypeOK'
      BY DEF IInv, TypeOK, TriesInv
    <2>2. TriesInv'
      BY DEF IInv, TypeOK, TriesInv, ClaimInv, ExclusiveClaim
    <2>3. ClaimInv'
      BY DEF IInv, TypeOK, TriesInv, ClaimInv, ExclusiveClaim
    <2>4. SentInv'
      BY DEF IInv, TypeOK, TriesInv, SentInv, SentMeansReceived
    <2>5. DeadInv'
      BY DEF IInv, TypeOK, TriesInv, ClaimInv, ExclusiveClaim, DeadInv, DeadLetterIsExhausted
    <2> QED
      BY <2>1, <2>2, <2>3, <2>4, <2>5 DEF IInv
  <1>8. ASSUME NEW w \in Workers, RecordSent(w) PROVE IInv'
    <2> USE <1>8 DEF RecordSent, GoTo
    <2>1. TypeOK'
      BY DEF IInv, TypeOK, TriesInv
    <2>2. TriesInv'
      BY DEF IInv, TypeOK, TriesInv, ClaimInv, ExclusiveClaim
    <2>3. ClaimInv'
      BY DEF IInv, TypeOK, TriesInv, ClaimInv, ExclusiveClaim
    <2>4. SentInv'
      BY DEF IInv, TypeOK, TriesInv, SentInv, SentMeansReceived
    <2>5. DeadInv'
      BY DEF IInv, TypeOK, TriesInv, ClaimInv, ExclusiveClaim, DeadInv, DeadLetterIsExhausted
    <2> QED
      BY <2>1, <2>2, <2>3, <2>4, <2>5 DEF IInv
  <1>9. ASSUME NEW w \in Workers, AuditSent(w) \/ AuditDead(w) PROVE IInv'
    <2>1. PICK what \in {"sent", "dead"} :
            audited' = [audited EXCEPT ![cur[w]] = @ \cup {what}]
      BY <1>9 DEF AuditSent, AuditDead, Audit
    <2>2. /\ pc[w] \in Holding
          /\ pc' = [pc EXCEPT ![w] = "rows"]
          /\ UNCHANGED <<rowVars, batch, seen, cur, retry, inCatch, copies, faults>>
      BY <1>9 DEF AuditSent, AuditDead, Audit, GoTo
    <2>3. TypeOK'
      BY <2>1, <2>2 DEF IInv, TypeOK, TriesInv
    <2>4. TriesInv' /\ ClaimInv'
      BY <2>2 DEF IInv, TypeOK, TriesInv, ClaimInv, ExclusiveClaim
    <2>5. SentInv' /\ DeadInv'
      BY <2>2 DEF IInv, TypeOK, SentInv, SentMeansReceived, DeadInv, DeadLetterIsExhausted
    <2> QED
      BY <2>3, <2>4, <2>5 DEF IInv
  <1>10. ASSUME NEW w \in Workers, Reschedule(w) PROVE IInv'
    <2> USE <1>10 DEF Reschedule, GoTo
    <2>1. TypeOK'
      BY DEF IInv, TypeOK, TriesInv
    <2>2. TriesInv'
      BY DEF IInv, TypeOK, TriesInv, ClaimInv, ExclusiveClaim
    <2>3. ClaimInv'
      BY DEF IInv, TypeOK, TriesInv, ClaimInv, ExclusiveClaim
    <2>4. SentInv'
      BY DEF IInv, TypeOK, TriesInv, SentInv, SentMeansReceived
    <2>5. DeadInv'
      BY DEF IInv, TypeOK, TriesInv, ClaimInv, ExclusiveClaim, DeadInv, DeadLetterIsExhausted
    <2> QED
      BY <2>1, <2>2, <2>3, <2>4, <2>5 DEF IInv
  <1>11. ASSUME NEW w \in Workers, DeadLetter(w) PROVE IInv'
    <2> USE <1>11 DEF DeadLetter, GoTo
    <2>1. TypeOK'
      BY DEF IInv, TypeOK, TriesInv
    <2>2. TriesInv'
      BY DEF IInv, TypeOK, TriesInv, ClaimInv, ExclusiveClaim
    <2>3. ClaimInv'
      BY DEF IInv, TypeOK, TriesInv, ClaimInv, ExclusiveClaim
    <2>4. SentInv'
      BY DEF IInv, TypeOK, TriesInv, SentInv, SentMeansReceived
    <2>5. DeadInv'
      BY DEF IInv, TypeOK, TriesInv, ClaimInv, ExclusiveClaim, DeadInv, DeadLetterIsExhausted
    <2> QED
      BY <2>1, <2>2, <2>3, <2>4, <2>5 DEF IInv
  <1>12. ASSUME NEW w \in Workers, ThrowInTry(w) PROVE IInv'
    <2> USE <1>12 DEF ThrowInTry, Fault, GoTo
    <2>1. TypeOK'
      BY DEF IInv, TypeOK, TriesInv
    <2>2. TriesInv'
      BY DEF IInv, TypeOK, TriesInv, ClaimInv, ExclusiveClaim
    <2>3. ClaimInv'
      BY DEF IInv, TypeOK, TriesInv, ClaimInv, ExclusiveClaim
    <2>4. SentInv'
      BY DEF IInv, TypeOK, TriesInv, SentInv, SentMeansReceived
    <2>5. DeadInv'
      BY DEF IInv, TypeOK, TriesInv, ClaimInv, ExclusiveClaim, DeadInv, DeadLetterIsExhausted
    <2> QED
      BY <2>1, <2>2, <2>3, <2>4, <2>5 DEF IInv
  <1>13. ASSUME NEW w \in Workers, ThrowOutside(w) \/ Crash(w) \/ Restart(w) PROVE IInv'
    <2>1. PICK where \in {"idle", "down"} : pc' = [pc EXCEPT ![w] = where]
      BY <1>13 DEF ThrowOutside, Crash, Restart, DropBatch, GoTo
    <2>2. /\ batch' \in {batch, [batch EXCEPT ![w] = {}]}
          /\ UNCHANGED <<rowVars, seen, cur, retry, inCatch, copies, audited>>
      BY <1>13 DEF ThrowOutside, Crash, Restart, DropBatch
    <2>3. faults' \in 0 .. MaxFaults
      BY <1>13 DEF ThrowOutside, Crash, Restart, DropBatch, Fault, IInv, TypeOK
    <2>4. batch' \in [Workers -> SUBSET Deliveries] /\ \A v \in Workers : batch'[v] \subseteq batch[v]
      BY <2>2 DEF IInv, TypeOK
    <2>5. TypeOK'
      BY <2>1, <2>2, <2>3, <2>4 DEF IInv, TypeOK
    <2>6. TriesInv'
      BY <2>1, <2>2, <2>4 DEF IInv, TypeOK, TriesInv
    <2>7. ClaimInv'
      BY <2>1, <2>2, <2>4 DEF IInv, TypeOK, ClaimInv, ExclusiveClaim
    <2>8. SentInv' /\ DeadInv'
      BY <2>1, <2>2 DEF IInv, TypeOK, SentInv, SentMeansReceived, DeadInv, DeadLetterIsExhausted
    <2> QED
      BY <2>5, <2>6, <2>7, <2>8 DEF IInv
  <1>14. CASE UNCHANGED vars
    BY <1>14 DEF vars, IInv, TypeOK, TriesInv, ClaimInv, SentInv, DeadInv, ExclusiveClaim,
       SentMeansReceived, DeadLetterIsExhausted
  <1> QED
    BY <1>1, <1>2, <1>3, <1>4, <1>5, <1>6, <1>7, <1>8, <1>9, <1>10, <1>11, <1>12, <1>13, <1>14 DEF Next, Work

\* Every reachable state is well typed; no row's attempts pass maxAttempts.
THEOREM TypeCorrect == Spec => []TypeOK
  <1>1. IInv => TypeOK
    BY DEF IInv
  <1> QED
    BY <1>1, InitIInv, NextIInv, PTL DEF Spec

\* The conditional update gives each row at most one holder at a time.
THEOREM ClaimCorrect == Spec => []ExclusiveClaim
  <1>1. IInv => ExclusiveClaim
    BY DEF IInv, ClaimInv
  <1> QED
    BY <1>1, InitIInv, NextIInv, PTL DEF Spec

\* A row is `sent` only after its recipient got a message.
THEOREM SentCorrect == Spec => []SentMeansReceived
  <1>1. IInv => SentMeansReceived
    BY DEF IInv, SentInv
  <1> QED
    BY <1>1, InitIInv, NextIInv, PTL DEF Spec

\* A deliverable row is dead-lettered only with all its attempts used.
THEOREM DeadLetterCorrect == Spec => []DeadLetterIsExhausted
  <1>1. IInv => DeadLetterIsExhausted
    BY DEF IInv, DeadInv
  <1> QED
    BY <1>1, InitIInv, NextIInv, PTL DEF Spec
-----------------------------------------------------------------------------
(* How many copies one process sends *)

\* DeliveryDispatcher runs in one process.
OneWorker == \A v, w \in Workers : v = w

\* What a row has cost its recipient is counted in its attempts before it can be fetched again:
\* a row that waits has no more copies than attempts, and one under way at most one more than
\* it was fetched with, which is what markFailed writes.
CopiesInv ==
    /\ \A d \in Deliveries : status[d] \in {"absent", "pending"} => copies[d] <= attempts[d]
    /\ \A w \in Workers, d \in Deliveries :
          d \in batch[w] => status[d] = "pending" /\ seen[w][d] = attempts[d]
    /\ \A w \in Workers : pc[w] \in Holding => copies[cur[w]] <= seen[w][cur[w]] + 1
    /\ \A w \in Workers : pc[w] = "deliver" => copies[cur[w]] <= seen[w][cur[w]]
    /\ CopiesBound

\* A step that sends nothing, writes no row and fetches none.
LEMMA QuietStep ==
    ASSUME CopiesInv, UNCHANGED <<status, attempts, seen, cur, copies>>,
           \A v \in Workers : /\ batch'[v] \subseteq batch[v]
                              /\ pc'[v] \in Holding => pc[v] \in Holding
                              /\ pc'[v] = "deliver" => pc[v] = "deliver"
    PROVE  CopiesInv'
  BY DEF CopiesInv, CopiesBound

LEMMA NextCopiesInv ==
    ASSUME OneWorker
    PROVE  IInv /\ CopiesInv /\ [Next]_vars => CopiesInv'
  <1> SUFFICES ASSUME IInv, CopiesInv, [Next]_vars PROVE CopiesInv'
    OBVIOUS
  <1> USE DeliveryAssumption DEF rowVars, workerVars, Settled, Holding
  <1>0. TypeOK /\ CopiesInv
    BY DEF IInv
  <1>a. \A v \in Workers : pc[v] \in Holding => /\ cur[v] \in Deliveries
                                                /\ status[cur[v]] # "pending"
                                                /\ seen[v][cur[v]] < MaxAttempts
                                                /\ seen[v][cur[v]] \in Nat
                                                /\ copies[cur[v]] \in Nat
    BY DEF IInv, TypeOK, TriesInv, ClaimInv
  <1>1. ASSUME NEW d \in Deliveries, Create(d) \/ BecomeDue(d) PROVE CopiesInv'
    BY <1>0, <1>a, <1>1 DEF Create, BecomeDue, TypeOK, CopiesInv, CopiesBound, IInv, ClaimInv
  <1>2. ASSUME NEW w \in Workers, Fetch(w) PROVE CopiesInv'
    <2>1. PICK S \in SUBSET Deliveries :
            batch' = [batch EXCEPT ![w] = S] /\ \A d \in S : status[d] = "pending"
      BY <1>2 DEF Fetch, Due
    <2> QED
      BY <1>0, <1>a, <1>2, <2>1 DEF Fetch, GoTo, TypeOK, CopiesInv, CopiesBound
  <1>3. ASSUME NEW w \in Workers, Claim(w) PROVE CopiesInv'
    <2>1. \A v \in Workers : v = w
      BY <1>3, OneWorker DEF OneWorker
    <2>2. PICK d \in batch[w] :
            /\ status[d] = "pending"
            /\ batch' = [batch EXCEPT ![w] = @ \ {d}]
            /\ status' = [status EXCEPT ![d] = "sending"]
            /\ cur' = [cur EXCEPT ![w] = d]
            /\ pc' = [pc EXCEPT ![w] = "deliver"]
      BY <1>3 DEF Claim, GoTo
    <2>3. UNCHANGED <<attempts, seen, copies>>
      BY <1>3 DEF Claim
    <2>4. d \in Deliveries /\ copies[d] <= seen[w][d] /\ copies[d] \in Nat /\ seen[w][d] \in Nat
      BY <1>0, <2>2 DEF TypeOK, CopiesInv
    <2> QED
      BY <1>0, <2>1, <2>2, <2>3, <2>4 DEF TypeOK, CopiesInv, CopiesBound
  <1>4. ASSUME NEW w \in Workers, SkipRaced(w) \/ EndBatch(w) PROVE CopiesInv'
    <2>1. CASE SkipRaced(w)
      <3>1. PICK d \in batch[w] : batch' = [batch EXCEPT ![w] = @ \ {d}]
        BY <2>1 DEF SkipRaced
      <3>2. \A v \in Workers : batch'[v] \subseteq batch[v] /\ pc'[v] = pc[v]
        BY <1>0, <2>1, <3>1 DEF SkipRaced, TypeOK
      <3> QED
        BY <1>0, <2>1, <3>2, QuietStep DEF SkipRaced
    <2>2. CASE EndBatch(w)
      <3>1. \A v \in Workers : /\ batch'[v] \subseteq batch[v]
                               /\ pc'[v] \in Holding => pc[v] \in Holding
                               /\ pc'[v] = "deliver" => pc[v] = "deliver"
        BY <1>0, <2>2 DEF EndBatch, GoTo, TypeOK
      <3> QED
        BY <1>0, <2>2, <3>1, QuietStep DEF EndBatch
    <2> QED
      BY <1>4, <2>1, <2>2
  <1>5. ASSUME NEW w \in Workers, Reject(w) \/ SendRefused(w) PROVE CopiesInv'
    <2>1. \A v \in Workers : /\ batch'[v] \subseteq batch[v]
                             /\ pc'[v] \in Holding => pc[v] \in Holding
                             /\ pc'[v] = "deliver" => pc[v] = "deliver"
      BY <1>0, <1>5 DEF Reject, SendRefused, GoTo, TypeOK
    <2> QED
      BY <1>0, <1>5, <2>1, QuietStep DEF Reject, SendRefused
  <1>6. ASSUME NEW w \in Workers, Send(w) PROVE CopiesInv'
    <2>1. \A v \in Workers : v = w
      BY <1>6, OneWorker DEF OneWorker
    <2>2. cur[w] \in Deliveries /\ copies[cur[w]] <= seen[w][cur[w]] /\ status[cur[w]] # "absent"
      BY <1>0, <1>a, <1>6 DEF Send, CopiesInv, IInv, ClaimInv
    <2>3. copies' \in {copies, [copies EXCEPT ![cur[w]] = copies[cur[w]] + 1]}
      BY <1>0, <2>2, <1>6 DEF Send, TypeOK
    <2>4. pc' = [pc EXCEPT ![w] = "record"] /\ UNCHANGED <<rowVars, batch, seen, cur>>
      BY <1>6 DEF Send, GoTo
    <2> QED
      BY <1>0, <1>a, <1>6, <2>1, <2>2, <2>3, <2>4 DEF Send, TypeOK, CopiesInv, CopiesBound
  <1>7. ASSUME NEW w \in Workers, RecordSent(w) PROVE CopiesInv'
    <2>1. \A v \in Workers : v = w
      BY <1>7, OneWorker DEF OneWorker
    <2> QED
      BY <1>0, <1>a, <1>7, <2>1 DEF RecordSent, GoTo, TypeOK, CopiesInv, CopiesBound
  <1>8. ASSUME NEW w \in Workers, AuditSent(w) \/ AuditDead(w) PROVE CopiesInv'
    <2>1. \A v \in Workers : /\ batch'[v] \subseteq batch[v]
                             /\ pc'[v] \in Holding => pc[v] \in Holding
                             /\ pc'[v] = "deliver" => pc[v] = "deliver"
      BY <1>0, <1>8 DEF AuditSent, AuditDead, Audit, GoTo, TypeOK
    <2> QED
      BY <1>0, <1>8, <2>1, QuietStep DEF AuditSent, AuditDead, Audit
  <1>9. ASSUME NEW w \in Workers, Reschedule(w) PROVE CopiesInv'
    <2>1. \A v \in Workers : v = w
      BY <1>9, OneWorker DEF OneWorker
    <2>2. cur[w] \notin batch[w]
      BY <1>0, <1>a, <1>9 DEF Reschedule, CopiesInv
    <2> QED
      BY <1>0, <1>a, <1>9, <2>1, <2>2 DEF Reschedule, GoTo, TypeOK, CopiesInv, CopiesBound
  <1>10. ASSUME NEW w \in Workers, DeadLetter(w) PROVE CopiesInv'
    <2>1. \A v \in Workers : v = w
      BY <1>10, OneWorker DEF OneWorker
    <2> QED
      BY <1>0, <1>a, <1>10, <2>1 DEF DeadLetter, GoTo, TypeOK, CopiesInv, CopiesBound
  <1>11. ASSUME NEW w \in Workers, ThrowInTry(w) PROVE CopiesInv'
    <2>1. \A v \in Workers : /\ batch'[v] \subseteq batch[v]
                             /\ pc'[v] \in Holding => pc[v] \in Holding
                             /\ pc'[v] = "deliver" => pc[v] = "deliver"
      BY <1>0, <1>11 DEF ThrowInTry, GoTo, TypeOK
    <2> QED
      BY <1>0, <1>11, <2>1, QuietStep DEF ThrowInTry
  <1>12. ASSUME NEW w \in Workers, ThrowOutside(w) \/ Crash(w) \/ Restart(w) PROVE CopiesInv'
    <2>1. \A v \in Workers : /\ batch'[v] \subseteq batch[v]
                             /\ pc'[v] \in Holding => pc[v] \in Holding
                             /\ pc'[v] = "deliver" => pc[v] = "deliver"
      BY <1>0, <1>12 DEF ThrowOutside, Crash, Restart, DropBatch, GoTo, TypeOK
    <2> QED
      BY <1>0, <1>12, <2>1, QuietStep DEF ThrowOutside, Crash, Restart, DropBatch
  <1>13. CASE UNCHANGED vars
    BY <1>0, <1>13, QuietStep DEF vars
  <1> QED
    BY <1>1, <1>2, <1>3, <1>4, <1>5, <1>6, <1>7, <1>8, <1>9, <1>10, <1>11, <1>12, <1>13 DEF Next, Work

\* One process sends a recipient at most maxAttempts copies of one delivery, however often a
\* record of success or its audit entry throws, and wherever the process dies.
THEOREM CopiesCorrect ==
    ASSUME OneWorker
    PROVE  Spec => []CopiesBound
  <1>1. Init => CopiesInv
    BY DeliveryAssumption DEF Init, CopiesInv, CopiesBound, Holding
  <1>2. CopiesInv => CopiesBound
    BY DEF CopiesInv
  <1>3. IInv /\ CopiesInv /\ [Next]_vars => CopiesInv'
    BY NextCopiesInv, OneWorker
  <1> QED
    BY <1>1, <1>2, <1>3, InitIInv, NextIInv, PTL DEF Spec
-----------------------------------------------------------------------------
(* Imports: what a commit and a rollback leave *)

Before(n) == {m \in Import!Lines : m < n}

\* The lines before upto have the parts of these calls; they have their document, the others none.
Parted(j, upto, clerks) == \A m \in Import!Lines : m < upto => parts[j][m] = clerks
Papered(j, upto) == \A m \in Import!Lines : documents[j][m] = IF m < upto THEN 1 ELSE 0
Unpapered(j) == \A m \in Import!Lines : documents[j][m] = 0
AllPapered(j) == \A m \in Import!Lines : documents[j][m] = 1
Filed(j) == Unpapered(j) \/ (j \in Bundles /\ AllPapered(j))

\* A job nobody works on
Rested(j) ==
    /\ job[j].status = "committed" /\ j \in Workbooks =>
           /\ templates[j] = Import!Lines /\ job[j].listed = Import!Lines
           /\ \E c \in Clerks : job[j].lists = {c}
           /\ \A n \in Import!Lines : parts[j][n] = IF j \in stripped THEN {} ELSE job[j].lists
    /\ job[j].status \in {"none", "preview_ready", "rolled_back"} => templates[j] = {}
    /\ j \in Bundles => templates[j] = {} /\ job[j].listed = {}
    /\ job[j].status \in {"none", "preview_ready"} => Unpapered(j) /\ j \notin stripped
    /\ Filed(j)

\* Where a call that works on job j has got to, by its step
Committing(c, j) ==
    LET n == work[c].line IN
    /\ job[j].status = "preview_ready" /\ j \notin stripped /\ Unpapered(j)
    /\ work[c].at \in {"upsert", "parts"} => j \in Workbooks /\ n \in Import!Lines /\ Parted(j, n, {c})
    /\ work[c].at = "upsert" => templates[j] = Before(n)
    /\ work[c].at = "parts" => templates[j] = Before(n) \cup {n} /\ parts[j][n] = {}
    /\ work[c].at = "finish" /\ j \in Workbooks =>
           templates[j] = Import!Lines /\ \A m \in Import!Lines : parts[j][m] = {c}
    /\ work[c].at \in {"upsert", "parts", "finish"}

Filing(c, j) ==
    /\ job[j].status = "preview_ready" /\ j \notin stripped /\ j \in Bundles
    /\ work[c].at = "document" => work[c].line \in Import!Lines /\ Papered(j, work[c].line)
    /\ work[c].at = "finish" => AllPapered(j)
    /\ work[c].at \in {"document", "finish"}

RollingBack(c, j) ==
    /\ job[j].status = "committed" /\ Filed(j)
    /\ work[c].at \in {"check", "delete"} =>
           j \in Workbooks /\ templates[j] = Import!Lines /\ job[j].listed = Import!Lines
    /\ work[c].at = "check" =>
           (\E d \in Clerks : job[j].lists = {d}) /\ \A m \in Import!Lines : parts[j][m] = {}
    /\ work[c].at = "delete" => \A x \in planned : x[1] # j
    /\ work[c].at = "finish" => templates[j] = {}
    /\ work[c].at \in {"check", "delete", "finish"}

Working(c, j) ==
    /\ j \in Bundles => templates[j] = {} /\ job[j].listed = {}
    /\ work[c].op = "commit" => Committing(c, j)
    /\ work[c].op = "bundle" => Filing(c, j)
    /\ work[c].op = "rollback" => RollingBack(c, j)
    /\ work[c].op \in {"commit", "bundle", "rollback"}

\* Unless calls overlapped or one was cut, one call works on a job and it is where that call left it.
JobHolds(j) ==
    j \notin cut \cup tangled =>
        /\ j \notin orphaned
        /\ \A c, d \in Import!Active(j) : c = d
        /\ Import!Active(j) = {} => Rested(j)
        /\ \A c \in Import!Active(j) : Working(c, j)

ClerkRows == [op : {"none", "done", "commit", "bundle", "rollback"}, on : Import!Batches \cup {"none"},
             at : {"none", "upsert", "parts", "finish", "document", "check", "delete"},
             line : Import!Lines \cup {0}]

CallTypes ==
    /\ work \in [Clerks -> ClerkRows]
    /\ \A c \in Clerks :
           /\ work[c].op \in {"commit", "bundle", "rollback"} <=> work[c].on # "none"
           /\ work[c].at \in {"upsert", "parts", "document"} => work[c].line \in Import!Lines

ImportTypes ==
    /\ job \in [Import!Batches -> [status : {"none", "preview_ready", "committed", "rolled_back"},
                                   errors : BOOLEAN, lists : SUBSET Clerks, listed : SUBSET Import!Lines]]
    /\ parts \in [Import!Batches -> [Import!Lines -> SUBSET Clerks]]
    /\ templates \in [Import!Batches -> SUBSET Import!Lines]
    /\ documents \in [Import!Batches -> [Import!Lines -> Nat]]
    /\ planned \subseteq Workbooks \X Import!Lines
    /\ CallTypes

ImportInv == ImportTypes /\ \A j \in Import!Batches : JobHolds(j)

LEMMA CardinalityOfImports == \A S : Import!Cardinality(S) = Cardinality(S)
  BY DEF Import!Cardinality, Cardinality

\* What a step of a call does to a job it does not work on: nothing.
LEMMA OtherJobs ==
    ASSUME JobsAreSorted, ImportInv, ImportTypes', NEW j \in Import!Batches,
           job'[j] = job[j], parts'[j] = parts[j], templates'[j] = templates[j],
           documents'[j] = documents[j], j \in stripped' <=> j \in stripped,
           j \in cut => j \in cut', j \in tangled => j \in tangled',
           j \in orphaned' <=> j \in orphaned,
           \A x \in planned' : x \notin planned => x[1] # j,
           \A c \in Clerks : work[c].on = j <=> work'[c].on = j,
           \A c \in Clerks : work[c].on = j => work'[c] = work[c]
    PROVE  JobHolds(j)'
<1>1. Import!Active(j)' = Import!Active(j)
  BY DEF Import!Active
<1>2. \A c \in Import!Active(j) : work'[c] = work[c]
  BY DEF Import!Active
<1>3. Rested(j) => Rested(j)'
  BY DEF Rested, Filed, Unpapered, AllPapered
<1>4. ASSUME NEW c \in Import!Active(j), Working(c, j) PROVE Working(c, j)'
  BY <1>2, <1>4 DEF Working, Committing, Filing, RollingBack, Filed, Unpapered, AllPapered, Papered, Parted
<1>5. JobHolds(j)
  BY DEF ImportInv
<1> QED
  BY <1>1, <1>3, <1>4, <1>5 DEF JobHolds

\* A step of the one call that works on a job
LEMMA OneWorks ==
    ASSUME JobsAreSorted, ImportInv, NEW c \in Clerks, NEW j \in Import!Batches, work[c].on = j
    PROVE  /\ c \in Import!Active(j)
           /\ j \notin cut \cup tangled => Working(c, j) /\ j \notin orphaned /\ Import!Active(j) = {c}
<1>1. c \in Import!Active(j)
  BY DEF Import!Active
<1> QED
  BY <1>1 DEF ImportInv, JobHolds

\* ... that goes on with the job,
LEMMA StepsOn ==
    ASSUME JobsAreSorted, ImportInv, NEW c \in Clerks, NEW j \in Import!Batches,
           work[c].on = j, work'[c].on = j, \A d \in Clerks \ {c} : work'[d] = work[d],
           cut \subseteq cut', tangled \subseteq tangled',
           j \notin cut \cup tangled /\ Working(c, j) /\ j \notin orphaned => Working(c, j)' /\ j \notin orphaned'
    PROVE  JobHolds(j)'
<1>1. Import!Active(j)' = Import!Active(j)
  BY DEF Import!Active
<1> QED
  BY <1>1, OneWorks DEF JobHolds

\* ... that is its last,
LEMMA StepsOff ==
    ASSUME JobsAreSorted, ImportInv, NEW c \in Clerks, NEW j \in Import!Batches,
           work[c].on = j, work'[c].on = "none", \A d \in Clerks \ {c} : work'[d] = work[d],
           cut \subseteq cut', tangled \subseteq tangled',
           j \notin cut' \cup tangled' /\ Working(c, j) /\ j \notin orphaned => Rested(j)' /\ j \notin orphaned'
    PROVE  JobHolds(j)'
<1>1. Import!Active(j)' = Import!Active(j) \ {c}
  BY DEF Import!Active, JobsAreSorted, Import!Batches
<1> QED
  BY <1>1, OneWorks DEF JobHolds

\* ... and its first.
LEMMA StepsIn ==
    ASSUME JobsAreSorted, ImportInv, NEW c \in Clerks, NEW j \in Import!Batches,
           work[c].on = "none", work'[c].on = j, \A d \in Clerks \ {c} : work'[d] = work[d],
           cut' = cut, tangled' = IF Import!Active(j) # {} THEN tangled \cup {j} ELSE tangled,
           orphaned' = orphaned,
           j \notin cut \cup tangled /\ Rested(j) => Working(c, j)'
    PROVE  JobHolds(j)'
<1>1. Import!Active(j)' = Import!Active(j) \cup {c}
  BY DEF Import!Active, JobsAreSorted, Import!Batches
<1>2. JobHolds(j)
  BY DEF ImportInv
<1> QED
  BY <1>1, <1>2 DEF JobHolds

\* The lines before the one after n are those before n, and n; all are before the one after the last.
LEMMA LinesBefore ==
    ASSUME JobsAreSorted, NEW n \in Import!Lines
    PROVE  /\ n # LastLine => n + 1 \in Import!Lines /\ Before(n + 1) = Before(n) \cup {n}
           /\ n = LastLine => Before(n) \cup {n} = Import!Lines
           /\ \A m \in Import!Lines : m < n + 1 <=> m < n \/ m = n
           /\ Before(1) = {} /\ 1 \in Import!Lines /\ \A m \in Import!Lines : ~(m < 1)
           /\ n = LastLine => \A m \in Import!Lines : m < n \/ m = n
  BY DEF JobsAreSorted, Import!Lines, Before

\* The invariant holds at first, every step keeps it, and it has what is to hold in it.
LEMMA ImportInductive ==
    ASSUME JobsAreSorted
    PROVE  /\ Import!Init => ImportInv
           /\ ImportInv /\ [Import!Next]_(Import!vars) => ImportInv'
           /\ ImportInv => Import!ImportIsWhole
<1>1. Import!Init => ImportInv
  <2> SUFFICES ASSUME Import!Init PROVE ImportInv
    OBVIOUS
  <2>1. ImportTypes
    BY DEF Import!Init, Import!NotCalled, Import!Batches, ImportTypes, CallTypes, ClerkRows
  <2>2. ASSUME NEW j \in Import!Batches PROVE Import!Active(j) = {}
    BY <2>2 DEF Import!Init, Import!Active, Import!NotCalled, JobsAreSorted, Import!Batches
  <2>3. ASSUME NEW j \in Import!Batches PROVE Rested(j) /\ j \notin orphaned
    <3>1. job[j].status = "none" /\ job[j].listed = {} /\ templates[j] = {} /\ j \notin stripped \cup orphaned
      BY <2>3 DEF Import!Init
    <3>2. Unpapered(j)
      BY <2>3 DEF Import!Init, Unpapered
    <3> QED
      BY <3>1, <3>2 DEF Rested, Filed
  <2> QED
    BY <2>1, <2>2, <2>3 DEF ImportInv, JobHolds
<1>2. ASSUME ImportInv, [Import!Next]_Import!vars PROVE ImportInv'
  <2> USE <1>2
  <2>a. ASSUME NEW c \in Clerks, NEW op \in {"none", "done", "commit", "bundle", "rollback"},
               NEW j \in Import!Batches \cup {"none"},
               NEW at \in {"none", "upsert", "parts", "finish", "document", "check", "delete"},
               NEW n \in Import!Lines \cup {0},
               op \in {"commit", "bundle", "rollback"} <=> j # "none",
               at \in {"upsert", "parts", "document"} => n \in Import!Lines,
               Import!Goto(c, op, j, at, n)
        PROVE  /\ CallTypes'
               /\ work'[c].op = op /\ work'[c].on = j /\ work'[c].at = at /\ work'[c].line = n
               /\ \A d \in Clerks \ {c} : work'[d] = work[d]
    <3>1. PICK row : row = [op |-> op, on |-> j, at |-> at, line |-> n]
      OBVIOUS
    <3>2. row \in ClerkRows /\ row.op = op /\ row.on = j /\ row.at = at /\ row.line = n
      BY <2>a, <3>1 DEF ClerkRows
    <3>3. CallTypes /\ work' = [work EXCEPT ![c] = row]
      BY <2>a, <3>1 DEF Import!Goto, ImportInv, ImportTypes
    <3>4. work' \in [Clerks -> ClerkRows] /\ work'[c] = row /\ \A d \in Clerks \ {c} : work'[d] = work[d]
      BY <3>2, <3>3 DEF CallTypes
    <3>5. ASSUME NEW d \in Clerks
          PROVE  /\ work'[d].op \in {"commit", "bundle", "rollback"} <=> work'[d].on # "none"
                 /\ work'[d].at \in {"upsert", "parts", "document"} => work'[d].line \in Import!Lines
      <4>1. CASE d = c
        BY <4>1, <2>a, <3>2, <3>4
      <4>2. CASE d # c
        BY <4>2, <3>3, <3>4 DEF CallTypes
      <4> QED
        BY <4>1, <4>2
    <3> QED
      BY <3>2, <3>4, <3>5 DEF CallTypes
  <2>b. ASSUME NEW c \in Clerks, work[c].op \in {"commit", "bundle", "rollback"}
        PROVE  /\ work[c].on \in Import!Batches /\ work[c].on # "none"
               /\ work[c].line \in Import!Lines \cup {0}
    BY <2>b DEF ImportInv, ImportTypes, CallTypes, ClerkRows, JobsAreSorted, Import!Batches
  <2>1. ASSUME NEW j \in Import!Batches, NEW errors \in BOOLEAN, Import!Preview(j, errors) PROVE ImportInv'
    <3>1. /\ UNCHANGED <<parts, templates, documents, planned, work, cut, stripped, tangled, orphaned>>
          /\ job[j].status = "none"
      BY <2>1 DEF Import!Preview
    <3>2. PICK next : /\ next = [status |-> "preview_ready", errors |-> errors, lists |-> {}, listed |-> {}]
                      /\ job' = [job EXCEPT ![j] = next]
      BY <2>1 DEF Import!Preview
    <3>3. /\ next \in [status : {"none", "preview_ready", "committed", "rolled_back"}, errors : BOOLEAN,
                       lists : SUBSET Clerks, listed : SUBSET Import!Lines]
          /\ next.status = "preview_ready" /\ next.listed = {}
      BY <3>2
    <3>4. ImportTypes' /\ job'[j] = next /\ \A x \in Import!Batches \ {j} : job'[x] = job[x]
      BY <3>1, <3>2, <3>3 DEF ImportInv, ImportTypes, CallTypes
    <3>5. JobHolds(j)'
      <4>1. Import!Active(j)' = Import!Active(j) /\ JobHolds(j)
        BY <3>1 DEF Import!Active, ImportInv
      <4>2. \A c \in Import!Active(j) : ~Working(c, j)
        BY <3>1 DEF Working, Committing, Filing, RollingBack
      <4>3. Rested(j) => Rested(j)'
        BY <3>1, <3>3, <3>4 DEF Rested, Filed, Unpapered, AllPapered
      <4> QED
        BY <4>1, <4>2, <4>3, <3>1 DEF JobHolds
    <3>6. ASSUME NEW x \in Import!Batches \ {j} PROVE JobHolds(x)'
      BY <3>1, <3>4, OtherJobs
    <3> QED
      BY <3>4, <3>5, <3>6 DEF ImportInv
  <2>2. ASSUME NEW j \in Workbooks, NEW n \in Import!Lines, Import!Plan(j, n) PROVE ImportInv'
    <3>0. j \in Import!Batches
      BY DEF Import!Batches
    <3>1. /\ UNCHANGED <<job, parts, templates, documents, work, cut, stripped, orphaned>>
          /\ planned' \in {planned \ {<<j, n>>}, planned \cup {<<j, n>>}}
          /\ tangled' = IF \E c \in Import!Active(j) : Import!At(c, "rollback", "delete")
                        THEN tangled \cup {j} ELSE tangled
      BY <2>2 DEF Import!Plan
    <3>2. ImportTypes'
      BY <3>1 DEF ImportInv, ImportTypes, CallTypes
    <3>3. JobHolds(j)'
      <4>1. Import!Active(j)' = Import!Active(j) /\ JobHolds(j)
        BY <3>0, <3>1 DEF Import!Active, ImportInv
      <4>2. Rested(j) => Rested(j)'
        BY <3>1 DEF Rested, Filed, Unpapered, AllPapered
      <4>3. ASSUME NEW c \in Import!Active(j), Working(c, j), j \notin tangled' PROVE Working(c, j)'
        <5>1. ~(work[c].op = "rollback" /\ work[c].at = "delete")
          <6>1. ~Import!At(c, "rollback", "delete")
            BY <3>1, <4>3
          <6> QED
            BY <6>1 DEF Import!At
        <5> QED
          BY <5>1, <4>3, <3>1 DEF Working, Committing, Filing, RollingBack, Filed, Unpapered, AllPapered,
                                  Papered, Parted
      <4> QED
        BY <4>1, <4>2, <4>3, <3>1 DEF JobHolds
    <3>4. ASSUME NEW x \in Import!Batches \ {j} PROVE JobHolds(x)'
      <4>1. \A y \in planned' : y \notin planned => y[1] # x
        BY <3>1
      <4> QED
        BY <4>1, <3>1, <3>2, OtherJobs
    <3> QED
      BY <3>2, <3>3, <3>4 DEF ImportInv
  <2>3. ASSUME NEW c \in Clerks, NEW j \in Import!Batches, Import!StartCommit(c, j) PROVE ImportInv'
    <3>1. /\ UNCHANGED <<job, parts, templates, documents, planned, cut, stripped, orphaned>>
          /\ job[j].status = "preview_ready"
          /\ tangled' = IF Import!Active(j) # {} THEN tangled \cup {j} ELSE tangled
      BY <2>3 DEF Import!StartCommit
    <3>2. work[c].on = "none"
      BY <2>3 DEF Import!StartCommit, Import!NotCalled
    <3>3. PICK at \in {"upsert", "finish"} :
              /\ at = IF j \in Workbooks THEN "upsert" ELSE "finish"
              /\ Import!Goto(c, "commit", j, at, 1)
      BY <2>3 DEF Import!StartCommit
    <3>4. j # "none" /\ 1 \in Import!Lines /\ Before(1) = {} /\ \A m \in Import!Lines : ~(m < 1)
      BY DEF JobsAreSorted, Import!Batches, Import!Lines, Before
    <3>5. /\ CallTypes'
          /\ work'[c].op = "commit" /\ work'[c].on = j /\ work'[c].at = at /\ work'[c].line = 1
          /\ \A d \in Clerks \ {c} : work'[d] = work[d]
      BY <3>3, <3>4, <2>a
    <3>6. ImportTypes'
      BY <3>1, <3>5 DEF ImportInv, ImportTypes
    <3>7. Rested(j) => Working(c, j)'
      <4> SUFFICES ASSUME Rested(j) PROVE Working(c, j)'
        OBVIOUS
      <4>1. /\ templates[j] = {} /\ Unpapered(j) /\ j \notin stripped /\ (j \in Bundles => job[j].listed = {})
        BY <3>1 DEF Rested
      <4>2. Unpapered(j)' /\ (j \in Workbooks => Parted(j, 1, {c})')
        BY <4>1, <3>1, <3>4 DEF Unpapered, Parted
      <4>3. Committing(c, j)'
        BY <4>1, <4>2, <3>1, <3>3, <3>4, <3>5 DEF Committing
      <4> QED
        BY <4>1, <4>3, <3>1, <3>5 DEF Working
    <3>8. JobHolds(j)'
      BY <3>1, <3>2, <3>5, <3>7, StepsIn
    <3>9. ASSUME NEW x \in Import!Batches \ {j} PROVE JobHolds(x)'
      <4>1. x # "none"
        BY DEF JobsAreSorted, Import!Batches
      <4> QED
        BY <4>1, <3>1, <3>2, <3>5, <3>6, OtherJobs
    <3> QED
      BY <3>6, <3>8, <3>9 DEF ImportInv
  <2>4. ASSUME NEW c \in Clerks, NEW j \in Bundles, Import!StartBundle(c, j) PROVE ImportInv'
    <3>0. j \in Import!Batches
      BY DEF Import!Batches
    <3>1. /\ UNCHANGED <<job, parts, templates, documents, planned, cut, stripped, orphaned>>
          /\ job[j].status = "preview_ready"
          /\ tangled' = IF Import!Active(j) # {} THEN tangled \cup {j} ELSE tangled
          /\ Import!Goto(c, "bundle", j, "document", 1)
      BY <2>4 DEF Import!StartBundle
    <3>2. work[c].on = "none"
      BY <2>4 DEF Import!StartBundle, Import!NotCalled
    <3>4. j # "none" /\ 1 \in Import!Lines /\ \A m \in Import!Lines : ~(m < 1)
      BY DEF JobsAreSorted, Import!Batches, Import!Lines
    <3>5. /\ CallTypes'
          /\ work'[c].op = "bundle" /\ work'[c].on = j /\ work'[c].at = "document" /\ work'[c].line = 1
          /\ \A d \in Clerks \ {c} : work'[d] = work[d]
      BY <3>0, <3>1, <3>4, <2>a
    <3>6. ImportTypes'
      BY <3>1, <3>5 DEF ImportInv, ImportTypes
    <3>7. Rested(j) => Working(c, j)'
      <4> SUFFICES ASSUME Rested(j) PROVE Working(c, j)'
        OBVIOUS
      <4>1. /\ templates[j] = {} /\ Unpapered(j) /\ j \notin stripped /\ job[j].listed = {}
        BY <3>1 DEF Rested
      <4>2. Papered(j, 1)'
        BY <4>1, <3>1, <3>4 DEF Unpapered, Papered
      <4>3. Filing(c, j)'
        BY <4>1, <4>2, <3>1, <3>4, <3>5 DEF Filing
      <4> QED
        BY <4>1, <4>3, <3>1, <3>5 DEF Working
    <3>8. JobHolds(j)'
      BY <3>0, <3>1, <3>2, <3>5, <3>7, StepsIn
    <3>9. ASSUME NEW x \in Import!Batches \ {j} PROVE JobHolds(x)'
      <4>1. x # "none"
        BY DEF JobsAreSorted, Import!Batches
      <4> QED
        BY <4>1, <3>1, <3>2, <3>5, <3>6, OtherJobs
    <3> QED
      BY <3>6, <3>8, <3>9 DEF ImportInv
  <2>5. ASSUME NEW c \in Clerks, NEW j \in Import!Batches, Import!StartRollback(c, j) PROVE ImportInv'
    <3>1. /\ UNCHANGED <<job, templates, documents, planned, cut, stripped, orphaned>>
          /\ job[j].status = "committed"
          /\ tangled' = IF Import!Active(j) # {} THEN tangled \cup {j} ELSE tangled
          /\ parts' = [parts EXCEPT ![j] = [n \in Import!Lines |-> parts[j][n] \ job[j].lists]]
      BY <2>5 DEF Import!StartRollback
    <3>2. work[c].on = "none"
      BY <2>5 DEF Import!StartRollback, Import!NotCalled
    <3>3. PICK at \in {"check", "finish"} :
              /\ at = IF job[j].listed = {} THEN "finish" ELSE "check"
              /\ Import!Goto(c, "rollback", j, at, 0)
      BY <2>5 DEF Import!StartRollback
    <3>4. j # "none" /\ Import!Lines # {} /\ (j \in Workbooks \/ j \in Bundles)
      BY DEF JobsAreSorted, Import!Batches, Import!Lines
    <3>5. /\ CallTypes'
          /\ work'[c].op = "rollback" /\ work'[c].on = j /\ work'[c].at = at /\ work'[c].line = 0
          /\ \A d \in Clerks \ {c} : work'[d] = work[d]
      BY <3>3, <3>4, <2>a
    <3>6. /\ parts' \in [Import!Batches -> [Import!Lines -> SUBSET Clerks]]
          /\ \A n \in Import!Lines : parts'[j][n] = parts[j][n] \ job[j].lists
          /\ \A x \in Import!Batches \ {j} : parts'[x] = parts[x]
      BY <3>1 DEF ImportInv, ImportTypes
    <3>7. ImportTypes'
      BY <3>1, <3>5, <3>6 DEF ImportInv, ImportTypes
    <3>8. Rested(j) => Working(c, j)'
      <4> SUFFICES ASSUME Rested(j) PROVE Working(c, j)'
        OBVIOUS
      <4>1. Filed(j)' /\ (j \in Bundles => templates[j] = {} /\ job[j].listed = {})
        BY <3>1 DEF Rested, Filed, Unpapered, AllPapered
      <4>2. j \in Workbooks => /\ templates[j] = Import!Lines /\ job[j].listed = Import!Lines
                               /\ \E d \in Clerks : job[j].lists = {d}
                               /\ \A n \in Import!Lines : parts'[j][n] = {}
        BY <3>1, <3>6 DEF Rested
      <4>3. RollingBack(c, j)'
        BY <4>1, <4>2, <3>1, <3>3, <3>4, <3>5 DEF RollingBack
      <4> QED
        BY <4>1, <4>3, <3>1, <3>5 DEF Working
    <3>9. JobHolds(j)'
      BY <3>1, <3>2, <3>5, <3>8, StepsIn
    <3>10. ASSUME NEW x \in Import!Batches \ {j} PROVE JobHolds(x)'
      <4>1. x # "none"
        BY DEF JobsAreSorted, Import!Batches
      <4> QED
        BY <4>1, <3>1, <3>2, <3>5, <3>6, <3>7, OtherJobs
    <3> QED
      BY <3>7, <3>9, <3>10 DEF ImportInv
  <2>6. ASSUME NEW c \in Clerks, Import!UpsertTemplate(c) PROVE ImportInv'
    <3>a. PICK j, n : j = work[c].on /\ n = work[c].line
      OBVIOUS
    <3>1. /\ UNCHANGED <<job, documents, planned, cut, stripped, tangled, orphaned>>
          /\ work[c].op = "commit" /\ work[c].at = "upsert"
          /\ templates' = [templates EXCEPT ![j] = @ \cup {n}]
          /\ parts' = [parts EXCEPT ![j][n] = {}]
          /\ Import!Goto(c, "commit", j, "parts", n)
      BY <2>6, <3>a DEF Import!UpsertTemplate, Import!At
    <3>2. j \in Import!Batches /\ j # "none" /\ n \in Import!Lines
      BY <2>b, <3>1, <3>a DEF ImportInv, ImportTypes, CallTypes
    <3>3. /\ CallTypes'
          /\ work'[c].op = "commit" /\ work'[c].on = j /\ work'[c].at = "parts" /\ work'[c].line = n
          /\ \A d \in Clerks \ {c} : work'[d] = work[d]
      BY <3>1, <3>2, <2>a
    <3>4. /\ templates'[j] = templates[j] \cup {n} /\ \A x \in Import!Batches \ {j} : templates'[x] = templates[x]
          /\ templates' \in [Import!Batches -> SUBSET Import!Lines]
          /\ parts'[j][n] = {} /\ \A m \in Import!Lines \ {n} : parts'[j][m] = parts[j][m]
          /\ \A x \in Import!Batches \ {j} : parts'[x] = parts[x]
          /\ parts' \in [Import!Batches -> [Import!Lines -> SUBSET Clerks]]
      BY <3>1, <3>2 DEF ImportInv, ImportTypes
    <3>5. ImportTypes'
      BY <3>1, <3>3, <3>4 DEF ImportInv, ImportTypes
    <3>6. Working(c, j) => Working(c, j)'
      <4> SUFFICES ASSUME Working(c, j) PROVE Working(c, j)'
        OBVIOUS
      <4>1. Committing(c, j) /\ (j \in Bundles => FALSE)
        BY <3>1, <3>2 DEF Working, Committing, JobsAreSorted
      <4>2. Unpapered(j)' /\ Parted(j, n, {c})'
        <5>1. n \in Nat
          BY <3>2 DEF Import!Lines
        <5> QED
          BY <5>1, <4>1, <3>1, <3>4, <3>a DEF Committing, Unpapered, Parted, Import!Lines
      <4>3. Committing(c, j)'
        BY <4>1, <4>2, <3>1, <3>3, <3>4, <3>a, <3>2 DEF Committing
      <4> QED
        BY <4>1, <4>3, <3>3 DEF Working
    <3>7. JobHolds(j)'
      BY <3>1, <3>2, <3>3, <3>6, <3>a, StepsOn
    <3>8. ASSUME NEW x \in Import!Batches \ {j} PROVE JobHolds(x)'
      BY <3>1, <3>2, <3>3, <3>4, <3>5, <3>a, OtherJobs
    <3> QED
      BY <3>5, <3>7, <3>8 DEF ImportInv
  <2>7. ASSUME NEW c \in Clerks, Import!CreateParts(c) PROVE ImportInv'
    <3>a. PICK j, n : j = work[c].on /\ n = work[c].line
      OBVIOUS
    <3>1. /\ UNCHANGED <<job, templates, documents, planned, cut, stripped, tangled, orphaned>>
          /\ work[c].op = "commit" /\ work[c].at = "parts"
          /\ parts' = [parts EXCEPT ![j][n] = @ \cup {c}]
          /\ IF n = LastLine THEN Import!Goto(c, "commit", j, "finish", n)
             ELSE Import!Goto(c, "commit", j, "upsert", n + 1)
      BY <2>7, <3>a DEF Import!CreateParts, Import!At
    <3>2. j \in Import!Batches /\ j # "none" /\ n \in Import!Lines
      BY <2>b, <3>1, <3>a DEF ImportInv, ImportTypes, CallTypes
    <3>b. /\ n # LastLine => n + 1 \in Import!Lines /\ Before(n + 1) = Before(n) \cup {n}
          /\ n = LastLine => Before(n) \cup {n} = Import!Lines
          /\ \A m \in Import!Lines : m < n + 1 <=> m < n \/ m = n
          /\ n = LastLine => \A m \in Import!Lines : m < n \/ m = n
      BY <3>2, LinesBefore
    <3>3. /\ CallTypes'
          /\ work'[c].op = "commit" /\ work'[c].on = j
          /\ IF n = LastLine THEN work'[c].at = "finish" ELSE work'[c].at = "upsert" /\ work'[c].line = n + 1
          /\ \A d \in Clerks \ {c} : work'[d] = work[d]
      <4>1. CASE n = LastLine
        BY <4>1, <3>1, <3>2, <2>a
      <4>2. CASE n # LastLine
        BY <4>2, <3>1, <3>2, <3>b, <2>a
      <4> QED
        BY <4>1, <4>2
    <3>4. /\ parts'[j][n] = parts[j][n] \cup {c} /\ \A m \in Import!Lines \ {n} : parts'[j][m] = parts[j][m]
          /\ \A x \in Import!Batches \ {j} : parts'[x] = parts[x]
          /\ parts' \in [Import!Batches -> [Import!Lines -> SUBSET Clerks]]
      BY <3>1, <3>2 DEF ImportInv, ImportTypes
    <3>5. ImportTypes'
      BY <3>1, <3>3, <3>4 DEF ImportInv, ImportTypes
    <3>6. Working(c, j) => Working(c, j)'
      <4> SUFFICES ASSUME Working(c, j) PROVE Working(c, j)'
        OBVIOUS
      <4>1. Committing(c, j) /\ j \in Workbooks /\ j \notin Bundles
        BY <3>1, <3>2 DEF Working, Committing, JobsAreSorted
      <4>2. /\ templates[j] = Before(n) \cup {n} /\ parts[j][n] = {} /\ Parted(j, n, {c}) /\ Unpapered(j)
            /\ job[j].status = "preview_ready" /\ j \notin stripped
        BY <4>1, <3>1, <3>a DEF Committing
      <4>3. \A m \in Import!Lines : m < n + 1 => parts'[j][m] = {c}
        BY <4>2, <3>b, <3>4 DEF Parted
      <4>4. Unpapered(j)'
        BY <4>2, <3>1 DEF Unpapered
      <4>5. CASE n = LastLine
        <5>1. \A m \in Import!Lines : parts'[j][m] = {c}
          BY <4>3, <4>5, <3>b
        <5>2. Committing(c, j)'
          BY <5>1, <4>1, <4>2, <4>4, <4>5, <3>1, <3>3, <3>b DEF Committing
        <5> QED
          BY <5>2, <4>1, <3>3 DEF Working
      <4>6. CASE n # LastLine
        <5>1. Parted(j, n + 1, {c})'
          BY <4>3 DEF Parted
        <5>2. Committing(c, j)'
          BY <5>1, <4>1, <4>2, <4>4, <4>6, <3>1, <3>3, <3>b DEF Committing
        <5> QED
          BY <5>2, <4>1, <3>3 DEF Working
      <4> QED
        BY <4>5, <4>6
    <3>7. JobHolds(j)'
      BY <3>1, <3>2, <3>3, <3>6, <3>a, StepsOn
    <3>8. ASSUME NEW x \in Import!Batches \ {j} PROVE JobHolds(x)'
      BY <3>1, <3>2, <3>3, <3>4, <3>5, <3>a, OtherJobs
    <3> QED
      BY <3>5, <3>7, <3>8 DEF ImportInv
  <2>c. ASSUME NEW c \in Clerks, work' = [work EXCEPT ![c] = Import!Done]
        PROVE  CallTypes' /\ work'[c].on = "none" /\ \A d \in Clerks \ {c} : work'[d] = work[d]
    <3>1. PICK row : row = Import!Done
      OBVIOUS
    <3>2. row \in ClerkRows /\ row.op = "done" /\ row.on = "none" /\ row.at = "none"
      BY <3>1 DEF Import!Done, ClerkRows
    <3>3. CallTypes /\ work' = [work EXCEPT ![c] = row]
      BY <2>c, <3>1 DEF ImportInv, ImportTypes
    <3>4. work' \in [Clerks -> ClerkRows] /\ work'[c] = row /\ \A d \in Clerks \ {c} : work'[d] = work[d]
      BY <3>2, <3>3 DEF CallTypes
    <3>5. ASSUME NEW d \in Clerks
          PROVE  /\ work'[d].op \in {"commit", "bundle", "rollback"} <=> work'[d].on # "none"
                 /\ work'[d].at \in {"upsert", "parts", "document"} => work'[d].line \in Import!Lines
      <4>1. CASE d = c
        BY <4>1, <3>2, <3>4
      <4>2. CASE d # c
        BY <4>2, <3>3, <3>4 DEF CallTypes
      <4> QED
        BY <4>1, <4>2
    <3> QED
      BY <3>2, <3>4, <3>5 DEF CallTypes
  <2>8. ASSUME NEW c \in Clerks, Import!FinishCommit(c) PROVE ImportInv'
    <3>a. PICK j : j = work[c].on
      OBVIOUS
    <3>b. PICK lines \in {Import!Lines, {}} : lines = IF j \in Workbooks THEN Import!Lines ELSE {}
      OBVIOUS
    <3>1. /\ UNCHANGED <<parts, templates, documents, planned, cut, stripped, tangled, orphaned>>
          /\ work[c].op = "commit" /\ work[c].at = "finish" /\ work' = [work EXCEPT ![c] = Import!Done]
      BY <2>8, <3>a DEF Import!FinishCommit, Import!At
    <3>2. j \in Import!Batches /\ j # "none"
      BY <2>b, <3>1, <3>a
    <3>c. PICK next : /\ next = [status |-> "committed", errors |-> job[j].errors, lists |-> {c}, listed |-> lines]
                      /\ job' = [job EXCEPT ![j] = next]
      BY <2>8, <3>2, <3>a, <3>b DEF Import!FinishCommit, ImportInv, ImportTypes
    <3>3. CallTypes' /\ work'[c].on = "none" /\ \A d \in Clerks \ {c} : work'[d] = work[d]
      BY <3>1, <2>c
    <3>d. job[j].errors \in BOOLEAN
      BY <3>2 DEF ImportInv, ImportTypes
    <3>4. /\ next \in [status : {"none", "preview_ready", "committed", "rolled_back"}, errors : BOOLEAN,
                       lists : SUBSET Clerks, listed : SUBSET Import!Lines]
          /\ next.status = "committed" /\ next.lists = {c} /\ next.listed = lines
      BY <3>c, <3>d, <3>b
    <3>5. /\ ImportTypes' /\ job'[j] = next /\ \A x \in Import!Batches \ {j} : job'[x] = job[x]
      BY <3>1, <3>2, <3>3, <3>4, <3>c DEF ImportInv, ImportTypes
    <3>6. Working(c, j) => Rested(j)'
      <4> SUFFICES ASSUME Working(c, j) PROVE Rested(j)'
        OBVIOUS
      <4>1. /\ Committing(c, j) /\ (j \in Bundles => templates[j] = {} /\ j \notin Workbooks)
        BY <3>1, <3>2 DEF Working, JobsAreSorted
      <4>2. /\ Unpapered(j) /\ j \notin stripped
            /\ j \in Workbooks => templates[j] = Import!Lines /\ \A m \in Import!Lines : parts[j][m] = {c}
        BY <4>1, <3>1 DEF Committing
      <4>3. Unpapered(j)'
        BY <4>2, <3>1 DEF Unpapered
      <4> QED
        BY <4>1, <4>2, <4>3, <3>1, <3>4, <3>5, <3>b DEF Rested, Filed
    <3>7. JobHolds(j)'
      BY <3>1, <3>2, <3>3, <3>6, <3>a, StepsOff
    <3>8. ASSUME NEW x \in Import!Batches \ {j} PROVE JobHolds(x)'
      <4>1. x # "none"
        BY DEF JobsAreSorted, Import!Batches
      <4> QED
        BY <4>1, <3>1, <3>2, <3>3, <3>5, <3>a, OtherJobs
    <3> QED
      BY <3>5, <3>7, <3>8 DEF ImportInv
  <2>9. ASSUME NEW c \in Clerks, Import!CreateDocument(c) PROVE ImportInv'
    <3>a. PICK j, n : j = work[c].on /\ n = work[c].line
      OBVIOUS
    <3>1. /\ UNCHANGED <<job, parts, templates, planned, cut, stripped, tangled, orphaned>>
          /\ work[c].op = "bundle" /\ work[c].at = "document"
          /\ documents' = [documents EXCEPT ![j][n] = @ + 1]
          /\ IF n = LastLine THEN Import!Goto(c, "bundle", j, "finish", n)
             ELSE Import!Goto(c, "bundle", j, "document", n + 1)
      BY <2>9, <3>a DEF Import!CreateDocument, Import!At
    <3>2. j \in Import!Batches /\ j # "none" /\ n \in Import!Lines
      BY <2>b, <3>1, <3>a DEF ImportInv, ImportTypes, CallTypes
    <3>b. /\ n # LastLine => n + 1 \in Import!Lines
          /\ \A m \in Import!Lines : m < n + 1 <=> m < n \/ m = n
          /\ n = LastLine => \A m \in Import!Lines : m < n \/ m = n
          /\ ~(n < n)
      BY <3>2, LinesBefore DEF Import!Lines
    <3>3. /\ CallTypes'
          /\ work'[c].op = "bundle" /\ work'[c].on = j
          /\ IF n = LastLine THEN work'[c].at = "finish" ELSE work'[c].at = "document" /\ work'[c].line = n + 1
          /\ \A d \in Clerks \ {c} : work'[d] = work[d]
      <4>1. CASE n = LastLine
        BY <4>1, <3>1, <3>2, <2>a
      <4>2. CASE n # LastLine
        BY <4>2, <3>1, <3>2, <3>b, <2>a
      <4> QED
        BY <4>1, <4>2
    <3>4. /\ documents'[j][n] = documents[j][n] + 1
          /\ \A m \in Import!Lines \ {n} : documents'[j][m] = documents[j][m]
          /\ \A x \in Import!Batches \ {j} : documents'[x] = documents[x]
          /\ documents' \in [Import!Batches -> [Import!Lines -> Nat]]
      BY <3>1, <3>2 DEF ImportInv, ImportTypes
    <3>5. ImportTypes'
      BY <3>1, <3>3, <3>4 DEF ImportInv, ImportTypes
    <3>6. Working(c, j) => Working(c, j)'
      <4> SUFFICES ASSUME Working(c, j) PROVE Working(c, j)'
        OBVIOUS
      <4>1. /\ job[j].status = "preview_ready" /\ j \notin stripped /\ j \in Bundles /\ Papered(j, n)
            /\ templates[j] = {} /\ job[j].listed = {}
        BY <3>1, <3>a DEF Working, Filing
      <4>2. Papered(j, n + 1)'
        BY <4>1, <3>b, <3>2, <3>4 DEF Papered
      <4>3. n = LastLine => AllPapered(j)'
        BY <4>2, <3>b DEF Papered, AllPapered
      <4>4. Filing(c, j)'
        BY <4>1, <4>2, <4>3, <3>1, <3>3, <3>b DEF Filing
      <4> QED
        BY <4>1, <4>4, <3>1, <3>3 DEF Working
    <3>7. JobHolds(j)'
      BY <3>1, <3>2, <3>3, <3>6, <3>a, StepsOn
    <3>8. ASSUME NEW x \in Import!Batches \ {j} PROVE JobHolds(x)'
      BY <3>1, <3>2, <3>3, <3>4, <3>5, <3>a, OtherJobs
    <3> QED
      BY <3>5, <3>7, <3>8 DEF ImportInv
  <2>d. ASSUME NEW j \in Import!Batches, NEW outcome \in {"committed", "rolled_back"},
               job' = [job EXCEPT ![j].status = outcome]
        PROVE  /\ job' \in [Import!Batches -> [status : {"none", "preview_ready", "committed", "rolled_back"},
                                   errors : BOOLEAN, lists : SUBSET Clerks, listed : SUBSET Import!Lines]]
               /\ job'[j].status = outcome /\ job'[j].listed = job[j].listed
               /\ \A x \in Import!Batches \ {j} : job'[x] = job[x]
    <3>1. PICK next : next = [job[j] EXCEPT !.status = outcome]
      OBVIOUS
    <3>2. job[j] \in [status : {"none", "preview_ready", "committed", "rolled_back"},
                      errors : BOOLEAN, lists : SUBSET Clerks, listed : SUBSET Import!Lines]
      BY DEF ImportInv, ImportTypes
    <3>3. /\ next \in [status : {"none", "preview_ready", "committed", "rolled_back"},
                       errors : BOOLEAN, lists : SUBSET Clerks, listed : SUBSET Import!Lines]
          /\ next.status = outcome /\ next.listed = job[j].listed
      BY <3>1, <3>2
    <3>4. job' = [job EXCEPT ![j] = next]
      BY <2>d, <3>1
    <3> QED
      BY <3>3, <3>4 DEF ImportInv, ImportTypes
  <2>10. ASSUME NEW c \in Clerks, Import!FinishBundle(c) \/ Import!FinishRollback(c) PROVE ImportInv'
    <3>a. PICK j : j = work[c].on
      OBVIOUS
    <3>b. PICK outcome \in {"committed", "rolled_back"} :
              /\ work[c].op = (IF outcome = "committed" THEN "bundle" ELSE "rollback")
              /\ work[c].at = "finish" /\ job' = [job EXCEPT ![j].status = outcome]
      BY <2>10, <3>a DEF Import!FinishBundle, Import!FinishRollback, Import!At
    <3>1. /\ UNCHANGED <<parts, templates, documents, planned, cut, stripped, tangled, orphaned>>
          /\ work' = [work EXCEPT ![c] = Import!Done]
      BY <2>10 DEF Import!FinishBundle, Import!FinishRollback
    <3>2. j \in Import!Batches /\ j # "none"
      BY <2>b, <3>b, <3>a
    <3>3. CallTypes' /\ work'[c].on = "none" /\ \A d \in Clerks \ {c} : work'[d] = work[d]
      BY <3>1, <2>c
    <3>4. /\ job' \in [Import!Batches -> [status : {"none", "preview_ready", "committed", "rolled_back"},
                           errors : BOOLEAN, lists : SUBSET Clerks, listed : SUBSET Import!Lines]]
          /\ job'[j].status = outcome /\ job'[j].listed = job[j].listed
          /\ \A x \in Import!Batches \ {j} : job'[x] = job[x]
      BY <3>2, <3>b, <2>d
    <3>5. ImportTypes'
      BY <3>1, <3>3, <3>4 DEF ImportInv, ImportTypes
    <3>6. Working(c, j) => Rested(j)'
      <4> SUFFICES ASSUME Working(c, j) PROVE Rested(j)'
        OBVIOUS
      <4>1. CASE outcome = "committed"
        <5>1. j \in Bundles /\ AllPapered(j) /\ templates[j] = {} /\ job[j].listed = {} /\ j \notin Workbooks
          BY <4>1, <3>b DEF Working, Filing, JobsAreSorted
        <5>2. Filed(j)'
          BY <5>1, <3>1 DEF Filed, AllPapered
        <5> QED
          BY <5>1, <5>2, <4>1, <3>1, <3>4 DEF Rested
      <4>2. CASE outcome = "rolled_back"
        <5>1. Filed(j) /\ templates[j] = {} /\ (j \in Bundles => job[j].listed = {})
          BY <4>2, <3>b DEF Working, RollingBack
        <5>2. Filed(j)'
          BY <5>1, <3>1 DEF Filed, AllPapered, Unpapered
        <5> QED
          BY <5>1, <5>2, <4>2, <3>1, <3>4 DEF Rested
      <4> QED
        BY <4>1, <4>2
    <3>7. JobHolds(j)'
      BY <3>1, <3>2, <3>3, <3>6, <3>a, StepsOff
    <3>8. ASSUME NEW x \in Import!Batches \ {j} PROVE JobHolds(x)'
      <4>1. x # "none"
        BY DEF JobsAreSorted, Import!Batches
      <4> QED
        BY <4>1, <3>1, <3>2, <3>3, <3>4, <3>5, <3>a, OtherJobs
    <3> QED
      BY <3>5, <3>7, <3>8 DEF ImportInv
  <2>11. ASSUME NEW c \in Clerks, Import!CheckPlanItems(c) PROVE ImportInv'
    <3>a. PICK j : j = work[c].on
      OBVIOUS
    <3>1. /\ UNCHANGED <<job, parts, templates, documents, planned, cut, tangled, orphaned>>
          /\ work[c].op = "rollback" /\ work[c].at = "check"
          /\ IF Import!Blocked(j)
             THEN stripped' = stripped \cup {j} /\ work' = [work EXCEPT ![c] = Import!Done]
             ELSE Import!Goto(c, "rollback", j, "delete", 0) /\ stripped' = stripped
      BY <2>11, <3>a DEF Import!CheckPlanItems, Import!At
    <3>2. j \in Import!Batches /\ j # "none"
      BY <2>b, <3>1, <3>a
    <3>b. ASSUME Working(c, j)
          PROVE  /\ j \in Workbooks /\ j \notin Bundles /\ job[j].status = "committed" /\ Filed(j)'
                 /\ templates[j] = Import!Lines /\ job[j].listed = Import!Lines
                 /\ \E d \in Clerks : job[j].lists = {d}
                 /\ \A m \in Import!Lines : parts[j][m] = {}
      BY <3>1, <3>b DEF Working, RollingBack, JobsAreSorted, Filed, Unpapered, AllPapered
    <3>4. CASE Import!Blocked(j)
      <4>1. CallTypes' /\ work'[c].on = "none" /\ \A d \in Clerks \ {c} : work'[d] = work[d]
        BY <3>4, <3>1, <2>c
      <4>2. ImportTypes'
        BY <4>1, <3>1 DEF ImportInv, ImportTypes
      <4>3. Working(c, j) => Rested(j)'
        BY <3>b, <3>1, <3>4 DEF Rested
      <4>4. JobHolds(j)'
        BY <3>1, <3>2, <4>1, <4>3, <3>a, StepsOff
      <4>5. ASSUME NEW x \in Import!Batches \ {j} PROVE JobHolds(x)'
        <5>1. x # "none" /\ (x \in stripped' <=> x \in stripped)
          BY <3>1, <3>4 DEF JobsAreSorted, Import!Batches
        <5> QED
          BY <5>1, <3>1, <3>2, <4>1, <4>2, <3>a, OtherJobs
      <4> QED
        BY <4>2, <4>4, <4>5 DEF ImportInv
    <3>5. CASE ~Import!Blocked(j)
      <4>1. /\ CallTypes' /\ work'[c].op = "rollback" /\ work'[c].on = j /\ work'[c].at = "delete"
            /\ \A d \in Clerks \ {c} : work'[d] = work[d]
        BY <3>5, <3>1, <3>2, <2>a
      <4>2. ImportTypes'
        BY <4>1, <3>1, <3>5 DEF ImportInv, ImportTypes
      <4>3. Working(c, j) => Working(c, j)'
        <5> SUFFICES ASSUME Working(c, j) PROVE Working(c, j)'
          OBVIOUS
        <5>1. ASSUME NEW x \in planned PROVE x[1] # j
          <6>1. PICK k \in Workbooks, n \in Import!Lines : x = <<k, n>>
            BY <5>1 DEF ImportInv, ImportTypes
          <6>2. <<j, n>> \notin planned
            BY <3>5, <3>b DEF Import!Blocked
          <6> QED
            BY <6>1, <6>2
        <5>2. RollingBack(c, j)'
          BY <5>1, <4>1, <3>b, <3>1, <3>5 DEF RollingBack
        <5> QED
          BY <5>2, <4>1, <3>b DEF Working
      <4>4. JobHolds(j)'
        BY <3>1, <3>2, <4>1, <4>3, <3>a, StepsOn
      <4>5. ASSUME NEW x \in Import!Batches \ {j} PROVE JobHolds(x)'
        BY <3>1, <3>2, <3>5, <4>1, <4>2, <3>a, OtherJobs
      <4> QED
        BY <4>2, <4>4, <4>5 DEF ImportInv
    <3> QED
      BY <3>4, <3>5
  <2>12. ASSUME NEW c \in Clerks, Import!DeleteTemplates(c) PROVE ImportInv'
    <3>a. PICK j : j = work[c].on
      OBVIOUS
    <3>1. /\ UNCHANGED <<job, documents, cut, stripped, tangled>>
          /\ work[c].op = "rollback" /\ work[c].at = "delete"
          /\ templates' = [templates EXCEPT ![j] = @ \ job[j].listed]
          /\ parts' = [parts EXCEPT ![j] = [n \in Import!Lines |-> {}]]
          /\ orphaned' = IF \E x \in planned : x[1] = j THEN orphaned \cup {j} ELSE orphaned
          /\ planned' = {x \in planned : x[1] # j}
          /\ Import!Goto(c, "rollback", j, "finish", 0)
      BY <2>12, <3>a DEF Import!DeleteTemplates, Import!At
    <3>2. j \in Import!Batches /\ j # "none"
      BY <2>b, <3>1, <3>a
    <3>3. /\ CallTypes' /\ work'[c].op = "rollback" /\ work'[c].on = j /\ work'[c].at = "finish"
          /\ \A d \in Clerks \ {c} : work'[d] = work[d]
      BY <3>1, <3>2, <2>a
    <3>4. /\ templates'[j] = templates[j] \ job[j].listed
          /\ \A x \in Import!Batches \ {j} : templates'[x] = templates[x] /\ parts'[x] = parts[x]
          /\ templates' \in [Import!Batches -> SUBSET Import!Lines]
          /\ parts' \in [Import!Batches -> [Import!Lines -> SUBSET Clerks]]
      BY <3>1, <3>2 DEF ImportInv, ImportTypes
    <3>5. ImportTypes'
      BY <3>1, <3>3, <3>4 DEF ImportInv, ImportTypes
    <3>6. j \notin orphaned /\ Working(c, j) => Working(c, j)' /\ j \notin orphaned'
      <4> SUFFICES ASSUME j \notin orphaned, Working(c, j) PROVE Working(c, j)' /\ j \notin orphaned'
        OBVIOUS
      <4>1. /\ job[j].status = "committed" /\ Filed(j) /\ \A x \in planned : x[1] # j
            /\ templates[j] = Import!Lines /\ job[j].listed = Import!Lines /\ j \in Workbooks /\ j \notin Bundles
        BY <3>1 DEF Working, RollingBack, JobsAreSorted
      <4>2. Filed(j)' /\ templates'[j] = {}
        BY <4>1, <3>1, <3>4 DEF Filed, Unpapered, AllPapered
      <4>3. RollingBack(c, j)'
        BY <4>1, <4>2, <3>1, <3>3 DEF RollingBack
      <4> QED
        BY <4>1, <4>3, <3>1, <3>3 DEF Working
    <3>7. JobHolds(j)'
      BY <3>1, <3>2, <3>3, <3>6, <3>a, StepsOn
    <3>8. ASSUME NEW x \in Import!Batches \ {j} PROVE JobHolds(x)'
      BY <3>1, <3>2, <3>3, <3>4, <3>5, <3>a, OtherJobs
    <3> QED
      BY <3>5, <3>7, <3>8 DEF ImportInv
  <2>13. ASSUME NEW c \in Clerks, Import!Throw(c) PROVE ImportInv'
    <3>a. PICK j : j = work[c].on
      OBVIOUS
    <3>1. /\ UNCHANGED <<job, parts, templates, documents, planned, stripped, tangled, orphaned>>
          /\ j # "none" /\ cut' = cut \cup {j} /\ work' = [work EXCEPT ![c] = Import!Done]
      BY <2>13, <3>a DEF Import!Throw
    <3>2. j \in Import!Batches
      BY <3>1, <3>a DEF ImportInv, ImportTypes, CallTypes, ClerkRows
    <3>3. CallTypes' /\ work'[c].on = "none" /\ \A d \in Clerks \ {c} : work'[d] = work[d]
      BY <3>1, <2>c
    <3>4. ImportTypes'
      BY <3>1, <3>3 DEF ImportInv, ImportTypes
    <3>5. JobHolds(j)'
      BY <3>1 DEF JobHolds
    <3>6. ASSUME NEW x \in Import!Batches \ {j} PROVE JobHolds(x)'
      <4>1. x # "none"
        BY DEF JobsAreSorted, Import!Batches
      <4> QED
        BY <4>1, <3>1, <3>2, <3>3, <3>4, <3>a, OtherJobs
    <3> QED
      BY <3>4, <3>5, <3>6 DEF ImportInv
  <2>14. CASE UNCHANGED Import!vars
    <3>1. ImportTypes'
      BY <2>14 DEF Import!vars, ImportInv, ImportTypes, CallTypes
    <3> QED
      BY <2>14, <3>1, OtherJobs DEF Import!vars, ImportInv
  <2>15. ASSUME Import!Next PROVE ImportInv'
    BY <2>1, <2>2, <2>3, <2>4, <2>5, <2>6, <2>7, <2>8, <2>9, <2>10, <2>11, <2>12, <2>13, <2>15
    DEF Import!Next
  <2> QED
    BY <1>2, <2>14, <2>15
<1>3. ImportInv => Import!ImportIsWhole
  <2> SUFFICES ASSUME ImportInv, NEW j \in Import!Batches, Import!Calm(j)
               PROVE  /\ job[j].status = "committed" /\ j \in Workbooks =>
                             /\ templates[j] = Import!Lines
                             /\ \A n \in Import!Lines :
                                    Cardinality(parts[j][n]) = IF j \in stripped THEN 0 ELSE 1
                      /\ job[j].status \in {"none", "preview_ready", "rolled_back"} => templates[j] = {}
                      /\ j \notin orphaned
                      /\ job[j].status \in {"committed", "rolled_back"} =>
                             \/ \A n \in Import!Lines : documents[j][n] = 0
                             \/ \A n \in Import!Lines : documents[j][n] = 1
    BY CardinalityOfImports DEF Import!ImportIsWhole
  <2>1. Rested(j) /\ j \notin orphaned
    BY DEF ImportInv, JobHolds, Import!Calm
  <2>2. Cardinality({}) = 0 /\ \A c : Cardinality({c}) = 1
    BY FS_EmptySet, FS_Singleton
  <2>3. job[j].status = "committed" /\ j \in Workbooks =>
            \A n \in Import!Lines : Cardinality(parts[j][n]) = IF j \in stripped THEN 0 ELSE 1
    BY <2>1, <2>2 DEF Rested
  <2> QED
    BY <2>1, <2>3 DEF Rested, Filed, Unpapered, AllPapered
<1> QED
  BY <1>1, <1>2, <1>3

\* imports.service.ts:119-280, for any number of jobs, lines and calls: with no overlapping and no
\* failing call, a committed workbook has one set of parts on every template unless a refused
\* rollback stripped them, one that was rolled back has left nothing and taken no plan item along,
\* and a bundle has each of its documents once or none at all.
THEOREM ImportCorrect ==
    ASSUME JobsAreSorted
    PROVE  Import!Spec => []Import!ImportIsWhole
BY ImportInductive, PTL DEF Import!Spec
-----------------------------------------------------------------------------
(* Rounds: every waypoint that was asked for *)

On(t) == {w \in Walkers : walk[w].on = t}
Left(w) == Len(walk[w].plan)

\* The waypoints of a round and what its calls have left add up to what was asked for: a call has
\* one left, but for the one that made the round.
Counted(t) ==
    /\ (\A w \in On(t) : Left(w) = 1) => Cardinality(tour[t].orders) + Cardinality(On(t)) = asked[t]
    /\ \A w \in On(t) : Left(w) > 1 =>
           /\ \A x \in On(t) \ {w} : Left(x) = 1
           /\ Cardinality(tour[t].orders) + Cardinality(On(t)) + Left(w) - 1 = asked[t]

RoundInv ==
    /\ tour \in [Tours -> [there : BOOLEAN, orders : SUBSET Int]]
    /\ \A t \in Tours : IsFiniteSet(tour[t].orders)
    /\ walk \in [Walkers -> [on : Tours \cup {"none"}, plan : Seq(Int), n : Int]]
    /\ \A w \in Walkers : walk[w].on # "none" => Left(w) > 0
    /\ asked \in [Tours -> Int]
    /\ \A t \in Tours \ halted : tour[t].there => Counted(t)

\* A finite set of numbers has a greatest: the one with the fewest above it.
LEMMA HasGreatest ==
    ASSUME NEW S \in SUBSET Int, IsFiniteSet(S), S # {}
    PROVE  \E o \in S : \A p \in S : p <= o
<1> DEFINE Above(o) == {p \in S : p > o}
           Counts == {Cardinality(Above(o)) : o \in S}
<1>1. \A o \in S : IsFiniteSet(Above(o)) /\ Cardinality(Above(o)) \in Nat
  BY FS_Subset, FS_CardinalityType
<1>2. Counts \subseteq Nat /\ Counts # {}
  BY <1>1
<1>3. IsWellFoundedOn(OpToRel(<, Nat), Nat)
  BY NatLessThanWellFounded
<1>4. PICK n \in Counts : \A m \in Counts : ~(<<m, n>> \in OpToRel(<, Nat))
  <2> HIDE DEF Counts
  <2> QED
    BY <1>2, <1>3, WFMin
<1>5. \A m \in Counts : ~(m < n)
  BY <1>2, <1>4 DEF OpToRel
<1>6. PICK o \in S : n = Cardinality(Above(o))
  OBVIOUS
<1>7. ASSUME NEW p \in S, p > o PROVE FALSE
  <2>1. Above(p) \subseteq Above(o) /\ p \in Above(o) /\ p \notin Above(p)
    <3>1. p \in Int /\ o \in Int /\ \A q \in S : q \in Int
      OBVIOUS
    <3>2. p > o
      BY <1>7
    <3>3. \A q \in S : q > p => q > o
      BY <3>1, <3>2
    <3>4. ~(p > p)
      BY <3>1
    <3> QED
      BY <3>2, <3>3, <3>4
  <2>2. Cardinality(Above(p)) < Cardinality(Above(o))
    <3>1. Above(p) \in SUBSET Above(o) /\ Above(p) # Above(o)
      BY <2>1
    <3>2. IsFiniteSet(Above(o)) /\ Cardinality(Above(p)) \in Nat /\ Cardinality(Above(o)) \in Nat
      BY <1>1
    <3> HIDE DEF Above
    <3>3. Cardinality(Above(p)) <= Cardinality(Above(o)) /\ Cardinality(Above(p)) # Cardinality(Above(o))
      BY <3>1, <3>2, FS_Subset
    <3> QED
      BY <3>2, <3>3
  <2> QED
    BY <2>2, <1>5, <1>6
<1> QED
  BY <1>7
LEMMA OnFacts ==
    ASSUME ToursAreWalked, NEW t
    PROVE  IsFiniteSet(On(t)) /\ Cardinality(On(t)) \in Nat
BY FS_Subset, FS_CardinalityType DEF ToursAreWalked, On

\* A step on the round t leaves the others as they were.
LEMMA OtherTours ==
    ASSUME RoundInv, NEW t \in Tours, NEW r \in Tours \ {t},
           tour'[r] = tour[r], asked'[r] = asked[r], r \notin halted' => r \notin halted,
           On(r)' = On(r), \A w \in On(r) : walk'[w] = walk[w], r \notin halted', tour'[r].there
    PROVE  Counted(r)'
<1>1. Counted(r)
  BY DEF RoundInv
<1> QED
  BY <1>1 DEF Counted, Left

LEMMA CreateRoundStep ==
    ASSUME ToursAreWalked, RoundInv, NEW w \in Walkers, NEW t \in Tours, NEW plan \in Plans,
           Duty!CreateRound(w, t, plan)
    PROVE  RoundInv'
<1>1. PICK next : next = IF plan = <<>> THEN Duty!Resting ELSE [on |-> t, plan |-> plan, n |-> 1]
  OBVIOUS
<1>2. /\ tour' = [tour EXCEPT ![t].there = TRUE] /\ walk' = [walk EXCEPT ![w] = next]
      /\ asked' = [asked EXCEPT ![t] = Len(plan)] /\ halted' = halted \ {t}
      /\ tour[t] = Duty!NoTour /\ \A x \in Walkers : walk[x].on # t
      /\ walk[w] = Duty!Resting
  BY <1>1 DEF Duty!CreateRound
<1>3. plan \in Seq(Nat) /\ Len(plan) \in Nat
  BY DEF ToursAreWalked
<1>4. /\ next.on = IF plan = <<>> THEN "none" ELSE t
      /\ plan # <<>> => next.plan = plan
      /\ next \in [on : Tours \cup {"none"}, plan : Seq(Int), n : Int]
  BY <1>1, <1>3 DEF Duty!Resting
<1>5. /\ walk'[w] = next /\ \A x \in Walkers \ {w} : walk'[x] = walk[x]
      /\ walk' \in [Walkers -> [on : Tours \cup {"none"}, plan : Seq(Int), n : Int]]
  BY <1>2, <1>4 DEF RoundInv
<1>6. /\ tour'[t].orders = {} /\ \A r \in Tours \ {t} : tour'[r] = tour[r]
      /\ tour' \in [Tours -> [there : BOOLEAN, orders : SUBSET Int]]
  <2>1. tour[t].orders = {}
    BY <1>2 DEF Duty!NoTour
  <2> QED
    BY <2>1, <1>2 DEF RoundInv
<1>7. /\ asked'[t] = Len(plan) /\ \A r \in Tours \ {t} : asked'[r] = asked[r]
      /\ asked' \in [Tours -> Int]
  BY <1>2, <1>3 DEF RoundInv
<1>8. On(t)' = IF plan = <<>> THEN {} ELSE {w}
  BY <1>2, <1>4, <1>5 DEF On, ToursAreWalked
<1>9. walk[w].on = "none"
  BY <1>2 DEF Duty!Resting
<1>10. ASSUME NEW r \in Tours \ {t} PROVE On(r)' = On(r) /\ \A x \in On(r) : walk'[x] = walk[x]
  BY <1>4, <1>5, <1>9 DEF On, ToursAreWalked
<1>11. Counted(t)'
  <2>1. Cardinality({}) = 0 /\ Cardinality({w}) = 1
    BY FS_EmptySet, FS_Singleton
  <2>2. CASE plan = <<>>
    <3>1. Len(plan) = 0
      BY <2>2
    <3> QED
      BY <2>1, <2>2, <3>1, <1>6, <1>7, <1>8 DEF Counted
  <2>3. CASE plan # <<>>
    <3>1. On(t)' = {w} /\ walk'[w].plan = plan
      BY <2>3, <1>4, <1>5, <1>8
    <3>2. Left(w)' = Len(plan) /\ Left(w)' > 0
      BY <2>3, <3>1, <1>3 DEF Left
    <3>3. Cardinality(tour'[t].orders) = 0 /\ Cardinality(On(t)') = 1 /\ asked'[t] = Len(plan)
      BY <2>1, <3>1, <1>6, <1>7
    <3> QED
      BY <3>1, <3>2, <3>3, <1>3 DEF Counted
  <2> QED
    BY <2>2, <2>3
<1>12. /\ \A r \in Tours : IsFiniteSet(tour'[r].orders)
       /\ \A x \in Walkers : walk'[x].on # "none" => Left(x)' > 0
  <2>1. IsFiniteSet({})
    BY FS_EmptySet
  <2>2. plan # <<>> => Len(plan) > 0
    BY <1>3
  <2> QED
    BY <2>1, <2>2, <1>4, <1>5, <1>6 DEF RoundInv, Left
<1>13. ASSUME NEW r \in Tours \ halted', tour'[r].there PROVE Counted(r)'
  <2>1. CASE r # t
    BY <2>1, <1>2, <1>6, <1>7, <1>10, <1>13, OtherTours
  <2> QED
    BY <2>1, <1>11
<1> QED
  BY <1>5, <1>6, <1>7, <1>12, <1>13 DEF RoundInv

\* A call that ends before its last waypoint
LEMMA HaltStep ==
    ASSUME ToursAreWalked, RoundInv, NEW w \in Walkers, NEW t \in Tours, walk[w].on = t,
           Duty!Halt(w, t)
    PROVE  RoundInv'
<1>0. /\ halted' = halted \cup {t} /\ walk' = [walk EXCEPT ![w] = Duty!Resting]
      /\ asked' = [asked EXCEPT ![t] = 0] /\ tour' = tour
  BY DEF Duty!Halt
<1>1. /\ walk'[w].on = "none" /\ \A x \in Walkers \ {w} : walk'[x] = walk[x]
      /\ walk' \in [Walkers -> [on : Tours \cup {"none"}, plan : Seq(Int), n : Int]]
  BY <1>0 DEF RoundInv, Duty!Resting
<1>2. ASSUME NEW r \in Tours \ {t} PROVE On(r)' = On(r) /\ \A x \in On(r) : walk'[x] = walk[x]
  BY <1>1 DEF On, ToursAreWalked
<1>3. ASSUME NEW r \in Tours \ halted', tour'[r].there PROVE Counted(r)'
  BY <1>0, <1>2, <1>3, OtherTours DEF RoundInv
<1> QED
  BY <1>0, <1>1, <1>3 DEF RoundInv, Left

\* A waypoint of a round is written.
LEMMA WrittenStep ==
    ASSUME ToursAreWalked, RoundInv, NEW w \in Walkers, NEW t \in Tours, walk[w].on = t,
           NEW wanted \in Int, tour[t].there, wanted \notin tour[t].orders,
           tour' = [tour EXCEPT ![t].orders = @ \cup {wanted}], UNCHANGED <<asked, halted>>,
           NEW n \in Int,
           walk' = [walk EXCEPT ![w] = IF Left(w) = 1 THEN Duty!Resting
                                       ELSE [on |-> t, plan |-> Tail(walk[w].plan), n |-> n]]
    PROVE  RoundInv'
<1>1. PICK plan \in Seq(Int) : plan = walk[w].plan
  BY DEF RoundInv
<1>2. /\ Left(w) = Len(plan) /\ Left(w) \in Nat \ {0} /\ plan # <<>>
      /\ Tail(plan) \in Seq(Int) /\ Len(Tail(plan)) = Left(w) - 1
  <2>1. Left(w) = Len(plan) /\ Len(plan) > 0
    BY <1>1 DEF RoundInv, Left, ToursAreWalked
  <2>2. plan # <<>>
    BY <2>1
  <2>3. Len(plan) \in Nat /\ Tail(plan) \in Seq(Int) /\ Len(Tail(plan)) = Len(plan) - 1
    BY <2>2, HeadTailProperties
  <2> QED
    BY <2>1, <2>2, <2>3
<1>3. PICK next : next = IF Left(w) = 1 THEN Duty!Resting ELSE [on |-> t, plan |-> Tail(plan), n |-> n]
  OBVIOUS
<1>4. /\ next.on = IF Left(w) = 1 THEN "none" ELSE t
      /\ Left(w) # 1 => next.plan = Tail(plan)
      /\ next \in [on : Tours \cup {"none"}, plan : Seq(Int), n : Int]
  <2>1. CASE Left(w) = 1
    BY <2>1, <1>3 DEF Duty!Resting
  <2>2. CASE Left(w) # 1
    BY <2>2, <1>2, <1>3
  <2> QED
    BY <2>1, <2>2
<1>5. walk'[w] = next /\ \A x \in Walkers \ {w} : walk'[x] = walk[x]
  BY <1>1, <1>3 DEF RoundInv
<1>6. /\ walk' \in [Walkers -> [on : Tours \cup {"none"}, plan : Seq(Int), n : Int]]
      /\ \A x \in Walkers \ {w} : Left(x)' = Left(x) /\ Left(x) \in Nat
      /\ Left(w) # 1 => Left(w)' = Left(w) - 1
  <2>1. walk' = [walk EXCEPT ![w] = next]
    BY <1>1, <1>3
  <2>2. walk' \in [Walkers -> [on : Tours \cup {"none"}, plan : Seq(Int), n : Int]]
    BY <2>1, <1>4 DEF RoundInv
  <2>3. \A x \in Walkers \ {w} : Left(x)' = Left(x) /\ Left(x) \in Nat
    BY <1>5 DEF Left, RoundInv
  <2>4. Left(w) # 1 => Left(w)' = Len(Tail(plan))
    BY <1>4, <1>5 DEF Left
  <2> QED
    BY <2>2, <2>3, <2>4, <1>2
<1>7. PICK c \in Nat : c = Cardinality(tour[t].orders)
  BY FS_CardinalityType DEF RoundInv
<1>8. /\ IsFiniteSet(tour'[t].orders) /\ Cardinality(tour'[t].orders) = c + 1
      /\ \A r \in Tours \ {t} : tour'[r] = tour[r]
      /\ tour' \in [Tours -> [there : BOOLEAN, orders : SUBSET Int]]
  <2>1. /\ tour'[t].orders = tour[t].orders \cup {wanted} /\ \A r \in Tours \ {t} : tour'[r] = tour[r]
        /\ tour' \in [Tours -> [there : BOOLEAN, orders : SUBSET Int]]
    <3>1. PICK row : row = [tour[t] EXCEPT !.orders = tour[t].orders \cup {wanted}]
      OBVIOUS
    <3>2. tour \in [Tours -> [there : BOOLEAN, orders : SUBSET Int]] /\ wanted \in Int
      BY DEF RoundInv
    <3>3. row \in [there : BOOLEAN, orders : SUBSET Int] /\ row.orders = tour[t].orders \cup {wanted}
      BY <3>1, <3>2
    <3>4. tour' = [tour EXCEPT ![t] = row]
      BY <3>1
    <3> QED
      BY <3>2, <3>3, <3>4
  <2>2. IsFiniteSet(tour[t].orders)
    BY DEF RoundInv
  <2>3. /\ IsFiniteSet(tour[t].orders \cup {wanted})
        /\ Cardinality(tour[t].orders \cup {wanted}) = Cardinality(tour[t].orders) + 1
    BY <2>2, FS_AddElement
  <2> QED
    BY <2>1, <2>3, <1>7
<1>9. PICK k \in Nat : k = Cardinality(On(t))
  BY OnFacts
<1>10. w \in On(t) /\ Cardinality(On(t) \ {w}) = k - 1
  <2>1. w \in On(t)
    BY DEF On
  <2>2. IsFiniteSet(On(t))
    BY OnFacts
  <2>3. Cardinality(On(t) \ {w}) = Cardinality(On(t)) - 1
    BY <2>1, <2>2, FS_RemoveElement
  <2> QED
    BY <2>1, <2>3, <1>9
<1>11. ASSUME NEW r \in Tours \ {t} PROVE On(r)' = On(r) /\ \A x \in On(r) : walk'[x] = walk[x]
  BY <1>4, <1>5 DEF On, ToursAreWalked
<1>12. On(t)' = IF Left(w) = 1 THEN On(t) \ {w} ELSE On(t)
  BY <1>4, <1>5, <1>10 DEF On, ToursAreWalked
<1>13. ASSUME t \notin halted PROVE Counted(t)'
  <2>1. /\ (\A x \in On(t) : Left(x) = 1) => c + k = asked[t]
        /\ \A y \in On(t) : Left(y) > 1 =>
               /\ \A x \in On(t) \ {y} : Left(x) = 1
               /\ c + k + Left(y) - 1 = asked[t]
    BY <1>13, <1>7, <1>9 DEF RoundInv, Counted
  <2>2. asked'[t] = asked[t] /\ asked[t] \in Int
    BY DEF RoundInv
  <2>3. \A x \in On(t) \ {w} : Left(x)' = Left(x) /\ Left(x) \in Nat
    BY <1>6 DEF On
  <2>4. CASE Left(w) = 1
    <3>1. On(t)' = On(t) \ {w} /\ Cardinality(On(t)') = k - 1
      BY <2>4, <1>10, <1>12
    <3>2. (\A x \in On(t)' : Left(x)' = 1) => Cardinality(tour'[t].orders) + Cardinality(On(t)') = asked'[t]
      BY <3>1, <2>1, <2>2, <2>3, <2>4, <1>8
    <3>3. ASSUME NEW y \in On(t)', Left(y)' > 1
          PROVE  /\ \A x \in On(t)' \ {y} : Left(x)' = 1
                 /\ Cardinality(tour'[t].orders) + Cardinality(On(t)') + Left(y)' - 1 = asked'[t]
      <4>1. y \in On(t) /\ Left(y)' = Left(y) /\ Left(y) \in Nat
        BY <3>1, <3>3, <2>3
      <4> QED
        BY <4>1, <3>1, <3>3, <2>1, <2>2, <2>3, <1>7, <1>8, <1>9
    <3> QED
      BY <3>2, <3>3 DEF Counted
  <2>5. CASE Left(w) # 1
    <3>1. On(t)' = On(t) /\ Cardinality(On(t)') = k /\ Left(w)' = Left(w) - 1 /\ Left(w) > 1
      BY <2>5, <1>2, <1>6, <1>9, <1>12
    <3>2. /\ \A x \in On(t)' \ {w} : Left(x)' = 1
          /\ Cardinality(tour'[t].orders) + Cardinality(On(t)') + Left(w)' - 1 = asked'[t]
      <4>1. (\A x \in On(t) \ {w} : Left(x) = 1) /\ c + k + Left(w) - 1 = asked[t]
        BY <3>1, <2>1, <1>10
      <4>2. PICK l \in Nat : l = Left(w)
        BY <1>2
      <4>3. (c + 1) + k + (l - 1) - 1 = asked[t]
        BY <4>1, <4>2, <2>2, <1>7, <1>9
      <4> QED
        BY <4>1, <4>2, <4>3, <3>1, <2>2, <2>3, <1>8
    <3>3. Cardinality(tour'[t].orders) + Cardinality(On(t)') + Left(w)' - 1 = asked'[t] /\ Left(w)' = 1
          => Cardinality(tour'[t].orders) + Cardinality(On(t)') = asked'[t]
      BY <3>1, <1>8
    <3>4. \A x \in On(t)' : Left(x)' > 1 => x = w
      BY <3>2
    <3>5. w \in On(t)'
      BY <3>1, <1>10
    <3> QED
      BY <3>2, <3>3, <3>4, <3>5 DEF Counted
  <2> QED
    BY <2>4, <2>5
<1>14. ASSUME NEW r \in Tours \ halted', tour'[r].there PROVE Counted(r)'
  <2>1. CASE r # t
    <3>1. On(r)' = On(r) /\ \A x \in On(r) : walk'[x] = walk[x]
      BY <2>1, <1>11
    <3> QED
      BY <2>1, <3>1, <1>8, <1>14, OtherTours DEF RoundInv
  <2> QED
    BY <2>1, <1>13, <1>14
<1>15. \A x \in Walkers : walk'[x].on # "none" => Left(x)' > 0
  <2>1. \A x \in Walkers \ {w} : walk'[x].on # "none" => Left(x) > 0
    BY <1>5 DEF RoundInv
  <2>2. walk'[w].on # "none" => Left(w) # 1
    BY <1>4, <1>5
  <2> QED
    BY <2>1, <2>2, <1>2, <1>6
<1>16. \A r \in Tours : IsFiniteSet(tour'[r].orders)
  BY <1>8 DEF RoundInv
<1> QED
  BY <1>6, <1>8, <1>14, <1>15, <1>16 DEF RoundInv

LEMMA WriteWaypointStep ==
    ASSUME ToursAreWalked, RoundInv, NEW w \in Walkers, Duty!WriteWaypoint(w)
    PROVE  RoundInv'
<1>1. PICK t \in Tours : t = walk[w].on
  BY DEF RoundInv, Duty!WriteWaypoint
<1>2. PICK given \in Int : given = Head(walk[w].plan)
  <2>1. walk[w].plan \in Seq(Int) /\ Len(walk[w].plan) > 0
    BY <1>1 DEF RoundInv, Left, ToursAreWalked
  <2>2. walk[w].plan # <<>>
    BY <2>1
  <2> QED
    BY <2>1, <2>2, HeadTailProperties
<1>3. PICK wanted \in Int : wanted = IF given = 0 THEN walk[w].n ELSE given
  BY DEF RoundInv
<1>4. PICK n \in Int : n = IF given = 0 THEN walk[w].n + 1 ELSE walk[w].n
  BY DEF RoundInv
<1>5. CASE Duty!Repeats(t, wanted)
  <2>1. Duty!Halt(w, t)
    BY <1>1, <1>2, <1>3, <1>5 DEF Duty!WriteWaypoint
  <2> QED
    BY <2>1, <1>1, HaltStep
<1>6. CASE ~Duty!Repeats(t, wanted)
  <2>1. /\ tour' = [tour EXCEPT ![t].orders = @ \cup {wanted}] /\ UNCHANGED <<asked, halted>>
        /\ walk' = [walk EXCEPT ![w] = IF Left(w) = 1 THEN Duty!Resting
                                       ELSE [on |-> t, plan |-> Tail(walk[w].plan), n |-> n]]
    BY <1>1, <1>2, <1>3, <1>4, <1>6 DEF Duty!WriteWaypoint, Left
  <2>2. tour[t].there /\ wanted \notin tour[t].orders
    BY <1>6 DEF Duty!Repeats, RoundInv
  <2> QED
    BY <2>1, <2>2, <1>1, WrittenStep
<1> QED
  BY <1>5, <1>6

\* addWaypoint, up to its insert
LEMMA AddWaypointStep ==
    ASSUME ToursAreWalked, RoundInv, NEW w \in Walkers, NEW t \in Tours, NEW wanted \in Int,
           Duty!AddWaypoint(w, t, wanted)
    PROVE  RoundInv'
<1>1. walk' = [walk EXCEPT ![w] = [on |-> t, plan |-> <<wanted>>, n |-> 1]]
  BY DEF Duty!AddWaypoint
<1>2. /\ walk[w] = Duty!Resting /\ tour' = tour /\ halted' = halted
      /\ asked' = IF t \in halted THEN asked ELSE [asked EXCEPT ![t] = @ + 1]
  BY DEF Duty!AddWaypoint
<1>4. PICK next : next = [on |-> t, plan |-> <<wanted>>, n |-> 1]
  OBVIOUS
<1>5. /\ next.on = t /\ Len(next.plan) = 1
      /\ next \in [on : Tours \cup {"none"}, plan : Seq(Int), n : Int]
  BY <1>4
<1>6. /\ walk'[w] = next /\ \A x \in Walkers \ {w} : walk'[x] = walk[x]
      /\ walk' \in [Walkers -> [on : Tours \cup {"none"}, plan : Seq(Int), n : Int]]
  BY <1>1, <1>4, <1>5 DEF RoundInv
<1>7. walk[w].on = "none"
  BY <1>2 DEF Duty!Resting
<1>8. /\ \A x \in Walkers \ {w} : Left(x)' = Left(x) /\ Left(x) \in Nat
      /\ Left(w)' = 1
  <2>1. \A x \in Walkers \ {w} : Left(x)' = Left(x) /\ Left(x) \in Nat
    BY <1>6 DEF Left, RoundInv
  <2>2. Left(w)' = 1
    BY <1>5, <1>6 DEF Left
  <2> QED
    BY <2>1, <2>2
<1>9. ASSUME NEW r \in Tours \ {t} PROVE On(r)' = On(r) /\ \A x \in On(r) : walk'[x] = walk[x]
  BY <1>5, <1>6, <1>7 DEF On, ToursAreWalked
<1>10. On(t)' = On(t) \cup {w} /\ w \notin On(t)
  BY <1>5, <1>6, <1>7 DEF On, ToursAreWalked
<1>11. PICK k \in Nat : k = Cardinality(On(t))
  BY OnFacts
<1>12. Cardinality(On(t)') = k + 1
  <2>1. IsFiniteSet(On(t))
    BY OnFacts
  <2>2. Cardinality(On(t) \cup {w}) = Cardinality(On(t)) + 1
    BY <2>1, <1>10, FS_AddElement
  <2> QED
    BY <2>2, <1>10, <1>11
<1>13. PICK c \in Nat : c = Cardinality(tour[t].orders)
  BY FS_CardinalityType DEF RoundInv
<1>14. asked' \in [Tours -> Int] /\ \A r \in Tours \ {t} : asked'[r] = asked[r]
  BY <1>2 DEF RoundInv
<1>15. ASSUME t \notin halted, tour[t].there PROVE Counted(t)'
  <2>1. asked'[t] = asked[t] + 1 /\ asked[t] \in Int
    BY <1>2, <1>15 DEF RoundInv
  <2>2. /\ (\A x \in On(t) : Left(x) = 1) => c + k = asked[t]
        /\ \A y \in On(t) : Left(y) > 1 =>
               /\ \A x \in On(t) \ {y} : Left(x) = 1
               /\ c + k + Left(y) - 1 = asked[t]
    BY <1>15, <1>11, <1>13 DEF RoundInv, Counted
  <2>3. \A x \in On(t) : Left(x)' = Left(x) /\ Left(x) \in Nat
    BY <1>8, <1>10 DEF On
  <2>4. Cardinality(tour'[t].orders) = c
    BY <1>2, <1>13
  <2>5. (\A x \in On(t)' : Left(x)' = 1) => c + (k + 1) = asked'[t]
    BY <2>1, <2>2, <2>3, <1>10, <1>11, <1>13
  <2>6. ASSUME NEW y \in On(t)', Left(y)' > 1
        PROVE  /\ \A x \in On(t)' \ {y} : Left(x)' = 1
               /\ c + (k + 1) + Left(y)' - 1 = asked'[t]
    <3>1. y \in On(t) /\ Left(y)' = Left(y) /\ Left(y) \in Nat
      BY <2>6, <2>3, <1>8, <1>10
    <3>2. /\ \A x \in On(t) \ {y} : Left(x) = 1
          /\ c + k + Left(y) - 1 = asked[t]
      BY <2>2, <2>6, <3>1
    <3>3. c + (k + 1) + Left(y)' - 1 = asked'[t]
      BY <2>1, <3>1, <3>2, <1>11, <1>13
    <3> QED
      BY <3>1, <3>2, <3>3, <2>3, <1>8, <1>10
  <2> QED
    BY <2>4, <2>5, <2>6, <1>12 DEF Counted
<1>16. ASSUME NEW r \in Tours \ halted', tour'[r].there PROVE Counted(r)'
  <2>1. CASE r # t
    <3>1. On(r)' = On(r) /\ \A x \in On(r) : walk'[x] = walk[x]
      BY <2>1, <1>9
    <3> QED
      BY <2>1, <3>1, <1>2, <1>14, <1>16, OtherTours
  <2> QED
    BY <2>1, <1>2, <1>15, <1>16
<1>17. \A x \in Walkers : walk'[x].on # "none" => Left(x)' > 0
  <2>1. \A x \in Walkers \ {w} : walk'[x].on # "none" => Left(x) > 0
    BY <1>6 DEF RoundInv
  <2> QED
    BY <2>1, <1>8
<1> QED
  BY <1>2, <1>6, <1>14, <1>16, <1>17 DEF RoundInv

LEMMA ReadLastStep ==
    ASSUME ToursAreWalked, RoundInv, NEW w \in Walkers, NEW t \in Tours, Duty!ReadLast(w, t)
    PROVE  RoundInv'
<1>1. PICK last : last = IF tour[t].orders = {} THEN 0
                         ELSE CHOOSE o \in tour[t].orders : \A p \in tour[t].orders : p <= o
  OBVIOUS
<1>2. last \in Int
  <2>1. tour[t].orders \in SUBSET Int /\ IsFiniteSet(tour[t].orders)
    BY DEF RoundInv
  <2>2. CASE tour[t].orders = {}
    BY <1>1, <2>2
  <2>3. CASE tour[t].orders # {}
    <3>1. \E o \in tour[t].orders : \A p \in tour[t].orders : p <= o
      BY <2>1, <2>3, HasGreatest
    <3> QED
      BY <1>1, <2>1, <2>3, <3>1
  <2> QED
    BY <2>2, <2>3
<1>3. Duty!AddWaypoint(w, t, last + 1)
  BY <1>1 DEF Duty!ReadLast
<1> QED
  BY <1>2, <1>3, AddWaypointStep

LEMMA DeleteStep ==
    ASSUME ToursAreWalked, RoundInv, NEW t \in Tours, UNCHANGED <<walk, halted>>,
           \A r \in Tours \ {t} : tour'[r] = tour[r] /\ asked'[r] = asked[r],
           tour' \in [Tours -> [there : BOOLEAN, orders : SUBSET Int]], asked' \in [Tours -> Int],
           IsFiniteSet(tour'[t].orders),
           t \notin halted /\ tour'[t].there =>
               /\ tour[t].there
               /\ Cardinality(tour'[t].orders) = Cardinality(tour[t].orders) - 1 /\ asked'[t] = asked[t] - 1
    PROVE  RoundInv'
<1>1. \A r : On(r)' = On(r) /\ \A x \in Walkers : Left(x)' = Left(x)
  BY DEF On, Left
<1>2. ASSUME NEW r \in Tours \ halted', tour'[r].there PROVE Counted(r)'
  <2>1. CASE r # t
    <3>1. On(r)' = On(r) /\ \A x \in On(r) : walk'[x] = walk[x]
      BY <1>1
    <3> QED
      BY <2>1, <3>1, <1>2, OtherTours
  <2>2. CASE r = t
    <3>1. Counted(t) /\ asked[t] \in Int
      BY <2>2, <1>2 DEF RoundInv
    <3>2. PICK c \in Nat : c = Cardinality(tour[t].orders)
      BY FS_CardinalityType DEF RoundInv
    <3>3. PICK k \in Nat : k = Cardinality(On(t))
      BY OnFacts
    <3>4. Cardinality(tour'[t].orders) = c - 1 /\ asked'[t] = asked[t] - 1
      BY <2>2, <3>2, <1>2
    <3>5. \A x \in On(t) : Left(x) \in Nat
      BY DEF On, Left, RoundInv
    <3>6. /\ (\A x \in On(t) : Left(x) = 1) => c + k = asked[t]
          /\ \A y \in On(t) : Left(y) > 1 =>
                 /\ \A x \in On(t) \ {y} : Left(x) = 1
                 /\ c + k + Left(y) - 1 = asked[t]
      BY <3>1, <3>2, <3>3 DEF Counted
    <3>7. /\ (\A x \in On(t) : Left(x) = 1) => c - 1 + k = asked'[t]
          /\ \A y \in On(t) : Left(y) > 1 =>
                 /\ \A x \in On(t) \ {y} : Left(x) = 1
                 /\ c - 1 + k + Left(y) - 1 = asked'[t]
      <4>1. asked'[t] = asked[t] - 1 /\ asked[t] \in Int
        BY <3>1, <3>4
      <4>2. (\A x \in On(t) : Left(x) = 1) => c - 1 + k = asked'[t]
        BY <4>1, <3>2, <3>3, <3>6
      <4>3. ASSUME NEW y \in On(t), Left(y) > 1
            PROVE  (\A x \in On(t) \ {y} : Left(x) = 1) /\ c - 1 + k + Left(y) - 1 = asked'[t]
        <5>1. (\A x \in On(t) \ {y} : Left(x) = 1) /\ c + k + Left(y) - 1 = asked[t] /\ Left(y) \in Nat
          BY <3>5, <3>6, <4>3
        <5> QED
          BY <5>1, <4>1, <3>2, <3>3
      <4> QED
        BY <4>2, <4>3
    <3>8. On(t)' = On(t) /\ \A x \in On(t) : Left(x)' = Left(x)
      BY <1>1 DEF On
    <3> QED
      BY <2>2, <3>3, <3>4, <3>7, <3>8 DEF Counted
  <2> QED
    BY <2>1, <2>2
<1>3. \A r \in Tours : IsFiniteSet(tour'[r].orders)
  BY DEF RoundInv
<1> QED
  BY <1>1, <1>2, <1>3 DEF RoundInv

LEMMA CardinalityOfDuty == \A S : Duty!Cardinality(S) = Cardinality(S)
  BY DEF Duty!Cardinality, Cardinality

\* The invariant holds at first, every step keeps it, and it has what is to hold in it.
LEMMA RoundInductive ==
    ASSUME ToursAreWalked
    PROVE  /\ Duty!RoundInit => RoundInv
           /\ RoundInv /\ [Duty!Next]_(Duty!vars) => RoundInv'
           /\ RoundInv => Duty!RoundsAreWhole
<1>1. ASSUME Duty!RoundInit PROVE RoundInv
  <2>1. /\ tour = [t \in Tours |-> [there |-> FALSE, orders |-> {}]]
        /\ walk = [w \in Walkers |-> [on |-> "none", plan |-> <<>>, n |-> 1]]
        /\ asked = [t \in Tours |-> 0]
    BY <1>1 DEF Duty!RoundInit, Duty!Resting, Duty!NoTour
  <2>2. IsFiniteSet({})
    BY FS_EmptySet
  <2>3. [on |-> "none", plan |-> <<>>, n |-> 1] \in [on : Tours \cup {"none"}, plan : Seq(Int), n : Int]
    OBVIOUS
  <2>4. walk \in [Walkers -> [on : Tours \cup {"none"}, plan : Seq(Int), n : Int]]
    BY <2>1, <2>3
  <2>5. \A w \in Walkers : walk[w].on = "none"
    BY <2>1
  <2>6. /\ tour \in [Tours -> [there : BOOLEAN, orders : SUBSET Int]] /\ asked \in [Tours -> Int]
        /\ \A t \in Tours : IsFiniteSet(tour[t].orders) /\ ~tour[t].there
    <3>1. /\ tour \in [Tours -> [there : BOOLEAN, orders : SUBSET Int]]
          /\ \A t \in Tours : tour[t].orders = {} /\ ~tour[t].there
      BY <2>1
    <3>2. asked \in [Tours -> Int]
      BY <2>1
    <3> QED
      BY <3>1, <3>2, <2>2
  <2> QED
    BY <2>4, <2>5, <2>6 DEF RoundInv
<1>2. ASSUME RoundInv, [Duty!Next]_(Duty!vars) PROVE RoundInv'
  <2>1. CASE UNCHANGED Duty!roundVars
    <3>1. UNCHANGED <<tour, walk, asked, halted>>
      BY <2>1 DEF Duty!roundVars
    <3>2. \A t : On(t)' = On(t) /\ \A w : Left(w)' = Left(w)
      BY <3>1 DEF On, Left
    <3>3. \A t \in Tours : Counted(t)' = Counted(t)
      BY <3>1, <3>2 DEF Counted
    <3> QED
      BY <1>2, <3>1, <3>2, <3>3 DEF RoundInv
  <2>2. CASE Duty!RoundNext
    <3>1. ASSUME NEW t \in Tours, NEW wanted, Duty!DeleteWaypoint(t, wanted) PROVE RoundInv'
      <4>1. /\ wanted \in tour[t].orders /\ UNCHANGED <<walk, halted>>
            /\ tour' = [tour EXCEPT ![t].orders = @ \ {wanted}]
            /\ asked' = IF t \in halted THEN asked ELSE [asked EXCEPT ![t] = @ - 1]
        BY <3>1 DEF Duty!DeleteWaypoint
      <4>2. /\ tour'[t].orders = tour[t].orders \ {wanted} /\ tour'[t].there = tour[t].there
            /\ \A r \in Tours \ {t} : tour'[r] = tour[r] /\ asked'[r] = asked[r]
            /\ tour' \in [Tours -> [there : BOOLEAN, orders : SUBSET Int]] /\ asked' \in [Tours -> Int]
            /\ t \notin halted => asked'[t] = asked[t] - 1
        BY <1>2, <4>1 DEF RoundInv
      <4>3. IsFiniteSet(tour[t].orders)
        BY <1>2 DEF RoundInv
      <4>4. /\ IsFiniteSet(tour[t].orders \ {wanted})
            /\ Cardinality(tour[t].orders \ {wanted}) = Cardinality(tour[t].orders) - 1
        BY <4>1, <4>3, FS_RemoveElement
      <4> QED
        BY <1>2, <4>1, <4>2, <4>4, DeleteStep
    <3>2. ASSUME NEW t \in Tours, Duty!DeleteRound(t) PROVE RoundInv'
      <4>1. /\ UNCHANGED <<walk, halted>> /\ tour' = [tour EXCEPT ![t] = [there |-> FALSE, orders |-> {}]]
            /\ asked' = [asked EXCEPT ![t] = 0]
        BY <3>2 DEF Duty!DeleteRound, Duty!NoTour
      <4>2. /\ tour'[t].orders = {} /\ tour'[t].there = FALSE
            /\ \A r \in Tours \ {t} : tour'[r] = tour[r] /\ asked'[r] = asked[r]
            /\ tour' \in [Tours -> [there : BOOLEAN, orders : SUBSET Int]] /\ asked' \in [Tours -> Int]
        BY <1>2, <4>1 DEF RoundInv
      <4>3. IsFiniteSet({})
        BY FS_EmptySet
      <4> QED
        BY <1>2, <4>1, <4>2, <4>3, DeleteStep
    <3>3. ASSUME NEW w \in Walkers, Duty!CutRound(w) PROVE RoundInv'
      <4>1. walk[w].on \in Tours /\ Duty!Halt(w, walk[w].on)
        BY <1>2, <3>3 DEF Duty!CutRound, RoundInv
      <4> QED
        BY <1>2, <4>1, HaltStep
    <3>4. ASSUME NEW w \in Walkers, NEW t \in Tours, NEW wanted \in 1 .. MaxOrder,
                 Duty!AddWaypoint(w, t, wanted)
          PROVE  RoundInv'
      <4>1. wanted \in Int
        OBVIOUS
      <4> QED
        BY <1>2, <3>4, <4>1, AddWaypointStep
    <3> QED
      BY <1>2, <2>2, <3>1, <3>2, <3>3, <3>4, ReadLastStep, CreateRoundStep, WriteWaypointStep
         DEF Duty!RoundNext
  <2> QED
    BY <1>2, <2>1, <2>2 DEF Duty!Next, Duty!vars
<1>3. ASSUME RoundInv, NEW t \in Tours \ halted, tour[t].there, \A w \in Walkers : walk[w].on # t
      PROVE  Cardinality(tour[t].orders) = asked[t]
  <2>1. On(t) = {} /\ Counted(t)
    BY <1>3 DEF RoundInv, On
  <2>2. Cardinality({}) = 0 /\ Cardinality(tour[t].orders) \in Nat
    BY <1>3, FS_EmptySet, FS_CardinalityType DEF RoundInv
  <2> QED
    BY <2>1, <2>2 DEF Counted
<1> QED
  BY <1>1, <1>2, <1>3, CardinalityOfDuty DEF Duty!RoundsAreWhole

\* rounds.service.ts:31-150, for any tours, plans and calls: a round that nobody is at work on has the
\* waypoints that were asked for, but for rounds of which a call was cut or met a taken order.
THEOREM RoundsCorrect ==
    ASSUME ToursAreWalked
    PROVE  Duty!Spec => []Duty!RoundsAreWhole
BY RoundInductive, PTL DEF Duty!Spec, Duty!Init
-----------------------------------------------------------------------------
(* Onboarding: what a workspace has once no call is at work on it *)

Boots == {"bootstrap", "retry"}
Rooted == {"org", "member", "check", "build"}
OpeningTypes ==
    /\ tenant \in [Tenants -> [slug : Slugs \cup {"free"}, owners : SUBSET Newcomers, boot : BOOLEAN]]
    /\ orgs \subseteq [tenant : Tenants, slug : Slugs, type : {"owner", "vendor"}, admin : BOOLEAN,
                       by : {"organization", "bootstrap", "retry"}]
    /\ opening = [o \in Openings |-> [kind |-> opening[o].kind, user |-> opening[o].user, at |-> opening[o].at,
                                      tenant |-> opening[o].tenant, slug |-> opening[o].slug]]

\* What a call relies on: the workspace it has made is there and nobody's until the call has
\* written its owner, and has one from then on.
Stands(c) ==
    /\ c.at = "tenant" => c.user \in Newcomers /\ c.slug \in Slugs /\ c.kind \in {"workspace", "bootstrap"}
    /\ c.at = "owner" =>
           /\ c.user \in Newcomers /\ c.slug \in Slugs /\ c.kind \in {"workspace", "bootstrap"}
           /\ c.tenant \in Tenants /\ Opening!Exists(c.tenant) /\ tenant[c.tenant].owners = {}
           /\ tenant[c.tenant].boot = (c.kind = "bootstrap")
    /\ c.at \in Rooted => c.tenant \in Tenants /\ tenant[c.tenant].owners # {}
    /\ c.at = "org" =>
           /\ c.slug \in Slugs /\ c.kind \in {"organization", "bootstrap", "retry"}
           /\ c.kind \in Boots => c.user \in tenant[c.tenant].owners

Manned(t) ==
    /\ ~Opening!Exists(t) => tenant[t].owners = {}
    /\ \A u, v \in tenant[t].owners : u = v
    /\ Opening!Exists(t) => \/ tenant[t].owners # {} \/ t \in maimed
                            \/ \E o \in Openings : opening[o].at = "owner" /\ opening[o].tenant = t
    /\ plot[t].built => tenant[t].owners # {}

Headed(g) ==
    /\ tenant[g.tenant].owners # {}
    /\ g.by \in Boots => g.type = "owner"
    /\ \/ g.admin \/ g.by = "retry" \/ g.tenant \in maimed
       \/ \E o \in Openings : opening[o].at = "member" /\ opening[o].tenant = g.tenant /\ opening[o].slug = g.slug

\* A user whose bootstraps did not overlap: the one in progress makes the first workspace of
\* theirs, or the first organization of it.
BootsOf(u) == {o \in Openings : opening[o].user = u /\ opening[o].kind \in Boots /\ opening[o].at # "done"}
Booted(u) == {t \in Tenants : u \in tenant[t].owners /\ tenant[t].boot}
ByBoot(t) == {g \in orgs : g.tenant = t /\ g.by \in Boots}
MakesFirst(u, c) ==
    /\ c.at \in {"tenant", "owner"} => c.kind = "bootstrap" /\ Booted(u) = {}
    /\ c.at = "org" => ByBoot(c.tenant) = {}
Once(u) ==
    /\ \A o, p \in BootsOf(u) : o = p
    /\ \A o \in BootsOf(u) : MakesFirst(u, opening[o])
    /\ \A s, t \in Booted(u) : s = t
    /\ \A t \in Tenants : u \in tenant[t].owners => \A g, h \in ByBoot(t) : g = h

OpeningInv ==
    /\ OpeningTypes
    /\ \A o \in Openings : Stands(opening[o])
    /\ \A o, p \in Openings : opening[o].at = "owner" /\ opening[p].at = "owner"
                                  /\ opening[o].tenant = opening[p].tenant => o = p
    /\ \A t \in Tenants : Manned(t)
    /\ \A g \in orgs : Headed(g)
    /\ \A u \in Newcomers \ crossed : Once(u)
    /\ Opening!RowsHang

\* A call goes on from one statement to the next, and writes no workspace and no organization.
LEMMA CallStep ==
    ASSUME TenantsAreNamed, OpeningInv, NEW o \in Openings, NEW c,
           c = [kind |-> c.kind, user |-> c.user, at |-> c.at, tenant |-> c.tenant, slug |-> c.slug],
           opening' = [opening EXCEPT ![o] = c], UNCHANGED <<tenant, orgs>>,
           crossed \subseteq crossed', maimed \subseteq maimed',
           opening[o].at \in {"owner", "member"} => opening[o].tenant \in maimed',
           Stands(c), c.at # "owner",
           c.kind \in Boots /\ c.at # "done" /\ c.user \in Newcomers \ crossed' =>
               /\ MakesFirst(c.user, c)
               /\ \A p \in BootsOf(c.user) : p = o,
           \A t \in Tenants : plot'[t].built => tenant[t].owners # {},
           Opening!RowsHang'
    PROVE  OpeningInv'
<1>1. /\ opening'[o] = c /\ \A p \in Openings \ {o} : opening'[p] = opening[p]
      /\ OpeningTypes'
  BY DEF OpeningInv, OpeningTypes
<1>2. ASSUME NEW p \in Openings PROVE Stands(opening[p])'
  <2>1. CASE p = o
    BY <2>1, <1>1 DEF Stands, Opening!Exists
  <2>2. CASE p # o
    <3>1. Stands(opening[p]) /\ opening'[p] = opening[p]
      BY <2>2, <1>1 DEF OpeningInv
    <3> QED
      BY <3>1 DEF Stands, Opening!Exists
  <2> QED
    BY <2>1, <2>2
<1>3. ASSUME NEW p \in Openings, NEW q \in Openings, opening'[p].at = "owner", opening'[q].at = "owner",
             opening'[p].tenant = opening'[q].tenant
      PROVE  p = q
  <2>1. p # o /\ q # o
    BY <1>1, <1>3
  <2> QED
    BY <2>1, <1>1, <1>3 DEF OpeningInv
<1>4. ASSUME NEW t \in Tenants PROVE Manned(t)'
  <2>1. Manned(t)
    BY DEF OpeningInv
  <2>2. ASSUME NEW p \in Openings, opening[p].at = "owner", opening[p].tenant = t
        PROVE  t \in maimed' \/ (opening'[p].at = "owner" /\ opening'[p].tenant = t)
    BY <2>2, <1>1
  <2> QED
    BY <2>1, <2>2 DEF Manned, Opening!Exists
<1>5. ASSUME NEW g \in orgs PROVE Headed(g)'
  <2>1. Headed(g)
    BY DEF OpeningInv
  <2>2. ASSUME NEW p \in Openings, opening[p].at = "member", opening[p].tenant = g.tenant, opening[p].slug = g.slug
        PROVE  g.tenant \in maimed' \/ (opening'[p].at = "member" /\ opening'[p].tenant = g.tenant /\ opening'[p].slug = g.slug)
    BY <2>2, <1>1
  <2> QED
    BY <2>1, <2>2 DEF Headed
<1>6. ASSUME NEW u \in Newcomers \ crossed' PROVE Once(u)'
  <2>1. Once(u)
    BY DEF OpeningInv
  <2>2. Booted(u)' = Booted(u) /\ \A t : ByBoot(t)' = ByBoot(t)
    BY DEF Booted, ByBoot
  <2>3. \A p \in Openings \ {o} : p \in BootsOf(u)' <=> p \in BootsOf(u)
    BY <1>1 DEF BootsOf
  <2>4. o \in BootsOf(u)' => c.user = u /\ c.kind \in Boots /\ c.at # "done"
    BY <1>1 DEF BootsOf
  <2>5. \A p \in BootsOf(u)' : p \in Openings
    BY DEF BootsOf
  <2>6. \A p, q \in BootsOf(u)' : p = q
    BY <2>1, <2>3, <2>4, <2>5 DEF Once
  <2>7. \A p \in BootsOf(u)' : MakesFirst(u, opening[p])'
    <3>1. ASSUME NEW p \in BootsOf(u)', p # o PROVE MakesFirst(u, opening[p])'
      <4>1. p \in BootsOf(u) /\ opening'[p] = opening[p]
        BY <3>1, <2>3, <2>5, <1>1
      <4> QED
        BY <4>1, <2>1, <2>2 DEF Once, MakesFirst
    <3>2. o \in BootsOf(u)' => MakesFirst(u, opening[o])'
      BY <2>2, <2>4, <1>1 DEF MakesFirst
    <3> QED
      BY <3>1, <3>2
  <2> QED
    BY <2>1, <2>2, <2>6, <2>7 DEF Once
<1> QED
  BY <1>1, <1>2, <1>3, <1>4, <1>5, <1>6 DEF OpeningInv

LEMMA OpenSteps ==
    ASSUME TenantsAreNamed, OpeningInv, NEW o \in Openings, NEW u \in Newcomers,
           \/ \E slug \in Slugs : Opening!OpenWorkspace(o, u, slug)
           \/ \E slug \in Slugs, t \in Tenants : Opening!OpenOrganization(o, u, t, slug)
           \/ \E t \in Tenants : Opening!OpenBuilding(o, u, t)
    PROVE  OpeningInv'
<1>1. PICK c : /\ c = [kind |-> c.kind, user |-> u, at |-> c.at, tenant |-> c.tenant, slug |-> c.slug]
               /\ opening' = [opening EXCEPT ![o] = c]
               /\ \/ c.kind = "workspace" /\ c.at = "tenant" /\ c.slug \in Slugs
                  \/ /\ c.kind \in {"organization", "building"} /\ c.at \in {"org", "build"}
                     /\ c.at = "org" => c.slug \in Slugs /\ c.kind = "organization"
                     /\ c.tenant \in Tenants /\ u \in tenant[c.tenant].owners
  <2>1. CASE \E slug \in Slugs : Opening!OpenWorkspace(o, u, slug)
    <3>1. PICK slug \in Slugs : Opening!OpenWorkspace(o, u, slug)
      BY <2>1
    <3>2. PICK c : c = [kind |-> "workspace", user |-> u, at |-> "tenant", tenant |-> "none", slug |-> slug]
      OBVIOUS
    <3>3. opening' = [opening EXCEPT ![o] = c]
      BY <3>1, <3>2 DEF Opening!OpenWorkspace, Opening!Open
    <3>4. c.kind = "workspace" /\ c.at = "tenant" /\ c.slug \in Slugs
      BY <3>2
    <3> QED
      BY <3>2, <3>3, <3>4
  <2>2. CASE \E slug \in Slugs, t \in Tenants : Opening!OpenOrganization(o, u, t, slug)
    <3>1. PICK slug \in Slugs, t \in Tenants : Opening!OpenOrganization(o, u, t, slug)
      BY <2>2
    <3>2. PICK c : c = [kind |-> "organization", user |-> u, at |-> "org", tenant |-> t, slug |-> slug]
      OBVIOUS
    <3>3. opening' = [opening EXCEPT ![o] = c] /\ u \in tenant[t].owners
      BY <3>1, <3>2 DEF Opening!OpenOrganization, Opening!Open
    <3>4. c.kind = "organization" /\ c.at = "org" /\ c.slug = slug /\ c.tenant = t /\ c.user = u
      BY <3>2
    <3>5. c = [kind |-> c.kind, user |-> u, at |-> c.at, tenant |-> c.tenant, slug |-> c.slug]
      BY <3>2
    <3> QED
      BY <3>3, <3>4, <3>5
  <2>3. CASE \E t \in Tenants : Opening!OpenBuilding(o, u, t)
    <3>1. PICK t \in Tenants : Opening!OpenBuilding(o, u, t)
      BY <2>3
    <3>2. PICK c : c = [kind |-> "building", user |-> u, at |-> "build", tenant |-> t, slug |-> "none"]
      OBVIOUS
    <3>3. opening' = [opening EXCEPT ![o] = c] /\ u \in tenant[t].owners
      BY <3>1, <3>2 DEF Opening!OpenBuilding, Opening!Open
    <3>4. c.kind = "building" /\ c.at = "build" /\ c.tenant = t /\ c.user = u
      BY <3>2
    <3>5. c = [kind |-> c.kind, user |-> u, at |-> c.at, tenant |-> c.tenant, slug |-> c.slug]
      BY <3>2
    <3> QED
      BY <3>3, <3>4, <3>5
  <2> QED
    BY <2>1, <2>2, <2>3
<1>2. UNCHANGED <<tenant, orgs, plot, crossed, maimed>> /\ opening[o] = Opening!NotOpened
  BY DEF Opening!OpenWorkspace, Opening!OpenOrganization, Opening!OpenBuilding, Opening!Open
<1>3. opening[o].at = "idle"
  BY <1>2 DEF Opening!NotOpened
<1>4. Stands(c)
  BY <1>1 DEF Stands, Boots, Rooted
<1>5. c.user = u /\ c.kind \notin Boots /\ c.at # "owner"
  BY <1>1 DEF Boots
<1>6. Opening!RowsHang' /\ \A t \in Tenants : plot'[t].built => tenant[t].owners # {}
  BY <1>2 DEF OpeningInv, Manned, Opening!RowsHang
<1> QED
  BY <1>1, <1>2, <1>3, <1>4, <1>5, <1>6, CallStep

LEMMA BootstrapStep ==
    ASSUME TenantsAreNamed, OpeningInv, NEW o \in Openings, NEW u \in Newcomers, NEW slug \in Slugs,
           Opening!Bootstrap(o, u, slug)
    PROVE  OpeningInv'
<1>1. PICK c : /\ c = [kind |-> c.kind, user |-> u, at |-> c.at, tenant |-> c.tenant, slug |-> slug]
               /\ opening' = [opening EXCEPT ![o] = c] /\ opening[o] = Opening!NotOpened
               /\ \/ c.kind = "bootstrap" /\ c.at = "tenant" /\ Opening!Owned(u) = {}
                  \/ /\ c.kind \in Boots /\ c.at \in {"org", "check"}
                     /\ c.tenant \in Opening!Owned(u)
                     /\ c.at = "org" => Opening!OwnerOrgs(c.tenant) = {}
  <2>1. CASE /\ Opening!Owned(u) = {}
             /\ Opening!Open(o, "bootstrap", u, "tenant", "none", slug)
    <3>1. PICK c : c = [kind |-> "bootstrap", user |-> u, at |-> "tenant", tenant |-> "none", slug |-> slug]
      OBVIOUS
    <3>2. opening' = [opening EXCEPT ![o] = c] /\ opening[o] = Opening!NotOpened
      BY <2>1, <3>1 DEF Opening!Open
    <3>3. c.kind = "bootstrap" /\ c.at = "tenant"
      BY <3>1
    <3>4. c = [kind |-> c.kind, user |-> u, at |-> c.at, tenant |-> c.tenant, slug |-> slug]
      BY <3>1
    <3> QED
      BY <2>1, <3>2, <3>3, <3>4
  <2>2. CASE \E t \in Opening!Owned(u) :
                 Opening!Open(o, IF Opening!OwnerOrgs(t) = {} THEN "retry" ELSE "bootstrap", u,
                              IF Opening!OwnerOrgs(t) = {} THEN "org" ELSE "check", t, slug)
    <3>1. PICK t \in Opening!Owned(u) :
                 Opening!Open(o, IF Opening!OwnerOrgs(t) = {} THEN "retry" ELSE "bootstrap", u,
                              IF Opening!OwnerOrgs(t) = {} THEN "org" ELSE "check", t, slug)
      BY <2>2
    <3>2. PICK way : way = IF Opening!OwnerOrgs(t) = {} THEN "retry" ELSE "bootstrap"
      OBVIOUS
    <3>3. PICK at : at = IF Opening!OwnerOrgs(t) = {} THEN "org" ELSE "check"
      OBVIOUS
    <3>4. PICK c : c = [kind |-> way, user |-> u, at |-> at, tenant |-> t, slug |-> slug]
      OBVIOUS
    <3>5. opening' = [opening EXCEPT ![o] = c] /\ opening[o] = Opening!NotOpened
      BY <3>1, <3>2, <3>3, <3>4 DEF Opening!Open
    <3>6. c.kind \in Boots /\ c.at \in {"org", "check"} /\ (c.at = "org" => Opening!OwnerOrgs(t) = {}) /\ c.tenant = t
      BY <3>2, <3>3, <3>4 DEF Boots
    <3> QED
      BY <3>4, <3>5, <3>6
  <2> QED
    BY <2>1, <2>2 DEF Opening!Bootstrap
<1>2. /\ UNCHANGED <<tenant, orgs, plot, maimed>> /\ crossed \subseteq crossed'
      /\ u \notin crossed' => \A p \in Openings : ~(opening[p].user = u /\ opening[p].kind \in Boots /\ opening[p].at # "done")
  BY DEF Opening!Bootstrap, Boots
<1>3. opening[o].at = "idle"
  BY <1>1 DEF Opening!NotOpened
<1>4. Stands(c)
  <2>1. c.at \in {"org", "check"} => c.tenant \in Tenants /\ u \in tenant[c.tenant].owners
    BY <1>1 DEF Opening!Owned
  <2> QED
    BY <1>1, <2>1 DEF Stands, Boots, Rooted
<1>5. MakesFirst(u, c)
  <2>1. Opening!Owned(u) = {} => Booted(u) = {}
    BY DEF Opening!Owned, Booted
  <2>2. ASSUME Opening!OwnerOrgs(c.tenant) = {} PROVE ByBoot(c.tenant) = {}
    BY <2>2 DEF OpeningInv, Headed, ByBoot, Opening!OwnerOrgs
  <2> QED
    BY <1>1, <2>1, <2>2 DEF MakesFirst, Boots
<1>6. u \notin crossed' => BootsOf(u) = {}
  BY <1>2 DEF BootsOf
<1>7. Opening!RowsHang' /\ \A t \in Tenants : plot'[t].built => tenant[t].owners # {}
  BY <1>2 DEF OpeningInv, Manned, Opening!RowsHang
<1> QED
  BY <1>1, <1>2, <1>3, <1>4, <1>5, <1>6, <1>7, CallStep

\* A call that goes on keeps its workspace: it checks, it is cut, or it writes the building.
LEMMA OnwardSteps ==
    ASSUME TenantsAreNamed, OpeningInv, NEW o \in Openings,
           \/ Opening!CheckBuilding(o) \/ Opening!Throw(o)
           \/ \E doors \in SUBSET Doors : \E floors \in Opening!FloorPlans(doors) :
                  \E unit \in DOMAIN floors \cup {"none"} : Opening!InsertBuilding(o, doors, floors, unit)
    PROVE  OpeningInv'
<1>1. PICK at : /\ opening' = [opening EXCEPT ![o].at = at] /\ at \in {"done", "build"}
                /\ at = "build" => opening[o].at = "check"
  <2>1. CASE opening' = [opening EXCEPT ![o].at = "done"]
    <3>1. PICK at : at = "done"
      OBVIOUS
    <3>2. opening' = [opening EXCEPT ![o].at = at]
      BY <2>1, <3>1
    <3>3. at \in {"done", "build"} /\ at # "build"
      BY <3>1
    <3> QED
      BY <3>2, <3>3
  <2>2. CASE opening' # [opening EXCEPT ![o].at = "done"]
    <3>1. Opening!CheckBuilding(o)
      BY <2>2 DEF Opening!Throw, Opening!InsertBuilding, Opening!Move
    <3>2. opening' = [opening EXCEPT ![o].at = "build"] /\ opening[o].at = "check"
      BY <2>2, <3>1 DEF Opening!CheckBuilding, Opening!Move
    <3>3. PICK at : at = "build"
      OBVIOUS
    <3>4. opening' = [opening EXCEPT ![o].at = at] /\ at \in {"done", "build"}
      BY <3>2, <3>3
    <3> QED
      BY <3>2, <3>4
  <2> QED
    BY <2>1, <2>2
<1>2. PICK c : c = [kind |-> opening[o].kind, user |-> opening[o].user, at |-> at,
                    tenant |-> opening[o].tenant, slug |-> opening[o].slug]
  OBVIOUS
<1>3. opening' = [opening EXCEPT ![o] = c]
  <2>1. opening[o] = [kind |-> opening[o].kind, user |-> opening[o].user, at |-> opening[o].at,
                      tenant |-> opening[o].tenant, slug |-> opening[o].slug]
    BY DEF OpeningInv, OpeningTypes
  <2>2. [opening[o] EXCEPT !.at = at] = c
    BY <2>1, <1>2
  <2> QED
    BY <2>2, <1>1
<1>4. c.at = at /\ c.tenant = opening[o].tenant /\ c.user = opening[o].user /\ c.kind = opening[o].kind
  BY <1>2
<1>5. UNCHANGED <<tenant, orgs, crossed>> /\ maimed \subseteq maimed'
  BY DEF Opening!CheckBuilding, Opening!Throw, Opening!InsertBuilding
<1>6. ASSUME opening[o].at \in {"owner", "member"} PROVE opening[o].tenant \in maimed'
  <2>1. opening[o].tenant \in Tenants
    BY <1>6 DEF OpeningInv, Stands, Rooted
  <2>2. Opening!Throw(o)
    BY <1>6 DEF Opening!CheckBuilding, Opening!InsertBuilding
  <2> QED
    BY <2>1, <2>2 DEF Opening!Throw
<1>7. Stands(c)
  <2>1. Stands(opening[o])
    BY DEF OpeningInv
  <2> QED
    BY <2>1, <1>1, <1>4 DEF Stands, Rooted
<1>8. ASSUME c.kind \in Boots, c.at # "done", c.user \in Newcomers \ crossed'
      PROVE  MakesFirst(c.user, c) /\ \A p \in BootsOf(c.user) : p = o
  <2>1. o \in BootsOf(c.user) /\ c.at = "build"
    BY <1>8, <1>1, <1>4 DEF BootsOf
  <2> QED
    BY <2>1, <1>5, <1>8 DEF OpeningInv, Once, MakesFirst
<1>9. Opening!RowsHang' /\ \A t \in Tenants : plot'[t].built => tenant[t].owners # {}
  <2>1. CASE plot' = plot
    BY <2>1 DEF OpeningInv, Manned, Opening!RowsHang
  <2>2. ASSUME NEW doors \in SUBSET Doors, NEW floors \in Opening!FloorPlans(doors),
               NEW unit \in DOMAIN floors \cup {"none"}, Opening!InsertBuilding(o, doors, floors, unit), plot' # plot
        PROVE  Opening!RowsHang' /\ \A t \in Tenants : plot'[t].built => tenant[t].owners # {}
    <3>1. PICK t \in Tenants : t = opening[o].tenant /\ tenant[t].owners # {} /\ opening[o].at = "build"
      BY <2>2 DEF Opening!InsertBuilding, OpeningInv, Stands, Rooted
    <3>2. PICK p : p = [built |-> TRUE, doors |-> doors, floors |-> floors, unit |-> unit, relaid |-> FALSE]
      OBVIOUS
    <3>3. plot' = [plot EXCEPT ![t] = p]
      BY <2>2, <3>1, <3>2 DEF Opening!InsertBuilding
    <3>4. \A n \in DOMAIN p.floors : p.floors[n] \in p.doors \cup {"none"}
      BY <3>2 DEF Opening!FloorPlans
    <3>5. p.unit \in DOMAIN p.floors \cup {"none"} /\ ~p.relaid
      BY <3>2
    <3>6. \A s \in Tenants : plot'[s] = plot[s] \/ (s = t /\ plot'[s] = p)
      BY <3>3
    <3> QED
      BY <3>1, <3>4, <3>5, <3>6 DEF OpeningInv, Manned, Opening!RowsHang
  <2> QED
    BY <2>1, <2>2 DEF Opening!CheckBuilding, Opening!Throw
<1> QED
  BY <1>1, <1>2, <1>3, <1>4, <1>5, <1>6, <1>7, <1>8, <1>9, CallStep

\* What all the other steps leave of a call that is not theirs
LEMMA MovedOn ==
    ASSUME OpeningInv, NEW o \in Openings, NEW at, opening' = [opening EXCEPT ![o].at = at]
    PROVE  /\ \A p \in Openings \ {o} : opening'[p] = opening[p]
           /\ opening'[o].at = at /\ opening'[o].kind = opening[o].kind /\ opening'[o].user = opening[o].user
           /\ opening'[o].tenant = opening[o].tenant /\ opening'[o].slug = opening[o].slug
           /\ opening' = [p \in Openings |-> [kind |-> opening'[p].kind, user |-> opening'[p].user,
                              at |-> opening'[p].at, tenant |-> opening'[p].tenant, slug |-> opening'[p].slug]]
<1>1. opening[o] = [kind |-> opening[o].kind, user |-> opening[o].user, at |-> opening[o].at,
                    tenant |-> opening[o].tenant, slug |-> opening[o].slug]
  BY DEF OpeningInv, OpeningTypes
<1>2. PICK c : c = [kind |-> opening[o].kind, user |-> opening[o].user, at |-> at,
                    tenant |-> opening[o].tenant, slug |-> opening[o].slug]
  OBVIOUS
<1>3. [opening[o] EXCEPT !.at = at] = c
  BY <1>1, <1>2
<1>4. opening' = [opening EXCEPT ![o] = c]
  BY <1>3
<1>5. /\ c.kind = opening[o].kind /\ c.user = opening[o].user /\ c.at = at /\ c.tenant = opening[o].tenant
      /\ c.slug = opening[o].slug
      /\ c = [kind |-> c.kind, user |-> c.user, at |-> c.at, tenant |-> c.tenant, slug |-> c.slug]
  BY <1>2
<1> QED
  BY <1>4, <1>5 DEF OpeningInv, OpeningTypes

LEMMA InsertTenantStep ==
    ASSUME TenantsAreNamed, OpeningInv, NEW o \in Openings, NEW t \in Tenants, Opening!InsertTenant(o, t)
    PROVE  OpeningInv'
<1>1. PICK row : row = [slug |-> opening[o].slug, owners |-> {}, boot |-> opening[o].kind = "bootstrap"]
  OBVIOUS
<1>2. /\ opening[o].at = "tenant" /\ ~Opening!Exists(t)
      /\ tenant' = [tenant EXCEPT ![t] = row]
      /\ opening' = [opening EXCEPT ![o].at = "owner", ![o].tenant = t]
      /\ UNCHANGED <<orgs, plot, crossed, maimed>>
  BY <1>1 DEF Opening!InsertTenant
<1>3. opening[o].user \in Newcomers /\ opening[o].slug \in Slugs /\ opening[o].kind \in {"workspace", "bootstrap"}
  BY <1>2 DEF OpeningInv, Stands
<1>4. /\ row.slug = opening[o].slug /\ row.owners = {} /\ row.boot = (opening[o].kind = "bootstrap")
      /\ row \in [slug : Slugs \cup {"free"}, owners : SUBSET Newcomers, boot : BOOLEAN]
  BY <1>1, <1>3
<1>5. /\ tenant' \in [Tenants -> [slug : Slugs \cup {"free"}, owners : SUBSET Newcomers, boot : BOOLEAN]]
      /\ tenant'[t] = row /\ \A s \in Tenants \ {t} : tenant'[s] = tenant[s]
  BY <1>2, <1>4 DEF OpeningInv, OpeningTypes
<1>6. tenant[t].owners = {} /\ \A s \in Tenants : tenant'[s].owners = tenant[s].owners
  BY <1>2, <1>4, <1>5 DEF OpeningInv, Manned
<1>7. Opening!Exists(t)' /\ \A s \in Tenants : Opening!Exists(s) => Opening!Exists(s)'
  BY <1>3, <1>4, <1>5 DEF Opening!Exists, TenantsAreNamed
<1>8. PICK c : /\ c = [kind |-> opening[o].kind, user |-> opening[o].user, at |-> "owner",
                       tenant |-> t, slug |-> opening[o].slug]
  OBVIOUS
<1>9. opening' = [opening EXCEPT ![o] = c]
  <2>1. opening[o] = [kind |-> opening[o].kind, user |-> opening[o].user, at |-> opening[o].at,
                      tenant |-> opening[o].tenant, slug |-> opening[o].slug]
    BY DEF OpeningInv, OpeningTypes
  <2>2. PICK d : d = [kind |-> opening[o].kind, user |-> opening[o].user, at |-> "owner",
                      tenant |-> opening[o].tenant, slug |-> opening[o].slug]
    OBVIOUS
  <2>3. [opening[o] EXCEPT !.at = "owner"] = d
    BY <2>1, <2>2
  <2>4. [d EXCEPT !.tenant = t] = c
    BY <2>2, <1>8
  <2>5. opening' = [[opening EXCEPT ![o].at = "owner"] EXCEPT ![o].tenant = t]
    BY <1>2
  <2>6. PICK f : f = [opening EXCEPT ![o].at = "owner"]
    OBVIOUS
  <2>7. f = [opening EXCEPT ![o] = d] /\ opening' = [f EXCEPT ![o].tenant = t]
    BY <2>3, <2>5, <2>6
  <2>8. f[o] = d
    BY <2>7 DEF OpeningInv, OpeningTypes
  <2>9. opening' = [f EXCEPT ![o] = c]
    BY <2>4, <2>7, <2>8
  <2> QED
    BY <2>7, <2>9 DEF OpeningInv, OpeningTypes
<1>10. /\ c.kind = opening[o].kind /\ c.user = opening[o].user /\ c.at = "owner" /\ c.tenant = t
       /\ c.slug = opening[o].slug
       /\ c = [kind |-> c.kind, user |-> c.user, at |-> c.at, tenant |-> c.tenant, slug |-> c.slug]
  BY <1>8
<1>11. /\ opening'[o] = c /\ \A p \in Openings \ {o} : opening'[p] = opening[p]
       /\ OpeningTypes'
  <2>1. opening'[o] = c /\ \A p \in Openings \ {o} : opening'[p] = opening[p]
    BY <1>9 DEF OpeningInv, OpeningTypes
  <2>2. opening' = [p \in Openings |-> [kind |-> opening'[p].kind, user |-> opening'[p].user, at |-> opening'[p].at,
                                        tenant |-> opening'[p].tenant, slug |-> opening'[p].slug]]
    BY <1>9, <1>10 DEF OpeningInv, OpeningTypes
  <2> QED
    BY <2>1, <2>2, <1>2, <1>5 DEF OpeningInv, OpeningTypes
<1>12. ASSUME NEW p \in Openings, p # o, opening[p].at \in {"owner"} \cup Rooted PROVE opening[p].tenant # t
  <2>1. Stands(opening[p])
    BY DEF OpeningInv
  <2> QED
    BY <2>1, <1>2, <1>6, <1>12 DEF Stands
<1>13. ASSUME NEW p \in Openings PROVE Stands(opening[p])'
  <2>1. CASE p = o
    BY <2>1, <1>3, <1>4, <1>5, <1>7, <1>10, <1>11 DEF Stands, Rooted
  <2>2. CASE p # o
    <3>1. Stands(opening[p]) /\ opening'[p] = opening[p]
      BY <2>2, <1>11 DEF OpeningInv
    <3>2. opening[p].at \in {"owner"} \cup Rooted => opening[p].tenant \in Tenants \ {t}
      BY <2>2, <3>1, <1>12 DEF Stands
    <3>3. opening[p].at = "org" => opening[p].at \in Rooted
      BY DEF Rooted
    <3> QED
      BY <3>1, <3>2, <3>3, <1>5, <1>7 DEF Stands
  <2> QED
    BY <2>1, <2>2
<1>14. ASSUME NEW p \in Openings, NEW q \in Openings, opening'[p].at = "owner", opening'[q].at = "owner",
              opening'[p].tenant = opening'[q].tenant
       PROVE  p = q
  BY <1>10, <1>11, <1>12, <1>14 DEF OpeningInv
<1>15. ASSUME NEW s \in Tenants PROVE Manned(s)'
  <2>1. Manned(s)
    BY DEF OpeningInv
  <2>2. CASE s = t
    BY <2>1, <2>2, <1>2, <1>6, <1>7, <1>10, <1>11 DEF Manned
  <2>3. CASE s # t
    <3>1. Opening!Exists(s)' = Opening!Exists(s)
      BY <2>3, <1>5 DEF Opening!Exists
    <3>2. \A p \in Openings : opening[p].at = "owner" /\ opening[p].tenant = s =>
              opening'[p].at = "owner" /\ opening'[p].tenant = s
      BY <1>2, <1>11
    <3> QED
      BY <2>1, <3>1, <3>2, <1>2, <1>6 DEF Manned
  <2> QED
    BY <2>2, <2>3
<1>16. ASSUME NEW g \in orgs PROVE Headed(g)'
  <2>1. Headed(g) /\ g.tenant \in Tenants
    BY DEF OpeningInv, OpeningTypes
  <2>2. \A p \in Openings : opening[p].at = "member" => opening'[p] = opening[p]
    BY <1>2, <1>11
  <2> QED
    BY <2>1, <2>2, <1>2, <1>6 DEF Headed
<1>17. ASSUME NEW u \in Newcomers \ crossed' PROVE Once(u)'
  <2>1. Once(u)
    BY <1>2 DEF OpeningInv
  <2>2. Booted(u)' = Booted(u) /\ \A s : ByBoot(s)' = ByBoot(s)
    BY <1>2, <1>5, <1>6 DEF Booted, ByBoot
  <2>3. BootsOf(u)' = BootsOf(u)
    BY <1>2, <1>10, <1>11 DEF BootsOf
  <2>4. ASSUME NEW p \in BootsOf(u)' PROVE MakesFirst(u, opening[p])'
    <3>1. p \in Openings /\ MakesFirst(u, opening[p])
      BY <2>1, <2>3 DEF Once, BootsOf
    <3>2. CASE p = o
      BY <3>1, <3>2, <2>2, <1>2, <1>10, <1>11 DEF MakesFirst
    <3>3. CASE p # o
      BY <3>1, <3>3, <2>2, <1>11 DEF MakesFirst
    <3> QED
      BY <3>2, <3>3
  <2> QED
    BY <2>1, <2>2, <2>3, <2>4, <1>2, <1>6 DEF Once
<1>18. Opening!RowsHang'
  BY <1>2 DEF OpeningInv, Opening!RowsHang
<1> QED
  BY <1>2, <1>11, <1>13, <1>14, <1>15, <1>16, <1>17, <1>18 DEF OpeningInv

LEMMA InsertOwnerStep ==
    ASSUME TenantsAreNamed, OpeningInv, NEW o \in Openings, Opening!InsertOwner(o)
    PROVE  OpeningInv'
<1>1. PICK t \in Tenants : /\ t = opening[o].tenant /\ Opening!Exists(t) /\ tenant[t].owners = {}
                           /\ tenant[t].boot = (opening[o].kind = "bootstrap")
  BY DEF OpeningInv, Stands, Opening!InsertOwner
<1>2. PICK v \in Newcomers : v = opening[o].user
  BY DEF OpeningInv, Stands, Opening!InsertOwner
<1>3. opening[o].at = "owner" /\ opening[o].slug \in Slugs /\ opening[o].kind \in {"workspace", "bootstrap"}
  BY DEF OpeningInv, Stands, Opening!InsertOwner
<1>4. /\ tenant' = [tenant EXCEPT ![t].owners = @ \cup {v}]
      /\ UNCHANGED <<orgs, plot, crossed, maimed>>
  BY <1>1, <1>2 DEF Opening!InsertOwner
<1>5. PICK at : at = IF opening[o].kind = "workspace" THEN "done" ELSE "org"
  OBVIOUS
<1>6. opening' = [opening EXCEPT ![o].at = at]
  BY <1>5 DEF Opening!InsertOwner, Opening!Move
<1>7. /\ tenant'[t].owners = {v} /\ tenant'[t].boot = tenant[t].boot /\ tenant'[t].slug = tenant[t].slug
      /\ \A s \in Tenants \ {t} : tenant'[s] = tenant[s]
      /\ tenant' \in [Tenants -> [slug : Slugs \cup {"free"}, owners : SUBSET Newcomers, boot : BOOLEAN]]
  BY <1>1, <1>4 DEF OpeningInv, OpeningTypes
<1>8. \A s \in Tenants : Opening!Exists(s)' = Opening!Exists(s)
  BY <1>7 DEF Opening!Exists
<1>9. /\ \A p \in Openings \ {o} : opening'[p] = opening[p]
      /\ opening'[o].at = at /\ opening'[o].kind = opening[o].kind /\ opening'[o].user = v
      /\ opening'[o].tenant = t /\ opening'[o].slug = opening[o].slug
      /\ OpeningTypes'
  BY <1>1, <1>2, <1>4, <1>6, <1>7, MovedOn DEF OpeningInv, OpeningTypes
<1>10. ASSUME NEW p \in Openings, p # o, opening[p].at \in {"owner"} \cup Rooted PROVE opening[p].tenant # t
  <2>1. Stands(opening[p])
    BY DEF OpeningInv
  <2>2. opening[p].at = "owner" => opening[p].tenant # t
    BY <1>1, <1>3, <1>10 DEF OpeningInv
  <2> QED
    BY <2>1, <2>2, <1>1, <1>10 DEF Stands
<1>11. ASSUME NEW p \in Openings PROVE Stands(opening[p])'
  <2>1. CASE p = o
    BY <2>1, <1>3, <1>5, <1>7, <1>9 DEF Stands, Rooted
  <2>2. CASE p # o
    <3>1. Stands(opening[p]) /\ opening'[p] = opening[p]
      BY <2>2, <1>9 DEF OpeningInv
    <3>2. opening[p].at \in {"owner"} \cup Rooted => opening[p].tenant \in Tenants \ {t}
      BY <2>2, <3>1, <1>10 DEF Stands
    <3>3. opening[p].at = "org" => opening[p].at \in Rooted
      BY DEF Rooted
    <3> QED
      BY <3>1, <3>2, <3>3, <1>7, <1>8 DEF Stands
  <2> QED
    BY <2>1, <2>2
<1>12. ASSUME NEW p \in Openings, NEW q \in Openings, opening'[p].at = "owner", opening'[q].at = "owner",
              opening'[p].tenant = opening'[q].tenant
       PROVE  p = q
  BY <1>5, <1>9, <1>12 DEF OpeningInv
<1>13. ASSUME NEW s \in Tenants PROVE Manned(s)'
  <2>1. Manned(s)
    BY DEF OpeningInv
  <2>2. CASE s = t
    BY <2>1, <2>2, <1>1, <1>4, <1>7, <1>8 DEF Manned
  <2>3. CASE s # t
    <3>1. \A p \in Openings : opening[p].at = "owner" /\ opening[p].tenant = s =>
              opening'[p].at = "owner" /\ opening'[p].tenant = s
      BY <2>3, <1>1, <1>9
    <3> QED
      BY <2>1, <2>3, <3>1, <1>4, <1>7, <1>8 DEF Manned
  <2> QED
    BY <2>2, <2>3
<1>14. ASSUME NEW g \in orgs PROVE Headed(g)' /\ g.tenant # t
  <2>1. Headed(g) /\ g.tenant \in Tenants
    BY DEF OpeningInv, OpeningTypes
  <2>2. \A p \in Openings : opening[p].at = "member" => opening'[p] = opening[p]
    BY <1>3, <1>9
  <2>3. g.tenant # t
    BY <2>1, <1>1 DEF Headed
  <2> QED
    BY <2>1, <2>2, <2>3, <1>4, <1>7 DEF Headed
<1>15. ASSUME NEW u \in Newcomers \ crossed' PROVE Once(u)'
  <2>1. Once(u)
    BY <1>4 DEF OpeningInv
  <2>2. Booted(u)' = IF u = v /\ opening[o].kind = "bootstrap" THEN Booted(u) \cup {t} ELSE Booted(u)
    BY <1>1, <1>7 DEF Booted
  <2>3. ByBoot(t) = {} /\ \A s : ByBoot(s)' = ByBoot(s)
    BY <1>4, <1>14 DEF ByBoot
  <2>4. BootsOf(u)' = BootsOf(u)
    <3>1. CASE opening[o].kind = "workspace"
      <4>1. o \notin BootsOf(u) /\ o \notin BootsOf(u)'
        BY <3>1, <1>9 DEF BootsOf, Boots
      <4>2. \A p \in Openings \ {o} : p \in BootsOf(u)' <=> p \in BootsOf(u)
        BY <1>9 DEF BootsOf
      <4>3. BootsOf(u) \subseteq Openings /\ BootsOf(u)' \subseteq Openings
        BY DEF BootsOf
      <4> QED
        BY <4>1, <4>2, <4>3
    <3>2. CASE opening[o].kind # "workspace"
      <4>1. o \in BootsOf(u)' <=> o \in BootsOf(u)
        BY <3>2, <1>2, <1>3, <1>5, <1>9 DEF BootsOf
      <4>2. \A p \in Openings \ {o} : p \in BootsOf(u)' <=> p \in BootsOf(u)
        BY <1>9 DEF BootsOf
      <4>3. BootsOf(u) \subseteq Openings /\ BootsOf(u)' \subseteq Openings
        BY DEF BootsOf
      <4> QED
        BY <4>1, <4>2, <4>3
    <3> QED
      BY <3>1, <3>2
  <2>5. u = v /\ opening[o].kind = "bootstrap" => o \in BootsOf(u) /\ Booted(u) = {}
    <3>1. u = v /\ opening[o].kind = "bootstrap" => o \in BootsOf(u)
      BY <1>2, <1>3 DEF BootsOf, Boots
    <3>2. o \in BootsOf(u) => Booted(u) = {}
      BY <2>1, <1>3 DEF Once, MakesFirst
    <3> QED
      BY <3>1, <3>2
  <2>6. ASSUME NEW p \in BootsOf(u)' PROVE MakesFirst(u, opening[p])'
    <3>1. p \in Openings /\ MakesFirst(u, opening[p]) /\ p \in BootsOf(u)
      BY <2>1, <2>4, <2>6 DEF Once, BootsOf
    <3>2. CASE p = o
      BY <3>1, <3>2, <2>3, <1>5, <1>9 DEF MakesFirst
    <3>3. CASE p # o
      <4>1. opening'[p] = opening[p]
        BY <3>1, <3>3, <1>9
      <4>2. ~(u = v /\ opening[o].kind = "bootstrap")
        BY <3>1, <3>3, <2>1, <2>5 DEF Once
      <4>3. Booted(u)' = Booted(u)
        BY <4>2, <2>2
      <4> QED
        BY <3>1, <4>1, <4>3, <2>3 DEF MakesFirst
    <3> QED
      BY <3>2, <3>3
  <2>7. \A r, s \in Booted(u)' : r = s
    BY <2>1, <2>2, <2>5 DEF Once
  <2>8. ASSUME NEW s \in Tenants, u \in tenant'[s].owners PROVE \A g, h \in ByBoot(s)' : g = h
    <3>1. s # t => u \in tenant[s].owners
      BY <2>8, <1>7
    <3> QED
      BY <3>1, <2>1, <2>3 DEF Once
  <2>9. \A p, q \in BootsOf(u)' : p = q
    BY <2>1, <2>4 DEF Once
  <2> QED
    BY <2>6, <2>7, <2>8, <2>9 DEF Once
<1>16. Opening!RowsHang'
  BY <1>4 DEF OpeningInv, Opening!RowsHang
<1>17. \A g \in orgs' : Headed(g)'
  BY <1>4, <1>14
<1> QED
  BY <1>9, <1>11, <1>12, <1>13, <1>15, <1>16, <1>17 DEF OpeningInv

\* An organization is written: the first one by bootstrap, when a bootstrap writes it.
LEMMA InsertOrganizationStep ==
    ASSUME TenantsAreNamed, OpeningInv, NEW o \in Openings, NEW type \in {"owner", "vendor"},
           Opening!InsertOrganization(o, type)
    PROVE  OpeningInv'
<1>1. PICK t \in Tenants : /\ t = opening[o].tenant /\ tenant[t].owners # {} /\ opening[o].slug \in Slugs
                           /\ opening[o].kind \in {"organization", "bootstrap", "retry"}
                           /\ opening[o].kind \in Boots => opening[o].user \in tenant[t].owners
  BY DEF OpeningInv, Stands, Rooted, Opening!InsertOrganization
<1>2. PICK new : new = [tenant |-> t, slug |-> opening[o].slug, type |-> type, admin |-> FALSE, by |-> opening[o].kind]
  OBVIOUS
<1>3. /\ new.tenant = t /\ new.slug = opening[o].slug /\ new.type = type /\ ~new.admin /\ new.by = opening[o].kind
      /\ new \in [tenant : Tenants, slug : Slugs, type : {"owner", "vendor"}, admin : BOOLEAN,
                  by : {"organization", "bootstrap", "retry"}]
  BY <1>1, <1>2
<1>4. /\ opening[o].at = "org" /\ orgs' = orgs \cup {new}
      /\ opening[o].kind \in Boots => type = "owner"
      /\ UNCHANGED <<tenant, plot, crossed, maimed>>
  BY <1>1, <1>2 DEF Opening!InsertOrganization, Boots
<1>5. PICK at : at = IF opening[o].kind = "retry" THEN "check" ELSE "member"
  OBVIOUS
<1>6. opening' = [opening EXCEPT ![o].at = at]
  BY <1>5 DEF Opening!InsertOrganization, Opening!Move
<1>7. /\ \A p \in Openings \ {o} : opening'[p] = opening[p]
      /\ opening'[o].at = at /\ opening'[o].kind = opening[o].kind /\ opening'[o].user = opening[o].user
      /\ opening'[o].tenant = t /\ opening'[o].slug = opening[o].slug
      /\ OpeningTypes'
  BY <1>1, <1>3, <1>4, <1>6, MovedOn DEF OpeningInv, OpeningTypes
<1>8. ASSUME NEW p \in Openings PROVE Stands(opening[p])'
  <2>1. CASE p = o
    BY <2>1, <1>1, <1>4, <1>5, <1>7 DEF Stands, Rooted
  <2>2. CASE p # o
    <3>1. Stands(opening[p]) /\ opening'[p] = opening[p]
      BY <2>2, <1>7 DEF OpeningInv
    <3> QED
      BY <3>1, <1>4 DEF Stands, Opening!Exists
  <2> QED
    BY <2>1, <2>2
<1>9. ASSUME NEW p \in Openings, NEW q \in Openings, opening'[p].at = "owner", opening'[q].at = "owner",
             opening'[p].tenant = opening'[q].tenant
      PROVE  p = q
  <2>1. p # o /\ q # o
    BY <1>5, <1>7, <1>9
  <2> QED
    BY <2>1, <1>7, <1>9 DEF OpeningInv
<1>10. ASSUME NEW s \in Tenants PROVE Manned(s)'
  <2>1. Manned(s)
    BY DEF OpeningInv
  <2>2. \A p \in Openings : opening[p].at = "owner" => opening'[p] = opening[p]
    BY <1>4, <1>7
  <2> QED
    BY <2>1, <2>2, <1>4 DEF Manned, Opening!Exists
<1>11. ASSUME NEW g \in orgs' PROVE Headed(g)'
  <2>1. CASE g \in orgs
    <3>1. Headed(g)
      BY <2>1 DEF OpeningInv
    <3>2. \A p \in Openings : opening[p].at = "member" => opening'[p] = opening[p]
      BY <1>4, <1>7
    <3> QED
      BY <3>1, <3>2, <1>4 DEF Headed
  <2>2. CASE g = new
    <3>1. tenant'[g.tenant].owners # {} /\ (g.by \in Boots => g.type = "owner")
      BY <2>2, <1>1, <1>3, <1>4
    <3>2. g.by = "retry" \/ (opening'[o].at = "member" /\ opening'[o].tenant = g.tenant /\ opening'[o].slug = g.slug)
      BY <2>2, <1>3, <1>5, <1>7
    <3> QED
      BY <3>1, <3>2 DEF Headed
  <2> QED
    BY <2>1, <2>2, <1>4
<1>12. ASSUME NEW u \in Newcomers \ crossed' PROVE Once(u)'
  <2>1. Once(u)
    BY <1>4 DEF OpeningInv
  <2>2. Booted(u)' = Booted(u) /\ \A s : s # t => ByBoot(s)' = ByBoot(s)
    BY <1>3, <1>4 DEF Booted, ByBoot
  <2>3. opening[o].kind \notin Boots => ByBoot(t)' = ByBoot(t)
    BY <1>3, <1>4 DEF ByBoot
  <2>4. ByBoot(t)' \subseteq ByBoot(t) \cup {new}
    BY <1>4 DEF ByBoot
  <2>5. BootsOf(u)' = BootsOf(u)
    BY <1>4, <1>5, <1>7 DEF BootsOf
  <2>6. ASSUME u \in tenant[t].owners, opening[o].kind \in Boots
        PROVE  o \in BootsOf(u) /\ ByBoot(t) = {}
    <3>1. opening[o].user = u
      BY <2>6, <1>1 DEF OpeningInv, Manned
    <3>2. o \in BootsOf(u)
      BY <2>6, <3>1, <1>4 DEF BootsOf
    <3> QED
      BY <3>2, <2>1, <1>1, <1>4 DEF Once, MakesFirst
  <2>7. ASSUME NEW p \in BootsOf(u)' PROVE MakesFirst(u, opening[p])'
    <3>1. p \in Openings /\ p \in BootsOf(u) /\ MakesFirst(u, opening[p])
      BY <2>1, <2>5, <2>7 DEF Once, BootsOf
    <3>2. CASE p = o
      BY <3>2, <1>5, <1>7 DEF MakesFirst
    <3>3. CASE p # o
      <4>1. opening'[p] = opening[p]
        BY <3>1, <3>3, <1>7
      <4>2. ASSUME opening[p].at = "org", opening[p].tenant = t PROVE ByBoot(t)' = ByBoot(t)
        <5>1. u \in tenant[t].owners
          BY <4>2, <3>1 DEF OpeningInv, Stands, BootsOf
        <5> QED
          BY <5>1, <3>1, <3>3, <2>1, <2>3, <2>6 DEF Once
      <4> QED
        BY <3>1, <4>1, <4>2, <2>2 DEF MakesFirst
    <3> QED
      BY <3>2, <3>3
  <2>8. ASSUME NEW s \in Tenants, u \in tenant'[s].owners PROVE \A g, h \in ByBoot(s)' : g = h
    <3>1. u \in tenant[s].owners /\ \A g, h \in ByBoot(s) : g = h
      BY <2>8, <2>1, <1>4 DEF Once
    <3>2. CASE s = t /\ opening[o].kind \in Boots
      <4>1. ByBoot(t) = {}
        BY <3>1, <3>2, <2>6
      <4> QED
        BY <4>1, <3>2, <2>4
    <3>3. CASE ~(s = t /\ opening[o].kind \in Boots)
      BY <3>1, <3>3, <2>2, <2>3
    <3> QED
      BY <3>2, <3>3
  <2> QED
    BY <2>1, <2>2, <2>5, <2>7, <2>8 DEF Once
<1>13. Opening!RowsHang'
  BY <1>4 DEF OpeningInv, Opening!RowsHang
<1> QED
  BY <1>7, <1>8, <1>9, <1>10, <1>11, <1>12, <1>13 DEF OpeningInv

\* The administrator of an organization is written: its row is another one from then on.
LEMMA InsertOrgAdminStep ==
    ASSUME TenantsAreNamed, OpeningInv, NEW o \in Openings, Opening!InsertOrgAdmin(o)
    PROVE  OpeningInv'
<1> DEFINE held(g) == IF g.tenant = opening[o].tenant /\ g.slug = opening[o].slug
                      THEN [g EXCEPT !.admin = TRUE] ELSE g
<1>1. /\ opening[o].at = "member" /\ orgs' = {held(g) : g \in orgs}
      /\ UNCHANGED <<tenant, plot, crossed, maimed>>
  BY DEF Opening!InsertOrgAdmin
<1>2. PICK at : at = IF opening[o].kind = "bootstrap" THEN "check" ELSE "done"
  OBVIOUS
<1>3. opening' = [opening EXCEPT ![o].at = at]
  BY <1>2 DEF Opening!InsertOrgAdmin, Opening!Move
<1>4. ASSUME NEW g \in orgs
      PROVE  /\ held(g) \in [tenant : Tenants, slug : Slugs, type : {"owner", "vendor"}, admin : BOOLEAN,
                             by : {"organization", "bootstrap", "retry"}]
             /\ held(g).tenant = g.tenant /\ held(g).slug = g.slug /\ held(g).type = g.type /\ held(g).by = g.by
             /\ held(g).admin = (g.admin \/ (g.tenant = opening[o].tenant /\ g.slug = opening[o].slug))
  <2>1. g \in [tenant : Tenants, slug : Slugs, type : {"owner", "vendor"}, admin : BOOLEAN,
               by : {"organization", "bootstrap", "retry"}]
    BY DEF OpeningInv, OpeningTypes
  <2>2. CASE g.tenant = opening[o].tenant /\ g.slug = opening[o].slug
    <3>1. held(g) = [g EXCEPT !.admin = TRUE]
      BY <2>2
    <3> QED
      BY <3>1, <2>1, <2>2
  <2>3. CASE ~(g.tenant = opening[o].tenant /\ g.slug = opening[o].slug)
    <3>1. held(g) = g
      BY <2>3
    <3> QED
      BY <3>1, <2>1, <2>3
  <2> QED
    BY <2>2, <2>3
<1> HIDE DEF held
<1>5. /\ \A p \in Openings \ {o} : opening'[p] = opening[p]
      /\ opening'[o].at = at /\ opening'[o].kind = opening[o].kind /\ opening'[o].user = opening[o].user
      /\ opening'[o].tenant = opening[o].tenant /\ opening'[o].slug = opening[o].slug
      /\ OpeningTypes'
  <2>1. orgs' \subseteq [tenant : Tenants, slug : Slugs, type : {"owner", "vendor"}, admin : BOOLEAN,
                         by : {"organization", "bootstrap", "retry"}]
    BY <1>1, <1>4
  <2> QED
    BY <2>1, <1>1, <1>3, MovedOn DEF OpeningInv, OpeningTypes
<1>6. ASSUME NEW p \in Openings PROVE Stands(opening[p])'
  <2>1. CASE p = o
    <3>1. Stands(opening[o])
      BY DEF OpeningInv
    <3> QED
      BY <3>1, <2>1, <1>1, <1>2, <1>5 DEF Stands, Rooted
  <2>2. CASE p # o
    <3>1. Stands(opening[p]) /\ opening'[p] = opening[p]
      BY <2>2, <1>5 DEF OpeningInv
    <3> QED
      BY <3>1, <1>1 DEF Stands, Opening!Exists
  <2> QED
    BY <2>1, <2>2
<1>7. ASSUME NEW p \in Openings, NEW q \in Openings, opening'[p].at = "owner", opening'[q].at = "owner",
             opening'[p].tenant = opening'[q].tenant
      PROVE  p = q
  <2>1. p # o /\ q # o
    BY <1>2, <1>5, <1>7
  <2> QED
    BY <2>1, <1>5, <1>7 DEF OpeningInv
<1>8. ASSUME NEW s \in Tenants PROVE Manned(s)'
  <2>1. Manned(s)
    BY DEF OpeningInv
  <2>2. \A p \in Openings : opening[p].at = "owner" => opening'[p] = opening[p]
    BY <1>1, <1>5
  <2> QED
    BY <2>1, <2>2, <1>1 DEF Manned, Opening!Exists
<1>9. ASSUME NEW h \in orgs' PROVE Headed(h)'
  <2>1. PICK g \in orgs : h = held(g)
    BY <1>1
  <2>2. Headed(g)
    BY DEF OpeningInv
  <2>3. /\ h.tenant = g.tenant /\ h.slug = g.slug /\ h.type = g.type /\ h.by = g.by
        /\ h.admin = (g.admin \/ (g.tenant = opening[o].tenant /\ g.slug = opening[o].slug))
    BY <2>1, <1>4
  <2>4. ASSUME NEW p \in Openings, opening[p].at = "member", opening[p].tenant = g.tenant, opening[p].slug = g.slug
        PROVE  h.admin \/ (opening'[p].at = "member" /\ opening'[p].tenant = h.tenant /\ opening'[p].slug = h.slug)
    BY <2>3, <2>4, <1>5
  <2> QED
    BY <2>2, <2>3, <2>4, <1>1 DEF Headed
<1>10. ASSUME NEW u \in Newcomers \ crossed' PROVE Once(u)'
  <2>1. Once(u)
    BY <1>1 DEF OpeningInv
  <2>2. Booted(u)' = Booted(u)
    BY <1>1 DEF Booted
  <2>3. \A s : ByBoot(s)' = {held(g) : g \in ByBoot(s)}
    <3>1. ASSUME NEW s PROVE ByBoot(s)' = {held(g) : g \in ByBoot(s)}
      <4>1. ASSUME NEW h \in ByBoot(s)' PROVE \E g \in ByBoot(s) : h = held(g)
        <5>1. PICK g \in orgs : h = held(g)
          BY <1>1 DEF ByBoot
        <5>2. g \in ByBoot(s)
          BY <5>1, <1>4 DEF ByBoot
        <5> QED
          BY <5>1, <5>2
      <4>2. ASSUME NEW g \in ByBoot(s) PROVE held(g) \in ByBoot(s)'
        BY <1>1, <1>4 DEF ByBoot
      <4> QED
        BY <4>1, <4>2
    <3> QED
      BY <3>1
  <2>4. BootsOf(u)' \subseteq BootsOf(u)
    BY <1>1, <1>5 DEF BootsOf
  <2>5. ASSUME NEW p \in BootsOf(u)' PROVE MakesFirst(u, opening[p])'
    <3>1. p \in Openings /\ MakesFirst(u, opening[p])
      BY <2>1, <2>4, <2>5 DEF Once, BootsOf
    <3>2. CASE p = o
      BY <3>2, <1>2, <1>5 DEF MakesFirst
    <3>3. CASE p # o
      BY <3>1, <3>3, <2>2, <2>3, <1>5 DEF MakesFirst
    <3> QED
      BY <3>2, <3>3
  <2>6. ASSUME NEW s \in Tenants, u \in tenant'[s].owners PROVE \A g, h \in ByBoot(s)' : g = h
    <3>1. \A g, h \in ByBoot(s) : g = h
      BY <2>6, <2>1, <1>1 DEF Once
    <3> QED
      BY <3>1, <2>3
  <2>7. \A p, q \in BootsOf(u)' : p = q
    BY <2>1, <2>4 DEF Once
  <2> QED
    BY <2>1, <2>2, <2>5, <2>6, <2>7 DEF Once
<1>11. Opening!RowsHang'
  BY <1>1 DEF OpeningInv, Opening!RowsHang
<1> QED
  BY <1>5, <1>6, <1>7, <1>8, <1>9, <1>10, <1>11 DEF OpeningInv

\* A change of the building hangs its floors and its unit anew.
LEMMA UpdateBuildingStep ==
    ASSUME OpeningInv, NEW t \in Tenants, NEW doors \in SUBSET Doors, NEW relay \in BOOLEAN,
           NEW floors \in Opening!FloorPlans(doors), Opening!UpdateBuilding(t, doors, floors, relay)
    PROVE  OpeningInv'
<1>1. PICK hung : hung = IF relay THEN floors
                         ELSE [n \in DOMAIN plot[t].floors |->
                                  IF plot[t].floors[n] \in doors THEN plot[t].floors[n] ELSE "none"]
  OBVIOUS
<1>2. PICK p : p = [built |-> TRUE, doors |-> doors, floors |-> hung,
                    unit |-> IF relay THEN "none" ELSE plot[t].unit, relaid |-> plot[t].relaid \/ relay]
  OBVIOUS
<1>3. plot' = [plot EXCEPT ![t] = p] /\ plot[t].built /\ UNCHANGED <<tenant, orgs, opening, crossed, maimed>>
  BY <1>1, <1>2 DEF Opening!UpdateBuilding
<1>4. \A n \in DOMAIN hung : hung[n] \in doors \cup {"none"}
  BY <1>1 DEF Opening!FloorPlans
<1>5. ~relay => DOMAIN hung = DOMAIN plot[t].floors
  BY <1>1
<1>6. /\ p.doors = doors /\ p.floors = hung /\ p.unit = (IF relay THEN "none" ELSE plot[t].unit)
      /\ p.relaid = (plot[t].relaid \/ relay)
  BY <1>2
<1>7. \A s \in Tenants : plot'[s] = plot[s] \/ (s = t /\ plot'[s] = p)
  BY <1>3
<1>8. Opening!RowsHang'
  <2>1. Opening!RowsHang
    BY DEF OpeningInv
  <2>2. p.unit \in DOMAIN p.floors \cup {"none"} /\ (p.relaid => p.unit = "none")
    BY <2>1, <1>5, <1>6 DEF Opening!RowsHang
  <2>3. \A n \in DOMAIN p.floors : p.floors[n] \in p.doors \cup {"none"}
    BY <1>4, <1>6
  <2> QED
    BY <2>1, <2>2, <2>3, <1>7 DEF Opening!RowsHang
<1>9. \A s \in Tenants : Manned(s)'
  BY <1>3, <1>7 DEF OpeningInv, Manned, Opening!Exists
<1>10. \A o \in Openings : Stands(opening[o])'
  BY <1>3 DEF OpeningInv, Stands, Opening!Exists
<1>11. \A g \in orgs' : Headed(g)'
  BY <1>3 DEF OpeningInv, Headed
<1>12. \A u \in Newcomers \ crossed' : Once(u)'
  BY <1>3 DEF OpeningInv, Once, MakesFirst, Booted, ByBoot, BootsOf
<1>13. OpeningTypes'
  BY <1>3 DEF OpeningInv, OpeningTypes
<1> QED
  BY <1>3, <1>8, <1>9, <1>10, <1>11, <1>12, <1>13 DEF OpeningInv

\* The library's count is the module's.
LEMMA CardinalityOfOnboarding == \A S : Opening!Cardinality(S) = Cardinality(S)
BY DEF Opening!Cardinality, Cardinality

LEMMA AtMostOne ==
    ASSUME NEW S, \A x, y \in S : x = y
    PROVE  Opening!Cardinality(S) <= 1
<1>1. CASE S = {}
  <2>1. Cardinality({}) = 0
    BY FS_EmptySet
  <2> QED
    BY <1>1, <2>1, CardinalityOfOnboarding
<1>2. CASE S # {}
  <2>1. PICK x \in S : S = {x}
    BY <1>2
  <2>2. Cardinality({x}) = 1
    BY FS_Singleton
  <2>3. Opening!Cardinality(S) = 1
    BY <2>1, <2>2, CardinalityOfOnboarding
  <2> QED
    BY <2>3
<1> QED
  BY <1>1, <1>2

\* The inductive argument about the calls that open workspaces, organizations and buildings.
LEMMA OpeningInductive ==
    ASSUME TenantsAreNamed
    PROVE  /\ Opening!Init => OpeningInv
           /\ OpeningInv /\ [Opening!Next]_(Opening!vars) => OpeningInv'
           /\ OpeningInv => Opening!Provisioned
<1>1. Opening!Init => OpeningInv
  <2> SUFFICES ASSUME Opening!Init PROVE OpeningInv
    OBVIOUS
  <2>1. \A o \in Openings : opening[o] = [kind |-> "none", user |-> "none", at |-> "idle", tenant |-> "none", slug |-> "none"]
    BY DEF Opening!Init, Opening!NotOpened
  <2>2. \A o \in Openings : opening[o].at = "idle" /\ opening[o].kind = "none"
    BY <2>1
  <2>3. opening = [o \in Openings |-> [kind |-> opening[o].kind, user |-> opening[o].user, at |-> opening[o].at,
                                       tenant |-> opening[o].tenant, slug |-> opening[o].slug]]
    BY <2>1 DEF Opening!Init, Opening!NotOpened
  <2>4. \A t \in Tenants : tenant[t].owners = {} /\ ~Opening!Exists(t) /\ ~tenant[t].boot
    BY DEF Opening!Init, Opening!Exists
  <2>5. OpeningTypes
    BY <2>3 DEF Opening!Init, OpeningTypes
  <2>6. \A o \in Openings : Stands(opening[o])
    BY <2>2 DEF Stands, Rooted
  <2>7. \A t \in Tenants : plot[t] = Opening!NoPlot
    BY DEF Opening!Init
  <2>8. \A t \in Tenants : /\ ~plot[t].built /\ ~plot[t].relaid /\ plot[t].unit = "none"
                           /\ DOMAIN plot[t].floors = {}
    BY <2>7 DEF Opening!NoPlot
  <2>9. Opening!RowsHang
    BY <2>8 DEF Opening!RowsHang
  <2>10. \A t \in Tenants : Manned(t)
    BY <2>4, <2>8 DEF Manned
  <2>11. \A u : Once(u)
    BY <2>2, <2>4 DEF Opening!Init, Once, BootsOf, Booted, ByBoot, Boots
  <2> QED
    BY <2>2, <2>5, <2>6, <2>9, <2>10, <2>11 DEF Opening!Init, OpeningInv
<1>2. OpeningInv /\ [Opening!Next]_(Opening!vars) => OpeningInv'
  <2> SUFFICES ASSUME OpeningInv, [Opening!Next]_(Opening!vars) PROVE OpeningInv'
    OBVIOUS
  <2>1. ASSUME NEW o \in Openings, NEW u \in Newcomers, NEW slug \in Slugs,
               \/ Opening!OpenWorkspace(o, u, slug) \/ Opening!Bootstrap(o, u, slug)
               \/ \E t \in Tenants : Opening!OpenOrganization(o, u, t, slug)
        PROVE  OpeningInv'
    BY <2>1, OpenSteps, BootstrapStep
  <2>2. ASSUME NEW o \in Openings, NEW u \in Newcomers, NEW t \in Tenants, Opening!OpenBuilding(o, u, t)
        PROVE  OpeningInv'
    BY <2>2, OpenSteps
  <2>3. ASSUME NEW o \in Openings, \E t \in Tenants : Opening!InsertTenant(o, t)
        PROVE  OpeningInv'
    BY <2>3, InsertTenantStep
  <2>4. ASSUME NEW o \in Openings, Opening!InsertOwner(o) PROVE OpeningInv'
    BY <2>4, InsertOwnerStep
  <2>5. ASSUME NEW o \in Openings, Opening!InsertOrgAdmin(o) PROVE OpeningInv'
    BY <2>5, InsertOrgAdminStep
  <2>6. ASSUME NEW o \in Openings, \E type \in {"owner", "vendor"} : Opening!InsertOrganization(o, type)
        PROVE  OpeningInv'
    BY <2>6, InsertOrganizationStep
  <2>7. ASSUME NEW o \in Openings,
               \/ Opening!CheckBuilding(o) \/ Opening!Throw(o)
               \/ \E doors \in SUBSET Doors : \E floors \in Opening!FloorPlans(doors) :
                      \E unit \in DOMAIN floors \cup {"none"} : Opening!InsertBuilding(o, doors, floors, unit)
        PROVE  OpeningInv'
    BY <2>7, OnwardSteps
  <2>8. ASSUME NEW t \in Tenants, NEW doors \in SUBSET Doors, NEW relay \in BOOLEAN,
               NEW floors \in Opening!FloorPlans(doors), Opening!UpdateBuilding(t, doors, floors, relay)
        PROVE  OpeningInv'
    BY <2>8, UpdateBuildingStep
  <2>9. CASE UNCHANGED Opening!vars
    <3>1. UNCHANGED <<tenant, orgs, plot, opening, crossed, maimed>>
      BY <2>9 DEF Opening!vars
    <3>2. OpeningTypes' /\ Opening!RowsHang'
      BY <3>1 DEF OpeningInv, OpeningTypes, Opening!RowsHang
    <3>3. \A o \in Openings : Stands(opening[o])'
      BY <3>1 DEF OpeningInv, Stands, Opening!Exists
    <3>4. (\A t \in Tenants : Manned(t)') /\ \A g \in orgs' : Headed(g)'
      BY <3>1 DEF OpeningInv, Manned, Headed, Opening!Exists
    <3>5. \A u \in Newcomers \ crossed' : Once(u)'
      BY <3>1 DEF OpeningInv, Once, MakesFirst, Booted, ByBoot, BootsOf
    <3> QED
      BY <3>1, <3>2, <3>3, <3>4, <3>5 DEF OpeningInv
  <2> QED
    BY <2>1, <2>2, <2>3, <2>4, <2>5, <2>6, <2>7, <2>8, <2>9 DEF Opening!Next
<1>3. OpeningInv => Opening!Provisioned
  <2> SUFFICES ASSUME OpeningInv PROVE Opening!Provisioned
    OBVIOUS
  <2>1. ASSUME NEW t \in Tenants, Opening!Exists(t), ~Opening!Busy(t), t \notin maimed
        PROVE  /\ tenant[t].owners # {}
               /\ \A g \in orgs : g.tenant = t => g.admin \/ g.by = "retry"
    <3>1. \A o \in Openings : opening[o].tenant = t => opening[o].at = "done"
      BY <2>1 DEF Opening!Busy
    <3> QED
      BY <3>1, <2>1 DEF OpeningInv, Manned, Headed
  <2>2. ASSUME NEW u \in Newcomers \ crossed
        PROVE  /\ Opening!Cardinality({t \in Tenants : u \in tenant[t].owners /\ tenant[t].boot}) <= 1
               /\ \A t \in Tenants : u \in tenant[t].owners =>
                      Opening!Cardinality({g \in Opening!OwnerOrgs(t) : g.by \in {"bootstrap", "retry"}}) <= 1
    <3>1. Once(u)
      BY DEF OpeningInv
    <3>2. Opening!Cardinality(Booted(u)) <= 1
      BY <3>1, AtMostOne DEF Once
    <3>3. ASSUME NEW t \in Tenants, u \in tenant[t].owners
          PROVE  Opening!Cardinality({g \in Opening!OwnerOrgs(t) : g.by \in {"bootstrap", "retry"}}) <= 1
      <4>1. \A g, h \in {k \in Opening!OwnerOrgs(t) : k.by \in {"bootstrap", "retry"}} : g = h
        BY <3>1, <3>3 DEF Once, ByBoot, Boots, Opening!OwnerOrgs
      <4> QED
        BY <4>1, AtMostOne
    <3> QED
      BY <3>2, <3>3 DEF Booted
  <2>3. (\A t \in Tenants : plot[t].built => tenant[t].owners # {}) /\ Opening!RowsHang
    BY DEF OpeningInv, Manned
  <2> QED
    BY <2>1, <2>2, <2>3 DEF Opening!Provisioned
<1> QED
  BY <1>1, <1>2, <1>3

\* onboarding.service.ts:35-140 and :418-535, for any users, slugs and calls: a workspace that no call
\* works on and none stopped in has an owner, and a user bootstraps one, unless bootstraps overlap.
THEOREM ProvisionedCorrect ==
    ASSUME TenantsAreNamed
    PROVE  Opening!Spec => []Opening!Provisioned
BY OpeningInductive, PTL DEF Opening!Spec
-----------------------------------------------------------------------------
(* Operations: the parts together *)

\* A step of the operations is one of the part in focus.
LEMMA OperationSteps ==
    ASSUME [MCNext]_mcVars
    PROVE  /\ focus' = focus
           /\ focus = "import" => [Import!Next]_(Import!vars)
           /\ focus = "opening" => [Opening!Next]_(Opening!vars)
           /\ focus = "rounds" => [Duty!Next]_(Duty!vars)
<1>1. CASE UNCHANGED mcVars
  BY <1>1 DEF mcVars, importVars, openingVars, dutyVars, roundVars,
         Import!vars, Opening!vars, Duty!vars, Duty!dutyVars, Duty!roundVars
<1>2. CASE MCNext
  <2>1. focus' = focus
    BY <1>2 DEF MCNext
  <2>2. focus = "import" => Import!Next
    BY <1>2 DEF MCNext
  <2>3. focus = "opening" => Opening!Next
    BY <1>2 DEF MCNext
  <2>4. focus = "rounds" => Duty!Next
    <3>1. focus = "rounds" => Duty!RoundNext /\ UNCHANGED <<dutyVars>>
      BY <1>2 DEF MCNext
    <3> QED
      BY <3>1 DEF dutyVars, Duty!dutyVars, Duty!Next
  <2> QED
    BY <2>1, <2>2, <2>3, <2>4
<1> QED
  BY <1>1, <1>2

\* imports.service.ts:119-280, onboarding.service.ts:35-535, rounds.service.ts:31-150, in the operations: what
\* is written by several statements is there as a whole, but for calls that are cut, overlap or meet a taken order.
THEOREM OperationsWhole == MCSpec => []WrittenWhole
<1> DEFINE Inv ==
             /\ focus = "import" => ImportInv
             /\ focus = "opening" => OpeningInv
             /\ focus = "rounds" => RoundInv
<1>a. JobsAreSorted /\ ToursAreWalked /\ TenantsAreNamed
  BY OperationsAssumption
<1>1. MCInit => Inv
  BY <1>a, ImportInductive, OpeningInductive, RoundInductive DEF MCInit
<1>2. Inv /\ [MCNext]_mcVars => Inv'
  BY <1>a, ImportInductive, OpeningInductive, RoundInductive, OperationSteps
<1>3. Inv => WrittenWhole
  BY <1>a, ImportInductive, OpeningInductive, RoundInductive DEF WrittenWhole
<1> QED
  BY <1>1, <1>2, <1>3, PTL DEF MCSpec
=============================================================================
