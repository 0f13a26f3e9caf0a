-------------------------- MODULE PpmTask_proofs --------------------------
(***************************************************************************)
(* Proofs about planned work.                                              *)
(*                                                                         *)
(* PpmTask for any mode, any managers and any number of calls in           *)
(* progress, cut short wherever a call can be; then the services around    *)
(* it, each by itself and as parts of MCEstate: the programme, the         *)
(* obligations, the dates and the reminders.                               *)
(***************************************************************************)
EXTENDS PpmTask, MCEstate, FiniteSetTheorems, SequenceTheorems, WellFoundedInduction,
        NaturalsInduction, TLAPS

\* What a call in progress carries is already in the tables.
CallsBacked ==
    \A s \in Slots :
        /\ call[s].at # "idle" /\ call[s].op # "vendor" => call[s].user \in Users
        /\ call[s].at \notin {"idle", "write"} => call[s].op # "vendor"
        /\ call[s].request <= Len(requests)

\* A call that is about to approve or to order has seen an approved request.
CallsApproved ==
    \A s \in Slots :
        /\ call[s].op = "markApproved" => SomeApproved
        /\ call[s].op = "placeOrder" /\ AdHoc => SomeApproved

IInv == TypeOK /\ CallsBacked /\ CallsApproved /\ OrderedMeansApproved

\* The initial state satisfies the inductive invariant.
LEMMA Initially == Init => IInv
<1> SUFFICES ASSUME Init PROVE IInv
  OBVIOUS
<1>1. Idle \in Calls
  BY TaskAssumption DEF Idle, Calls
<1>2. call \in [Slots -> Calls] /\ \A s \in Slots : call[s] = Idle
  BY <1>1 DEF Init
<1>3. TypeOK
  <2>1. torn \in BOOLEAN /\ overtaken \subseteq Slots
    BY DEF Init
  <2> QED
    BY <1>2, <2>1, TaskAssumption DEF Init, TypeOK, Stages
<1>4. CallsBacked /\ CallsApproved
  BY <1>2, TaskAssumption DEF Init, CallsBacked, CallsApproved, Idle
<1> QED
  BY <1>3, <1>4 DEF IInv, OrderedMeansApproved, Init

\* A call that may come next.
Sound(c) ==
    /\ c.at # "idle" /\ c.op # "vendor" => c.user \in Users
    /\ c.at \notin {"idle", "write"} => c.op # "vendor"
    /\ c.op = "markApproved" => SomeApproved'
    /\ c.op = "placeOrder" /\ AdHoc => SomeApproved'

\* What slot s turns to is all there is to check: the other calls stay backed
\* while the table of requests only grows and approvals only come in.
LEMMA Calling ==
    ASSUME IInv, NEW s \in Slots,
           call' \in [Slots -> Calls],
           \A t \in Slots \ {s} : call'[t] = call[t],
           Len(requests') \in Nat, Len(requests) <= Len(requests'),
           SomeApproved => SomeApproved',
           Sound(call'[s]), call'[s].request <= Len(requests')
    PROVE  CallsBacked' /\ CallsApproved'
<1>1. call \in [Slots -> Calls] /\ Len(requests) \in Nat
  BY DEF IInv, TypeOK, Requests
<1>2. \A t \in Slots : call[t].request \in Int
  BY <1>1, TaskAssumption DEF Calls
<1>3. CallsBacked'
  BY <1>1, <1>2 DEF IInv, CallsBacked, Sound
<1>4. CallsApproved'
  BY DEF IInv, CallsApproved, AdHoc, Sound
<1> QED
  BY <1>3, <1>4

\* Returning needs no more than that.
LEMMA Returning ==
    ASSUME IInv, NEW s \in Slots, Return(s),
           Len(requests') \in Nat, Len(requests) <= Len(requests'),
           SomeApproved => SomeApproved'
    PROVE  call' \in [Slots -> Calls] /\ CallsBacked' /\ CallsApproved'
<1>1. Idle \in Calls /\ Idle.at = "idle" /\ Idle.op = "none" /\ Idle.request = 0
  BY TaskAssumption DEF Idle, Calls
<1>2. call \in [Slots -> Calls] /\ call' = [call EXCEPT ![s] = Idle]
  BY DEF IInv, TypeOK, Return
<1>3. /\ call' \in [Slots -> Calls] /\ call'[s] = Idle
      /\ \A t \in Slots \ {s} : call'[t] = call[t]
  BY <1>1, <1>2
<1>4. Sound(call'[s]) /\ call'[s].request <= Len(requests')
  BY <1>1, <1>3 DEF Sound
<1> QED
  BY <1>3, <1>4, Calling

\* A call goes on from one place to another.
LEMMA Going ==
    ASSUME IInv, NEW s \in Slots, NEW where, GoTo(s, where), UNCHANGED requests,
           where \in {"write", "log", "sod", "create", "attach"},
           call[s].at # "idle", where # "write" => call[s].op # "vendor"
    PROVE  call' \in [Slots -> Calls] /\ CallsBacked' /\ CallsApproved'
<1> DEFINE c == [call[s] EXCEPT !.at = where]
<1>1. call \in [Slots -> Calls] /\ Len(requests) \in Nat
  BY DEF IInv, TypeOK, Requests
<1>2. /\ c \in Calls /\ c.at = where /\ c.op = call[s].op
      /\ c.user = call[s].user /\ c.request = call[s].request
  BY <1>1 DEF Calls
<1>3. call' = [call EXCEPT ![s] = c]
  BY DEF GoTo
<1>4. SomeApproved' = SomeApproved
  BY DEF SomeApproved
<1> HIDE DEF c
<1>5. Sound(c) /\ c.request <= Len(requests)
  BY <1>2, <1>4 DEF IInv, CallsBacked, CallsApproved, Sound
<1>6. /\ call' \in [Slots -> Calls] /\ call'[s] = c
      /\ \A t \in Slots \ {s} : call'[t] = call[t]
  BY <1>1, <1>2, <1>3
<1> QED
  BY <1>1, <1>4, <1>5, <1>6, Calling

\* A slot that takes up a call changes nothing else.
LEMMA Entering ==
    ASSUME IInv, NEW s \in Slots, NEW op, NEW u, NEW where, Enter(s, op, u, where),
           op \in Moves \cup {"submit", "recordCompletion", "start", "pause", "complete",
                              "vendor", "reject"},
           where \in {"check", "write", "sod"},
           IF op = "vendor" THEN u = "vendor" /\ where = "write" ELSE u \in Users,
           op = "markApproved" => SomeApproved,
           op = "placeOrder" /\ AdHoc => SomeApproved
    PROVE  IInv'
<1> DEFINE c == [op |-> op, user |-> u, at |-> where, request |-> 0]
<1>1. call' = [call EXCEPT ![s] = c]
  BY DEF Enter
<1>2. /\ UNCHANGED <<stage, status, executor, attached, requests, quotedBy, torn, faults>>
      /\ overtaken' = overtaken \ {s}
  BY DEF Enter, taskVars
<1>3. call \in [Slots -> Calls] /\ Len(requests) \in Nat
  BY DEF IInv, TypeOK, Requests
<1>4. c \in Calls /\ c.op = op /\ c.user = u /\ c.at = where /\ c.request = 0
  BY TaskAssumption DEF Calls
<1> HIDE DEF c
<1>5. SomeApproved' = SomeApproved /\ OrderedMeansApproved' = OrderedMeansApproved
  BY <1>2 DEF SomeApproved, OrderedMeansApproved, AdHoc
<1>6. Sound(c)
  BY <1>4, <1>5 DEF Sound
<1>7. /\ call' \in [Slots -> Calls] /\ call'[s] = c
      /\ \A t \in Slots \ {s} : call'[t] = call[t]
  BY <1>1, <1>3, <1>4
<1>8. CallsBacked' /\ CallsApproved'
  BY <1>2, <1>3, <1>4, <1>5, <1>6, <1>7, Calling
<1>9. TypeOK'
  BY <1>2, <1>7 DEF IInv, TypeOK
<1> QED
  BY <1>5, <1>8, <1>9 DEF IInv

\* A call that starts.
LEMMA Starting ==
    ASSUME IInv, NEW s \in Slots, NEW u \in Users, Start(s, u)
    PROVE  IInv'
<1>1. CASE \E op \in Moves : Move(s, op, u)
  <2>1. PICK op \in Moves : Move(s, op, u)
    BY <1>1
  <2>2. Enter(s, op, u, IF op = "markApproved" THEN "check" ELSE "write")
    BY <2>1 DEF Move
  <2>3. op = "markApproved" => SomeApproved
    BY <2>1 DEF Move, Ratifiable, SomeApproved, IInv, TypeOK, Requests
  <2>4. op = "placeOrder" /\ AdHoc => SomeApproved
    BY <2>1 DEF Move, From, Orderable, IInv, OrderedMeansApproved
  <2>5. op # "vendor"
    BY DEF Moves
  <2> QED
    BY <2>2, <2>3, <2>4, <2>5, Entering
<1>2. CASE \E op \in {"start", "pause", "complete"} : Field(s, op, u)
  <2>1. PICK op \in {"start", "pause", "complete"} : Enter(s, op, u, "write")
    BY <1>2 DEF Field
  <2> QED
    BY <2>1, Entering
<1>3. CASE Submit(s, u)
  BY <1>3, Entering DEF Submit
<1>4. CASE Complete(s, u)
  BY <1>4, Entering DEF Complete
<1>5. CASE Reject(s, u)
  BY <1>5, Entering DEF Reject
<1> QED
  BY <1>1, <1>2, <1>3, <1>4, <1>5 DEF Start

\* A call that goes on: only a ratification or an order reaches the two stages.
LEMMA Continuing ==
    ASSUME IInv, NEW s \in Slots, Continue(s)
    PROVE  IInv'
<1>1. /\ call \in [Slots -> Calls] /\ requests \in Seq(Requests)
      /\ Len(requests) \in Nat
  BY DEF IInv, TypeOK
<1>2. call[s] \in Calls
  BY <1>1
<1>3. UNCHANGED requests => SomeApproved' = SomeApproved
  BY DEF SomeApproved
<1>4. CASE CheckAgain(s)
  <2>1. UNCHANGED <<stage, status, executor, attached, requests, quotedBy, overtaken, torn, faults>>
    BY <1>4 DEF CheckAgain, taskVars, raceVars
  <2>2. call' \in [Slots -> Calls] /\ CallsBacked' /\ CallsApproved'
    BY <1>1, <1>3, <1>4, <2>1, Going, Returning DEF CheckAgain
  <2> QED
    BY <1>3, <2>1, <2>2 DEF IInv, TypeOK, OrderedMeansApproved, AdHoc
<1>5. CASE WriteMove(s)
  <2>1. /\ UNCHANGED <<executor, attached, requests, quotedBy, faults>>
        /\ overtaken' \subseteq Slots /\ torn' \in BOOLEAN
    BY <1>5 DEF WriteMove, Overwrite
  <2>2. call' \in [Slots -> Calls] /\ CallsBacked' /\ CallsApproved'
    <3>1. CASE Return(s)
      BY <1>1, <1>3, <2>1, <3>1, Returning
    <3>2. CASE GoTo(s, "log")
      BY <1>5, <2>1, <3>2, Going DEF WriteMove, Moves
    <3> QED
      BY <1>5, <3>1, <3>2 DEF WriteMove
  <2>3. /\ stage' \in Stages
        /\ stage' \in {"approved", "ordered"} => call[s].op \in {"markApproved", "placeOrder"}
    BY <1>5 DEF WriteMove, Moves, To, Stages
  <2>4. OrderedMeansApproved'
    BY <1>3, <2>1, <2>3 DEF IInv, CallsApproved, OrderedMeansApproved, AdHoc
  <2>5. TypeOK'
    BY <1>5, <2>1, <2>2, <2>3 DEF IInv, TypeOK, WriteMove
  <2> QED
    BY <2>2, <2>4, <2>5 DEF IInv
<1>6. CASE LogQuote(s)
  <2>1. UNCHANGED <<stage, status, executor, attached, requests, overtaken, torn, faults>>
    BY <1>6 DEF LogQuote, taskVars, raceVars
  <2>2. quotedBy' \in Users \cup {"nobody"}
    BY <1>6 DEF LogQuote, IInv, TypeOK, CallsBacked
  <2>3. call' \in [Slots -> Calls] /\ CallsBacked' /\ CallsApproved'
    BY <1>1, <1>3, <1>6, <2>1, Returning DEF LogQuote
  <2> QED
    BY <1>3, <2>1, <2>2, <2>3 DEF IInv, TypeOK, OrderedMeansApproved, AdHoc
<1>7. CASE CheckSubmitter(s)
  <2>1. UNCHANGED <<stage, status, executor, attached, requests, quotedBy, overtaken, torn, faults>>
    BY <1>7 DEF CheckSubmitter, taskVars, raceVars
  <2>2. call[s].at = "sod" /\ (Return(s) \/ GoTo(s, "create"))
    BY <1>7 DEF CheckSubmitter
  <2>3. call[s].op # "vendor"
    BY <2>2 DEF IInv, CallsBacked
  <2>4. call' \in [Slots -> Calls] /\ CallsBacked' /\ CallsApproved'
    BY <1>1, <1>3, <2>1, <2>2, <2>3, Going, Returning
  <2> QED
    BY <1>3, <2>1, <2>4 DEF IInv, TypeOK, OrderedMeansApproved, AdHoc
<1>8. CASE CreateRequest(s)
  <2> DEFINE r == [requester |-> call[s].user, approved |-> FALSE]
             d == [call[s] EXCEPT !.at = "attach"]
             c == [d EXCEPT !.request = Len(requests) + 1]
  <2>1. UNCHANGED <<stage, status, executor, attached, quotedBy, overtaken, torn, faults>>
    BY <1>8 DEF CreateRequest, taskVars, raceVars
  <2>2. call[s].user \in Users /\ call[s].op # "vendor" /\ Len(requests) < MaxRequests
    BY <1>8 DEF CreateRequest, IInv, CallsBacked
  <2>3. r \in Requests /\ requests' = Append(requests, r)
    BY <1>8, <2>2 DEF CreateRequest, Requests
  <2>4. /\ c \in Calls /\ c.at = "attach" /\ c.op = call[s].op
        /\ c.user = call[s].user /\ c.request = Len(requests) + 1
    <3>1. /\ d \in Calls /\ d.at = "attach" /\ d.op = call[s].op
          /\ d.user = call[s].user
      BY <1>2 DEF Calls
    <3> HIDE DEF d
    <3>2. Len(requests) + 1 \in 0 .. MaxRequests
      BY <1>1, <2>2, TaskAssumption
    <3> QED
      BY <3>1, <3>2 DEF Calls
  <2>5. call' = [call EXCEPT ![s] = c]
    BY <1>1, <1>8 DEF CreateRequest
  <2> HIDE DEF r, c, d
  <2>6. /\ requests' \in Seq(Requests) /\ Len(requests') = Len(requests) + 1
        /\ \A i \in 1 .. Len(requests) : requests'[i] = requests[i]
    BY <1>1, <2>3
  <2>7. SomeApproved => SomeApproved'
    BY <1>1, <2>6 DEF SomeApproved
  <2>8. Sound(c)
    BY <2>2, <2>4, <2>7 DEF IInv, CallsApproved, Sound
  <2>9. /\ call' \in [Slots -> Calls] /\ call'[s] = c
        /\ \A t \in Slots \ {s} : call'[t] = call[t]
    BY <1>1, <2>4, <2>5
  <2>10. CallsBacked' /\ CallsApproved'
    BY <1>1, <2>4, <2>6, <2>7, <2>8, <2>9, Calling
  <2>11. TypeOK'
    BY <1>1, <2>1, <2>6, <2>9 DEF IInv, TypeOK
  <2> QED
    BY <2>1, <2>7, <2>10, <2>11 DEF IInv, OrderedMeansApproved, AdHoc
<1>9. CASE Attach(s)
  <2>1. /\ UNCHANGED <<status, executor, requests, quotedBy, faults>>
        /\ overtaken' \subseteq Slots /\ torn' \in BOOLEAN
    BY <1>9 DEF Attach, Overwrite
  <2>2. call[s].user \in Users /\ call[s].request \in 0 .. Len(requests)
    BY <1>1, <1>2, <1>9, TaskAssumption DEF Attach, IInv, CallsBacked, Calls
  <2>3. call' \in [Slots -> Calls] /\ CallsBacked' /\ CallsApproved'
    BY <1>1, <1>3, <1>9, <2>1, Returning DEF Attach
  <2>4. stage' = "awaiting_approval" /\ attached' \in 0 .. Len(requests)
    BY <1>9, <2>2 DEF Attach
  <2> QED
    BY <2>1, <2>3, <2>4 DEF IInv, TypeOK, OrderedMeansApproved, Stages
<1>10. CASE WriteCompletion(s) \/ WriteField(s) \/ WriteReject(s)
  <2>1. /\ UNCHANGED <<attached, requests, quotedBy, faults>> /\ Return(s)
        /\ overtaken' \subseteq Slots /\ torn' \in BOOLEAN
    BY <1>10 DEF WriteCompletion, WriteField, WriteReject, Overwrite
  <2>2. stage' \in (Stages \cup FieldStages) \ {"approved", "ordered"}
    BY <1>10 DEF WriteCompletion, WriteField, WriteReject, Stages, FieldStages
  <2>3. status' \in {"open", "in_progress", "paused", "completed", "cancelled"}
    BY <1>10 DEF WriteCompletion, WriteField, WriteReject, IInv, TypeOK
  <2>4. executor' \in Users \cup {"nobody", "vendor"}
    BY <1>2, <1>10 DEF WriteCompletion, WriteField, WriteReject, IInv, TypeOK, Calls
  <2>5. call' \in [Slots -> Calls] /\ CallsBacked' /\ CallsApproved'
    BY <1>1, <1>3, <2>1, Returning
  <2> QED
    BY <2>1, <2>2, <2>3, <2>4, <2>5 DEF IInv, TypeOK, OrderedMeansApproved
<1> QED
  BY <1>4, <1>5, <1>6, <1>7, <1>8, <1>9, <1>10 DEF Continue

\* An approval comes in from outside; it is never taken back.
LEMMA Approving ==
    ASSUME IInv, NEW i \in 1 .. MaxRequests, ApproveRequest(i)
    PROVE  IInv'
<1>1. UNCHANGED <<stage, status, executor, attached, quotedBy, call, overtaken, torn, faults>>
  BY DEF ApproveRequest, taskVars, raceVars
<1>2. /\ requests \in Seq(Requests) /\ i \in 1 .. Len(requests)
      /\ requests' = [requests EXCEPT ![i].approved = TRUE]
  BY DEF ApproveRequest, IInv, TypeOK
<1>3. [requests[i] EXCEPT !.approved = TRUE] \in Requests
  <2>1. requests[i] \in Requests
    BY <1>2
  <2> QED
    BY <2>1 DEF Requests
<1>4. requests' \in Seq(Requests) /\ Len(requests') = Len(requests)
  BY <1>2, <1>3
<1>5. SomeApproved'
  BY <1>2, <1>4 DEF SomeApproved, Requests
<1>6. TypeOK'
  BY <1>1, <1>4 DEF IInv, TypeOK
<1> QED
  BY <1>1, <1>4, <1>5, <1>6 DEF IInv, CallsBacked, CallsApproved, OrderedMeansApproved

\* A call that is cut short leaves the task as it is.
LEMMA Stopping ==
    ASSUME IInv, NEW s \in Slots, Stop(s)
    PROVE  IInv'
<1>1. UNCHANGED <<stage, status, executor, attached, requests, quotedBy, overtaken, torn>> /\ Return(s)
  BY DEF Stop, taskVars, raceVars
<1>2. faults' \in 0 .. MaxFaults
  BY TaskAssumption DEF Stop, IInv, TypeOK
<1>3. SomeApproved' = SomeApproved /\ Len(requests) \in Nat
  BY <1>1 DEF SomeApproved, IInv, TypeOK
<1>4. call' \in [Slots -> Calls] /\ CallsBacked' /\ CallsApproved'
  BY <1>1, <1>3, Returning
<1> QED
  BY <1>1, <1>2, <1>3, <1>4 DEF IInv, TypeOK, OrderedMeansApproved, AdHoc

\* Every step of the task keeps the inductive invariant.
LEMMA Inductive == IInv /\ [Next]_vars => IInv'
<1> SUFFICES ASSUME IInv, [Next]_vars PROVE IInv'
  OBVIOUS
<1>1. CASE UNCHANGED vars
  BY <1>1 DEF vars, taskVars, raceVars, IInv, TypeOK, CallsBacked, CallsApproved, SomeApproved,
              OrderedMeansApproved, AdHoc
<1>2. CASE \E s \in Slots : \E u \in Users : Start(s, u)
  BY <1>2, Starting
<1>3. CASE \E s \in Slots : VendorCloses(s)
  BY <1>3, Entering DEF VendorCloses, Moves
<1>4. CASE \E s \in Slots : Continue(s)
  BY <1>4, Continuing
<1>5. CASE \E s \in Slots : Stop(s)
  BY <1>5, Stopping
<1>6. CASE \E i \in 1 .. MaxRequests : ApproveRequest(i)
  BY <1>6, Approving
<1> QED
  BY <1>1, <1>2, <1>3, <1>4, <1>5, <1>6 DEF Next

\* Every reachable state of the task is well typed: an attached request exists.
THEOREM TypeCorrect == Spec => []TypeOK
<1>1. IInv => TypeOK
  BY DEF IInv
<1> QED
  BY Initially, Inductive, <1>1, PTL DEF Spec

\* Whatever the calls in progress, ad-hoc work is approved or ordered only
\* after a request made for it was approved (ppm.service.ts:806-831).
THEOREM OrderCorrect == Spec => []OrderedMeansApproved
<1>1. IInv => OrderedMeansApproved
  BY DEF IInv
<1> QED
  BY Initially, Inductive, <1>1, PTL DEF Spec
-----------------------------------------------------------------------------
(* What holds of a task unless a call writes what another has written meanwhile *)

Ratified == attached # 0 /\ requests[attached].approved

\* A task of this stage and status, with its request approved or not, is as call c asked for it.
Permits(atStage, inStatus, ratified, c) ==
    /\ c.at = "check" => c.op = "markApproved"
    /\ c.at \in {"check", "write"} /\ c.op = "markApproved" => ratified
    /\ c.at = "write" /\ c.op \in Moves => atStage \in From(c.op)
    /\ c.at = "write" /\ c.op = "recordCompletion" => atStage \in {"in_progress", "ordered", "scheduled"}
    /\ c.at = "write" /\ c.op \in {"start", "pause", "complete"} => inStatus \in FieldFrom(c.op)
    /\ c.at = "write" /\ c.op = "vendor" => inStatus \notin {"completed", "cancelled"}
    /\ c.at = "write" /\ c.op = "reject" => atStage = "completed"
    /\ c.at \in {"sod", "create", "attach"} => atStage = "quote_received"

Permitted(s) == Permits(stage, status, Ratified, call[s])

\* Nobody has touched the task since a call that is not overtaken read it.
AllPermitted == \A s \in Slots \ overtaken : Permitted(s)

\* The stage and the status of a task that is over agree, unless an overtaken call wrote one.
OverInv ==
    ~torn =>
        /\ stage \in Done => status = "completed"
        /\ stage = "cancelled" => status = "cancelled"

RaceInv == AllPermitted /\ OverInv /\ AttachedIsApproved

Final ==
    (stage \in {"archived", "cancelled"} /\ ~torn /\ ~torn') => UNCHANGED <<stage, status>>

\* A step of s that writes no column of the task has to be right about s alone.
LEMMA ReadingPermitted ==
    ASSUME RaceInv, NEW s \in Slots,
           \A t \in Slots \ {s} : call'[t] = call[t],
           UNCHANGED <<stage, status, attached, torn>>, Ratified => Ratified',
           overtaken \ {s} \subseteq overtaken',
           s \in overtaken' \/ Permits(stage, status, Ratified', call'[s])
    PROVE  RaceInv' /\ Final
<1>1. AllPermitted'
  <2> SUFFICES ASSUME NEW t \in Slots, t \notin overtaken' PROVE Permitted(t)'
    BY DEF AllPermitted
  <2>1. CASE t = s
    BY <2>1 DEF Permitted
  <2>2. CASE t # s
    <3>1. Permits(stage, status, Ratified, call[t]) /\ call'[t] = call[t]
      BY <2>2 DEF RaceInv, AllPermitted, Permitted
    <3>2. Permits(stage, status, Ratified', call[t])
      BY <3>1 DEF Permits
    <3> QED
      BY <3>1, <3>2 DEF Permitted
  <2> QED
    BY <2>1, <2>2
<1>2. OverInv' /\ Final
  BY DEF RaceInv, OverInv, Final
<1>3. AttachedIsApproved'
  BY DEF RaceInv, AttachedIsApproved, AdHoc, Ratified
<1> QED
  BY <1>1, <1>2, <1>3 DEF RaceInv

\* A slot that has returned asks for nothing.
LEMMA IdlePermitted == \A atStage, inStatus, ratified : Permits(atStage, inStatus, ratified, Idle)
BY DEF Permits, Idle

\* A write of s overtakes every other call in progress, and s asks for nothing after it.
LEMMA WritingPermitted ==
    ASSUME IInv, NEW s \in Slots, NEW both, Overwrite(s, both),
           Return(s) \/ GoTo(s, "log")
    PROVE  AllPermitted'
<1>1. call \in [Slots -> Calls]
  BY DEF IInv, TypeOK
<1> SUFFICES ASSUME NEW t \in Slots, t \notin overtaken' PROVE Permitted(t)'
  BY DEF AllPermitted
<1>2. CASE t # s
  <2>1. call[t].at = "idle" /\ call'[t] = call[t]
    BY <1>1, <1>2 DEF Overwrite, Return, GoTo
  <2> QED
    BY <2>1 DEF Permitted, Permits
<1>3. CASE t = s
  <2>1. CASE Return(s)
    <3>1. call'[s] = Idle
      BY <1>1, <2>1 DEF Return
    <3> QED
      BY <1>3, <3>1, IdlePermitted DEF Permitted
  <2>2. CASE GoTo(s, "log")
    <3>1. call'[s].at = "log"
      BY <1>1, <2>2 DEF GoTo, Calls
    <3> QED
      BY <1>3, <3>1 DEF Permitted, Permits
  <2> QED
    BY <2>1, <2>2
<1> QED
  BY <1>2, <1>3

\* A call that starts finds the task as its checks ask for it.
LEMMA StartPermitted ==
    ASSUME IInv, RaceInv, NEW s \in Slots,
           (\E u \in Users : Start(s, u)) \/ VendorCloses(s)
    PROVE  RaceInv' /\ Final
<1>1. call \in [Slots -> Calls]
  BY DEF IInv, TypeOK
<1>2. ASSUME NEW op, NEW u, NEW where, Enter(s, op, u, where),
             Permits(stage, status, Ratified, [op |-> op, user |-> u, at |-> where, request |-> 0])
      PROVE  RaceInv' /\ Final
  <2>1. /\ UNCHANGED <<stage, status, attached, requests, torn>> /\ overtaken' = overtaken \ {s}
        /\ call' = [call EXCEPT ![s] = [op |-> op, user |-> u, at |-> where, request |-> 0]]
    BY <1>2 DEF Enter, taskVars
  <2>2. /\ call'[s] = [op |-> op, user |-> u, at |-> where, request |-> 0]
        /\ \A t \in Slots \ {s} : call'[t] = call[t]
    BY <1>1, <2>1
  <2>3. Ratified' = Ratified
    BY <2>1 DEF Ratified
  <2> QED
    BY <1>2, <2>1, <2>2, <2>3, ReadingPermitted
<1>3. ASSUME NEW u \in Users, NEW op \in Moves, Move(s, op, u) PROVE RaceInv' /\ Final
  <2>1. Enter(s, op, u, IF op = "markApproved" THEN "check" ELSE "write")
    BY <1>3 DEF Move
  <2>2. op = "markApproved" => Ratified
    BY <1>3 DEF Move, Ratifiable, Ratified
  <2>3. op # "markApproved" => stage \in From(op)
    BY <1>3 DEF Move
  <2>4. op \notin {"recordCompletion", "start", "pause", "complete", "vendor", "reject"}
    BY DEF Moves
  <2> QED
    BY <1>2, <2>1, <2>2, <2>3, <2>4 DEF Permits
<1>4. ASSUME NEW u \in Users, NEW op \in {"start", "pause", "complete"}, Field(s, op, u)
      PROVE  RaceInv' /\ Final
  BY <1>2, <1>4 DEF Field, Permits, Moves
<1>5. ASSUME NEW u \in Users, Submit(s, u) \/ Complete(s, u) \/ Reject(s, u)
      PROVE  RaceInv' /\ Final
  BY <1>2, <1>5 DEF Submit, Complete, Reject, Permits, Moves
<1>6. CASE VendorCloses(s)
  BY <1>2, <1>6 DEF VendorCloses, Permits, Moves
<1> QED
  BY <1>3, <1>4, <1>5, <1>6 DEF Start

\* A call that goes on writes what it was permitted to write, or was overtaken.
LEMMA ContinuePermitted ==
    ASSUME IInv, RaceInv, NEW s \in Slots, Continue(s)
    PROVE  RaceInv' /\ Final
<1>1. /\ call \in [Slots -> Calls] /\ overtaken \subseteq Slots /\ torn \in BOOLEAN
      /\ requests \in Seq(Requests) /\ Len(requests) \in Nat /\ attached \in 0 .. Len(requests)
  BY DEF IInv, TypeOK
<1>2. s \notin overtaken => Permits(stage, status, Ratified, call[s])
  BY DEF RaceInv, AllPermitted, Permitted
<1>3. ASSUME UNCHANGED <<stage, status, attached, requests, overtaken, torn>>, Return(s)
      PROVE  RaceInv' /\ Final
  <2>1. call'[s] = Idle /\ \A t \in Slots \ {s} : call'[t] = call[t]
    BY <1>1, <1>3 DEF Return
  <2>2. Ratified' = Ratified
    BY <1>3 DEF Ratified
  <2> QED
    BY <1>3, <2>1, <2>2, IdlePermitted, ReadingPermitted
<1>4. ASSUME UNCHANGED <<stage, status, attached, requests, overtaken, torn>>,
             NEW where \in {"write", "create"}, GoTo(s, where),
             where = "write" => call[s].at = "check" /\ stage \in From(call[s].op),
             where = "create" => call[s].at = "sod"
      PROVE  RaceInv' /\ Final
  <2>1. /\ call'[s].at = where /\ call'[s].op = call[s].op
        /\ \A t \in Slots \ {s} : call'[t] = call[t]
    BY <1>1, <1>4 DEF GoTo, Calls
  <2>2. Ratified' = Ratified
    BY <1>4 DEF Ratified
  <2>3. s \in overtaken \/ Permits(stage, status, Ratified, call'[s])
    BY <1>2, <1>4, <2>1 DEF Permits, Moves
  <2> QED
    BY <1>4, <2>1, <2>2, <2>3, ReadingPermitted
<1>5. CASE CheckAgain(s)
  BY <1>3, <1>4, <1>5 DEF CheckAgain, taskVars, raceVars
<1>6. CASE WriteMove(s)
  <2>1. /\ call[s].at = "write" /\ call[s].op \in Moves
        /\ stage' = To(call[s].op) /\ UNCHANGED <<attached, requests>>
        /\ status' = IF call[s].op = "cancel" THEN "cancelled" ELSE status
        /\ Overwrite(s, call[s].op = "cancel")
        /\ Return(s) \/ GoTo(s, "log")
    BY <1>6 DEF WriteMove
  <2>2. AllPermitted'
    BY <2>1, WritingPermitted
  <2>3. CASE s \in overtaken
    BY <2>2, <2>3, <2>1 DEF Overwrite, RaceInv, OverInv, AttachedIsApproved, Final
  <2>4. CASE s \notin overtaken
    <3>1. stage \in From(call[s].op) /\ (call[s].op = "markApproved" => Ratified)
      BY <1>2, <2>1, <2>4 DEF Permits
    <3>2. torn' = (torn /\ call[s].op # "cancel")
      BY <2>1, <2>4 DEF Overwrite
    <3>3. stage \notin {"archived", "cancelled"}
      BY <2>1, <3>1 DEF Moves, From, Orderable, Cancellable
    <3>4. OverInv'
      BY <2>1, <3>1, <3>2 DEF Moves, From, To, Orderable, Cancellable, RaceInv, OverInv, Done
    <3>5. AttachedIsApproved'
      BY <2>1, <3>1, <3>2 DEF Moves, From, To, Orderable, RaceInv, AttachedIsApproved, AdHoc, Ratified
    <3> QED
      BY <2>2, <3>3, <3>4, <3>5 DEF RaceInv, Final
  <2> QED
    BY <2>3, <2>4
<1>7. CASE LogQuote(s)
  BY <1>3, <1>7 DEF LogQuote, taskVars, raceVars
<1>8. CASE CheckSubmitter(s)
  BY <1>3, <1>4, <1>8 DEF CheckSubmitter, taskVars, raceVars
<1>9. CASE CreateRequest(s)
  <2>1. /\ call[s].at = "create" /\ UNCHANGED <<stage, status, attached, overtaken, torn>>
        /\ call'[s].at = "attach" /\ \A t \in Slots \ {s} : call'[t] = call[t]
    BY <1>1, <1>9 DEF CreateRequest, taskVars, raceVars, Calls
  <2>2. Ratified => Ratified'
    BY <1>1, <1>9, <2>1 DEF CreateRequest, Ratified
  <2>3. s \in overtaken \/ stage = "quote_received"
    BY <1>2, <2>1 DEF Permits
  <2>4. s \in overtaken' \/ Permits(stage, status, Ratified', call'[s])
    BY <2>1, <2>3 DEF Permits
  <2> QED
    BY <2>1, <2>2, <2>4, ReadingPermitted
<1>10. CASE Attach(s)
  <2>1. stage' = "awaiting_approval" /\ UNCHANGED status /\ Return(s) /\ Overwrite(s, FALSE)
    BY <1>10 DEF Attach
  <2>2. AllPermitted'
    BY <2>1, WritingPermitted
  <2>3. s \in overtaken \/ stage = "quote_received"
    BY <1>2, <1>10 DEF Attach, Permits
  <2> QED
    BY <2>1, <2>2, <2>3 DEF Overwrite, RaceInv, OverInv, AttachedIsApproved, Final, Done
<1>11. ASSUME call[s].at = "write", Return(s), Overwrite(s, TRUE),
              stage' \in {"completed", "started", "paused", "in_progress"},
              stage' = "completed" => status' = "completed",
              s \notin overtaken /\ ~torn => stage \notin {"archived", "cancelled"}
       PROVE  RaceInv' /\ Final
  <2>1. AllPermitted'
    BY <1>11, WritingPermitted
  <2>2. torn' = (s \in overtaken)
    BY <1>11 DEF Overwrite
  <2> QED
    BY <1>11, <2>1, <2>2 DEF RaceInv, OverInv, AttachedIsApproved, Final, Done
<1>12. CASE WriteCompletion(s)
  <2>1. /\ call[s].at = "write" /\ call[s].op \in {"recordCompletion", "complete", "vendor"}
        /\ stage' = "completed" /\ status' = "completed" /\ Return(s) /\ Overwrite(s, TRUE)
    BY <1>12 DEF WriteCompletion
  <2>2. s \notin overtaken /\ ~torn => stage \notin {"archived", "cancelled"}
    BY <1>2, <2>1 DEF Permits, RaceInv, OverInv, Done, FieldFrom
  <2> QED
    BY <1>11, <2>1, <2>2
<1>13. CASE WriteField(s)
  <2>1. /\ call[s].at = "write" /\ call[s].op \in {"start", "pause"}
        /\ stage' \in {"started", "paused"} /\ Return(s) /\ Overwrite(s, TRUE)
    BY <1>13 DEF WriteField
  <2>2. s \notin overtaken /\ ~torn => stage \notin {"archived", "cancelled"}
    BY <1>2, <2>1 DEF Permits, RaceInv, OverInv, Done, FieldFrom
  <2> QED
    BY <1>11, <2>1, <2>2
<1>14. CASE WriteReject(s)
  <2>1. /\ call[s].at = "write" /\ call[s].op = "reject"
        /\ stage' = "in_progress" /\ Return(s) /\ Overwrite(s, TRUE)
    BY <1>14 DEF WriteReject
  <2>2. s \notin overtaken => stage = "completed"
    BY <1>2, <2>1 DEF Permits
  <2> QED
    BY <1>11, <2>1, <2>2
<1> QED
  BY <1>5, <1>6, <1>7, <1>8, <1>9, <1>10, <1>12, <1>13, <1>14 DEF Continue

LEMMA NextRaceInv == IInv /\ RaceInv /\ [Next]_vars => RaceInv' /\ [Final]_vars
<1> SUFFICES ASSUME IInv, RaceInv, [Next]_vars PROVE RaceInv' /\ Final
  OBVIOUS
<1>1. CASE UNCHANGED vars
  BY <1>1 DEF vars, taskVars, raceVars, RaceInv, AllPermitted, Permitted, Permits, Ratified, From,
              OverInv, AttachedIsApproved, Final
<1>2. ASSUME NEW s \in Slots, (\E u \in Users : Start(s, u)) \/ VendorCloses(s)
      PROVE  RaceInv' /\ Final
  BY <1>2, StartPermitted
<1>3. ASSUME NEW s \in Slots, Continue(s) PROVE RaceInv' /\ Final
  BY <1>3, ContinuePermitted
<1>4. ASSUME NEW s \in Slots, Stop(s) PROVE RaceInv' /\ Final
  <2>1. UNCHANGED <<stage, status, attached, requests, overtaken, torn>> /\ Return(s)
    BY <1>4 DEF Stop, taskVars, raceVars
  <2>2. call'[s] = Idle /\ \A t \in Slots \ {s} : call'[t] = call[t]
    BY <2>1 DEF IInv, TypeOK, Return
  <2>3. Ratified' = Ratified
    BY <2>1 DEF Ratified
  <2> QED
    BY <2>1, <2>2, <2>3, IdlePermitted, ReadingPermitted
<1>5. ASSUME NEW i \in 1 .. MaxRequests, ApproveRequest(i) PROVE RaceInv' /\ Final
  <2>1. UNCHANGED <<stage, status, attached, call, overtaken, torn>>
    BY <1>5 DEF ApproveRequest, taskVars, raceVars
  <2>2. Ratified => Ratified'
    <3>1. /\ requests \in Seq(Requests) /\ attached \in 0 .. Len(requests)
          /\ i \in 1 .. Len(requests)
          /\ requests' = [requests EXCEPT ![i].approved = TRUE]
      BY <1>5 DEF ApproveRequest, IInv, TypeOK
    <3>2. requests[i] \in Requests
      BY <3>1
    <3>3. requests'[i].approved /\ \A j \in 1 .. Len(requests) : j # i => requests'[j] = requests[j]
      BY <3>1, <3>2 DEF Requests
    <3> QED
      BY <2>1, <3>1, <3>3 DEF Ratified
  <2>3. AllPermitted'
    BY <2>1, <2>2 DEF RaceInv, AllPermitted, Permitted, Permits, From
  <2> QED
    BY <2>1, <2>2, <2>3 DEF RaceInv, OverInv, AttachedIsApproved, AdHoc, Ratified, Final
<1> QED
  BY <1>1, <1>2, <1>3, <1>4, <1>5 DEF Next

LEMMA InitRaceInv == Init => RaceInv
BY DEF Init, RaceInv, AllPermitted, Permitted, Permits, Idle, OverInv, AttachedIsApproved, Done

\* For any number of calls, wherever each of them is cut short: it is the attached request that
\* was approved before ad-hoc work is approved or ordered, even after a submission that failed
\* half way and was made again, unless a call wrote over what another had written since it read
\* the task (ppm.service.ts:758-831).
THEOREM RatificationCorrect == Spec => []AttachedIsApproved
<1>1. RaceInv => AttachedIsApproved
  BY DEF RaceInv
<1>2. IInv /\ RaceInv /\ [Next]_vars => RaceInv'
  BY NextRaceInv
<1> QED
  BY Initially, Inductive, InitRaceInv, <1>1, <1>2, PTL DEF Spec

\* For any number of calls of the three services that write a task, however they overlap: only a
\* call that another overtook takes up again a task that is archived or cancelled
\* (ppm.service.ts:256, :1303).
THEOREM FinalityCorrect == Spec => TerminalIsFinal
<1>1. IInv /\ RaceInv /\ [Next]_vars => RaceInv' /\ [Final]_vars
  BY NextRaceInv
<1>2. Spec => [][Final]_vars
  BY Initially, Inductive, InitRaceInv, <1>1, PTL DEF Spec
<1> QED
  BY <1>2 DEF TerminalIsFinal, Final
-----------------------------------------------------------------------------
(* Maintenance programme: the templates and their items *)

ItemHolds(i) ==
    \/ plan[i] = Programme!NoItem
    \/ /\ plan[i] = [building |-> plan[i].building, duty |-> plan[i].duty, scope |-> plan[i].scope,
                     unit |-> plan[i].unit, template |-> plan[i].template, asset |-> plan[i].asset,
                     baseline |-> plan[i].baseline]
       /\ plan[i].template \in Templates

\* A call that found an item holds its template too, and nobody else takes the item's id meanwhile.
PlannerHolds(s) ==
    LET work == planning[s] IN
    /\ work.template \in Templates \cup {"none"} /\ work.item \in PlanItems \cup {"none"}
    /\ work.op \in {"idle", "item", "seed", "unmark", "mark", "clear", "delete", "dropThenMark",
                    "dropThenUnmark", "suggest"}
    /\ work.op \in {"idle", "seed", "unmark", "mark", "suggest"} => work.template = "none"
    /\ work.op \in {"item", "clear", "delete", "dropThenMark", "dropThenUnmark"} => work.template \in Templates
    /\ work.op \in {"clear", "delete", "dropThenMark", "dropThenUnmark"} =>
           work = [op |-> work.op, template |-> work.template, item |-> work.item,
                   building |-> work.building, duty |-> work.duty]
    /\ work.op \in {"delete", "clear"} => work.item \in PlanItems
    /\ work.op = "delete" => plan[work.item].template \in {"none", work.template}
    /\ work.op = "suggest" =>
           /\ work = [op |-> "suggest", template |-> "none", item |-> "none", asset |-> work.asset,
                      todo |-> work.todo]
           /\ \A r \in work.todo : r.template \in Templates

Scheduled(t) == \E i \in PlanItems : plan[i].template = t
\* A call with a template in hand sees to it, but one that has yet to delete an item: as long as the
\* item is there it schedules the template, and whoever takes it away first sees to the template.
SeesTo(work, t) == work.template = t /\ work.op # "delete"
Held(t) == \E s \in Planners : SeesTo(planning[s], t)

ProgrammeInv ==
    /\ plan = [i \in PlanItems |-> plan[i]] /\ planning = [s \in Planners |-> planning[s]]
    /\ templates = [t \in Templates |-> templates[t]]
    /\ \A i \in PlanItems : ItemHolds(i)
    /\ \A s \in Planners : PlannerHolds(s)
    /\ \A t \in Templates : templates[t] = "none" \/ Scheduled(t) \/ t \in stray \/ Held(t)

LEMMA ItemTemplates ==
    ASSUME RowsHaveNames, ProgrammeInv
    PROVE  /\ \A i \in PlanItems : plan[i].template \in Templates \cup {"none"}
           /\ \A i \in PlanItems : i \in Programme!Rows <=> plan[i].template # "none"
           /\ \A t \in Templates : Programme!Bare(t, {}) <=> ~Scheduled(t)
<1>1. ASSUME NEW i \in PlanItems
      PROVE  plan[i].template \in Templates \cup {"none"} /\ (plan[i] # Programme!NoItem <=> plan[i].template # "none")
  BY DEF ProgrammeInv, ItemHolds, Programme!NoItem, RowsHaveNames
<1>2. Programme!Rows = {i \in PlanItems : plan[i] # Programme!NoItem}
  BY DEF Programme!Rows
<1>3. ASSUME NEW t \in Templates PROVE Programme!Bare(t, {}) <=> ~Scheduled(t)
  BY <1>1, <1>2 DEF Programme!Bare, Scheduled, RowsHaveNames
<1> QED
  BY <1>1, <1>2, <1>3

\* What a step leaves of the items: each as it was but for what a template is not about, gone, or
\* new where no call has one in hand.
Kept(i) == plan'[i].template = plan[i].template
Fresh(i) == plan[i] = Programme!NoItem /\ \A s \in Planners : planning[s].item # i

LEMMA PlannerKept ==
    ASSUME RowsHaveNames, ProgrammeInv, NEW s \in Planners, planning'[s] = planning[s],
           \A i \in PlanItems : Kept(i) \/ plan'[i].template = "none" \/ Fresh(i)
    PROVE  PlannerHolds(s)'
BY DEF ProgrammeInv, PlannerHolds, Kept, Fresh, RowsHaveNames

\* A step of call s that touches no item
LEMMA PlanningStep ==
    ASSUME RowsHaveNames, ProgrammeInv, NEW s \in Planners, NEW work, planning' = [planning EXCEPT ![s] = work],
           plan' = plan, PlannerHolds(s)', templates' = [t \in Templates |-> templates'[t]],
           \A t \in Templates : templates'[t] # "none" => templates[t] # "none" \/ SeesTo(work, t),
           \A t \in Templates : templates'[t] # "none" /\ (t \in stray \/ SeesTo(planning[s], t)) =>
               Scheduled(t) \/ t \in stray' \/ SeesTo(work, t)
    PROVE  ProgrammeInv'
<1>1. planning'[s] = work /\ \A r \in Planners \ {s} : planning'[r] = planning[r]
  BY DEF ProgrammeInv
<1>2. \A r \in Planners : PlannerHolds(r)'
  BY <1>1, PlannerKept DEF Kept
<1>3. ASSUME NEW t \in Templates, templates'[t] # "none" PROVE Scheduled(t)' \/ t \in stray' \/ Held(t)'
  <2>1. CASE SeesTo(work, t)
    BY <1>1, <2>1 DEF Held
  <2>2. CASE ~SeesTo(work, t)
    <3>1. Scheduled(t) \/ t \in stray \/ Held(t)
      BY <1>3, <2>2 DEF ProgrammeInv
    <3>2. CASE Scheduled(t)
      BY <3>2 DEF Scheduled
    <3>3. CASE t \in stray \/ SeesTo(planning[s], t)
      BY <1>3, <2>2, <3>3 DEF Scheduled
    <3>4. CASE \E r \in Planners \ {s} : SeesTo(planning[r], t)
      BY <1>1, <3>4 DEF Held
    <3> QED
      BY <3>1, <3>2, <3>3, <3>4 DEF Held
  <2> QED
    BY <2>1, <2>2
<1>4. \A i \in PlanItems : ItemHolds(i)'
  BY DEF ProgrammeInv, ItemHolds
<1> QED
  BY <1>2, <1>3, <1>4 DEF ProgrammeInv

LEMMA NewTemplateStep ==
    ASSUME RowsHaveNames, ProgrammeInv, NEW s \in Planners, NEW key, NEW by, NEW todo,
           planning[s].template = "none", Programme!NewTemplate(s, key, by, todo)
    PROVE  ProgrammeInv'
<1>a. PICK t \in Templates :
          /\ templates' = [templates EXCEPT ![t] = key[1]]
          /\ planning' = [planning EXCEPT ![s] = [op |-> "item", template |-> t, item |-> "none", key |-> key,
                                                  by |-> by, todo |-> todo]]
          /\ UNCHANGED <<plan, exempt, stray>>
  BY DEF Programme!NewTemplate, Programme!Goto
<1>b. PICK work : work = [op |-> "item", template |-> t, item |-> "none", key |-> key, by |-> by, todo |-> todo]
  OBVIOUS
<1>1. work.op = "item" /\ work.template = t /\ work.item = "none" /\ planning' = [planning EXCEPT ![s] = work]
  BY <1>a, <1>b
<1>2. planning'[s] = work
  BY <1>1 DEF ProgrammeInv
<1>3. PlannerHolds(s)'
  BY <1>1, <1>2 DEF PlannerHolds
<1>4. /\ templates' = [x \in Templates |-> templates'[x]]
      /\ \A x \in Templates \ {t} : templates'[x] = templates[x]
  BY <1>a DEF ProgrammeInv
<1>5. plan' = plan /\ stray' = stray
  BY <1>a
<1>6. \A x \in Templates : templates'[x] # "none" => templates[x] # "none" \/ SeesTo(work, x)
  BY <1>1, <1>4 DEF SeesTo
<1>7. \A x \in Templates : templates'[x] # "none" /\ (x \in stray \/ SeesTo(planning[s], x)) =>
          Scheduled(x) \/ x \in stray' \/ SeesTo(work, x)
  BY <1>5 DEF RowsHaveNames, SeesTo
<1> QED
  BY <1>1, <1>3, <1>4, <1>5, <1>6, <1>7, PlanningStep

\* A step that ends a call, or goes on to a statement without a template in hand
LEMMA BackStep ==
    ASSUME RowsHaveNames, ProgrammeInv, NEW s \in Planners, NEW work, planning' = [planning EXCEPT ![s] = work],
           work.op \in {"idle", "seed", "unmark", "mark"}, work.template = "none", work.item = "none",
           planning[s].template = "none", UNCHANGED <<plan, templates, stray>>
    PROVE  ProgrammeInv'
<1>1. planning'[s] = work
  BY DEF ProgrammeInv
<1>2. PlannerHolds(s)'
  BY <1>1 DEF PlannerHolds
<1>3. templates' = [t \in Templates |-> templates'[t]]
  BY DEF ProgrammeInv
<1> QED
  BY <1>2, <1>3, PlanningStep DEF RowsHaveNames, SeesTo

\* The items that are gone, and what becomes of the template they had
LEMMA DropStep ==
    ASSUME RowsHaveNames, ProgrammeInv, NEW s \in Planners, NEW t \in Templates, NEW work,
           planning[s].template = t, Programme!DropTemplate(t), planning' = [planning EXCEPT ![s] = work],
           work.op \in {"idle", "seed", "unmark", "mark"}, work.template = "none", work.item = "none",
           stray \ {t} \subseteq stray'
    PROVE  ProgrammeInv'
<1>1. planning'[s] = work /\ \A r \in Planners \ {s} : planning'[r] = planning[r]
  BY DEF ProgrammeInv
<1>2. /\ templates' = [templates EXCEPT ![t] = "none"]
      /\ plan' = [i \in PlanItems |-> IF i \in {x \in Programme!Rows : plan[x].template = t}
                                      THEN Programme!NoItem ELSE plan[i]]
  BY DEF Programme!DropTemplate, Programme!Without
<1>3. /\ templates' = [x \in Templates |-> templates'[x]] /\ templates'[t] = "none"
      /\ \A x \in Templates \ {t} : templates'[x] = templates[x]
  BY <1>2 DEF ProgrammeInv
<1>4. Programme!NoItem.template = "none"
  BY DEF Programme!NoItem
<1>5. \A i \in PlanItems : /\ plan'[i] = Programme!NoItem \/ plan'[i] = plan[i]
                           /\ plan[i].template # t => plan'[i] = plan[i]
  BY <1>2
<1>6. \A i \in PlanItems : ItemHolds(i)'
  BY <1>5 DEF ProgrammeInv, ItemHolds
<1>7. PlannerHolds(s)'
  BY <1>1 DEF PlannerHolds
<1>8. \A r \in Planners : PlannerHolds(r)'
  BY <1>1, <1>4, <1>5, <1>7, PlannerKept DEF Kept
<1>9. ASSUME NEW x \in Templates, templates'[x] # "none" PROVE Scheduled(x)' \/ x \in stray' \/ Held(x)'
  <2>1. x # t /\ (Scheduled(x) \/ x \in stray \/ Held(x))
    BY <1>3, <1>9 DEF ProgrammeInv
  <2> QED
    BY <1>1, <1>5, <2>1 DEF Scheduled, Held, SeesTo
<1> QED
  BY <1>2, <1>3, <1>6, <1>8, <1>9 DEF ProgrammeInv

LEMMA InsertStep ==
    ASSUME RowsHaveNames, ProgrammeInv, NEW s \in Planners, NEW key, NEW a, NEW t \in Templates, NEW baseline, NEW work,
           Programme!InsertItem(key, t, a, baseline), planning' = [planning EXCEPT ![s] = work],
           PlannerHolds(s)', planning[s].template \in {t, "none"}, UNCHANGED <<templates, stray>>
    PROVE  ProgrammeInv'
<1>a. PICK i \in PlanItems :
          /\ plan[i] = Programme!NoItem /\ \A r \in Planners : planning[r].item # i
          /\ plan' = [plan EXCEPT ![i] =
                 [building |-> key[1], duty |-> key[2], scope |-> key[3], unit |-> key[4],
                  template |-> t, asset |-> a, baseline |-> baseline]]
  BY DEF Programme!InsertItem
<1>1. planning'[s] = work /\ \A r \in Planners \ {s} : planning'[r] = planning[r]
  BY DEF ProgrammeInv
<1>b. PICK new : new = [building |-> key[1], duty |-> key[2], scope |-> key[3], unit |-> key[4],
                        template |-> t, asset |-> a, baseline |-> baseline]
  OBVIOUS
<1>2. plan'[i] = new /\ (\A x \in PlanItems \ {i} : plan'[x] = plan[x]) /\ plan' = [x \in PlanItems |-> plan'[x]]
  BY <1>a, <1>b DEF ProgrammeInv
<1>3. new.template = t /\ new = [building |-> new.building, duty |-> new.duty, scope |-> new.scope, unit |-> new.unit,
                                 template |-> new.template, asset |-> new.asset, baseline |-> new.baseline]
  BY <1>b
<1>4. \A x \in PlanItems : ItemHolds(x)'
  BY <1>2, <1>3 DEF ProgrammeInv, ItemHolds
<1>5. \A r \in Planners : PlannerHolds(r)'
  BY <1>1, <1>2, <1>a, PlannerKept DEF Kept, Fresh
<1>6. ASSUME NEW x \in Templates, templates'[x] # "none" PROVE Scheduled(x)' \/ x \in stray' \/ Held(x)'
  <2>1. Scheduled(x) \/ x \in stray \/ Held(x)
    BY <1>6 DEF ProgrammeInv
  <2>2. plan[i].template = "none"
    BY <1>a DEF Programme!NoItem
  <2>3. Scheduled(t)'
    BY <1>2, <1>3 DEF Scheduled
  <2>4. x # t /\ Scheduled(x) => Scheduled(x)'
    BY <1>2, <2>2 DEF Scheduled, RowsHaveNames
  <2>5. x # t /\ Held(x) => Held(x)'
    BY <1>1 DEF Held, SeesTo, RowsHaveNames
  <2> QED
    BY <2>1, <2>3, <2>4, <2>5
<1> QED
  BY <1>1, <1>2, <1>4, <1>5, <1>6 DEF ProgrammeInv

\* What an edit of an item leaves alone: whose template it is
LEMMA EditStep ==
    ASSUME RowsHaveNames, ProgrammeInv, UNCHANGED <<templates, planning, stray>>,
           plan' = [i \in PlanItems |-> plan'[i]], \A i \in PlanItems : Kept(i) /\ ItemHolds(i)'
    PROVE  ProgrammeInv'
<1>1. \A r \in Planners : PlannerHolds(r)'
  BY PlannerKept
<1>2. \A t \in Templates : (Scheduled(t) => Scheduled(t)') /\ (Held(t) => Held(t)')
  BY DEF Scheduled, Held, Kept
<1> QED
  BY <1>1, <1>2 DEF ProgrammeInv

LEMMA WriteItemStep ==
    ASSUME RowsHaveNames, ProgrammeInv, NEW s \in Planners, Programme!WriteItem(s)
    PROVE  ProgrammeInv'
<1>a. PICK t \in Templates : t = planning[s].template
  BY DEF ProgrammeInv, PlannerHolds, Programme!WriteItem, Programme!At
<1>b. PICK work : /\ planning' = [planning EXCEPT ![s] = work]
                  /\ work.op \in {"idle", "seed", "unmark"} /\ work.template = "none" /\ work.item = "none"
  <2>1. PICK ok : Programme!AfterItem(s, ok)
    BY DEF Programme!WriteItem
  <2>2. ASSUME NEW c, planning' = [planning EXCEPT ![s] = c], c.op \in {"idle", "seed", "unmark"},
               c.template = "none", c.item = "none"
        PROVE  \E d : /\ planning' = [planning EXCEPT ![s] = d]
                      /\ d.op \in {"idle", "seed", "unmark"} /\ d.template = "none" /\ d.item = "none"
    BY <2>2
  <2>3. CASE planning[s].by = "seed"
    <3>1. PICK c : c = [op |-> "seed", template |-> "none", item |-> "none",
                        building |-> planning[s].key[1], todo |-> planning[s].todo]
      OBVIOUS
    <3>2. planning' = [planning EXCEPT ![s] = c]
      BY <2>1, <2>3, <3>1 DEF Programme!AfterItem, Programme!Goto
    <3>3. c.op = "seed" /\ c.template = "none" /\ c.item = "none"
      BY <3>1
    <3> QED
      BY <2>2, <3>2, <3>3
  <2>4. CASE planning[s].by # "seed" /\ planning[s].by = "wizard" /\ ok
    <3>1. PICK c : c = [op |-> "unmark", template |-> "none", item |-> "none",
                        building |-> planning[s].key[1], duty |-> planning[s].key[2]]
      OBVIOUS
    <3>2. planning' = [planning EXCEPT ![s] = c]
      BY <2>1, <2>4, <3>1 DEF Programme!AfterItem, Programme!Goto
    <3>3. c.op = "unmark" /\ c.template = "none" /\ c.item = "none"
      BY <3>1
    <3> QED
      BY <2>2, <3>2, <3>3
  <2>5. CASE planning[s].by # "seed" /\ ~(planning[s].by = "wizard" /\ ok)
    <3>2. planning' = [planning EXCEPT ![s] = Programme!Idle]
      BY <2>1, <2>5 DEF Programme!AfterItem, Programme!Return, Programme!Goto
    <3>3. Programme!Idle.op = "idle" /\ Programme!Idle.template = "none" /\ Programme!Idle.item = "none"
      BY DEF Programme!Idle
    <3> QED
      BY <2>2, <3>2, <3>3
  <2> QED
    BY <2>3, <2>4, <2>5
<1>1. CASE Programme!Taken(planning[s].key)
  <2>1. Programme!DropTemplate(t) /\ stray' = stray
    BY <1>1, <1>a DEF Programme!WriteItem
  <2> QED
    BY <1>a, <1>b, <2>1, DropStep
<1>2. CASE ~Programme!Taken(planning[s].key)
  <2>1. /\ Programme!InsertItem(planning[s].key, t, "none", "pending") /\ UNCHANGED <<templates, stray>>
    BY <1>2, <1>a DEF Programme!WriteItem
  <2>2. planning'[s] = work
    BY <1>b DEF ProgrammeInv
  <2>3. PlannerHolds(s)'
    BY <1>b, <2>2 DEF PlannerHolds
  <2> QED
    BY <1>a, <1>b, <2>1, <2>3, InsertStep
<1> QED
  BY <1>1, <1>2

LEMMA FindStep ==
    ASSUME RowsHaveNames, ProgrammeInv, NEW s \in Planners, NEW b, NEW o, NEW op \in {"clear", "delete"},
           NEW otherwise \in {"mark", "unmark"}, Programme!Find(s, b, o, op, otherwise)
    PROVE  ProgrammeInv'
<1>1. planning[s].template = "none" /\ UNCHANGED <<plan, templates, stray>>
      /\ templates' = [t \in Templates |-> templates'[t]]
  BY DEF ProgrammeInv, PlannerHolds, Programme!Find, Programme!At, Programme!planVars
<1>2. ASSUME NEW i \in Programme!Of(b, o),
             planning' = [planning EXCEPT ![s] = [op |-> op, template |-> plan[i].template, item |-> i,
                                                  building |-> b, duty |-> o]]
      PROVE  ProgrammeInv'
  <2>a. PICK work : work = [op |-> op, template |-> plan[i].template, item |-> i, building |-> b, duty |-> o]
    OBVIOUS
  <2>1. /\ work.op = op /\ work.template = plan[i].template /\ work.item = i
        /\ work = [op |-> work.op, template |-> work.template, item |-> work.item,
                   building |-> work.building, duty |-> work.duty]
        /\ planning' = [planning EXCEPT ![s] = work]
    BY <1>2, <2>a
  <2>2. i \in PlanItems /\ plan[i].template \in Templates
    BY ItemTemplates DEF Programme!Of, Programme!Rows
  <2>3. planning'[s] = work
    BY <2>1 DEF ProgrammeInv
  <2>4. PlannerHolds(s)'
    BY <1>1, <2>1, <2>2, <2>3 DEF PlannerHolds
  <2>5. \A x \in Templates : templates'[x] # "none" => templates[x] # "none" \/ SeesTo(work, x)
    BY <1>1
  <2>6. \A x \in Templates : templates'[x] # "none" /\ (x \in stray \/ SeesTo(planning[s], x)) =>
            Scheduled(x) \/ x \in stray' \/ SeesTo(work, x)
    BY <1>1 DEF RowsHaveNames, SeesTo
  <2> QED
    BY <1>1, <2>1, <2>4, <2>5, <2>6, PlanningStep
<1>3. ASSUME planning' = [planning EXCEPT ![s] = [op |-> otherwise, template |-> "none", item |-> "none",
                                                  building |-> b, duty |-> o]]
      PROVE  ProgrammeInv'
  <2>a. PICK work : work = [op |-> otherwise, template |-> "none", item |-> "none", building |-> b, duty |-> o]
    OBVIOUS
  <2>1. work.op = otherwise /\ work.template = "none" /\ work.item = "none"
        /\ planning' = [planning EXCEPT ![s] = work]
    BY <1>3, <2>a
  <2> QED
    BY <1>1, <2>1, BackStep
<1> QED
  BY <1>2, <1>3 DEF Programme!Find, Programme!Goto

LEMMA ClearItemsStep ==
    ASSUME RowsHaveNames, ProgrammeInv, NEW s \in Planners, Programme!ClearItems(s)
    PROVE  ProgrammeInv'
<1>a. PICK gone : gone = Programme!Of(planning[s].building, planning[s].duty)
  OBVIOUS
<1>b. PICK work : work = [planning[s] EXCEPT !.op = "dropThenMark"]
  OBVIOUS
<1>1. /\ plan' = [i \in PlanItems |-> IF i \in gone THEN Programme!NoItem ELSE plan[i]]
      /\ stray' = stray \cup {plan[i].template : i \in
             {j \in gone : plan[j].template # planning[s].template /\ Programme!Bare(plan[j].template, gone)}}
      /\ planning' = [planning EXCEPT ![s] = work] /\ templates' = templates /\ planning[s].op = "clear"
  BY <1>a, <1>b DEF Programme!ClearItems, Programme!Without, Programme!Goto, Programme!At
<1>2. gone \subseteq Programme!Rows
  BY <1>a DEF Programme!Of
<1>3. /\ work.op = "dropThenMark" /\ work.template = planning[s].template /\ work.item = planning[s].item
      /\ work = [op |-> work.op, template |-> work.template, item |-> work.item,
                 building |-> work.building, duty |-> work.duty]
  <2>1. planning[s] = [op |-> planning[s].op, template |-> planning[s].template, item |-> planning[s].item,
                       building |-> planning[s].building, duty |-> planning[s].duty]
    BY <1>1 DEF ProgrammeInv, PlannerHolds
  <2> QED
    BY <1>b, <2>1
<1>4. planning'[s] = work /\ \A r \in Planners \ {s} : planning'[r] = planning[r]
  BY <1>1 DEF ProgrammeInv
<1>5. PlannerHolds(s)'
  BY <1>1, <1>3, <1>4 DEF PlannerHolds, ProgrammeInv
<1>6. Programme!NoItem.template = "none"
  BY DEF Programme!NoItem
<1>7. \A r \in Planners : PlannerHolds(r)'
  BY <1>1, <1>4, <1>5, <1>6, PlannerKept DEF Kept
<1>8. \A i \in PlanItems : ItemHolds(i)'
  BY <1>1 DEF ProgrammeInv, ItemHolds
<1>9. ASSUME NEW t \in Templates, templates'[t] # "none" PROVE Scheduled(t)' \/ t \in stray' \/ Held(t)'
  <2>1. Scheduled(t) \/ t \in stray \/ Held(t)
    BY <1>1, <1>9 DEF ProgrammeInv
  <2>2. Held(t) => Held(t)'
    BY <1>3, <1>4 DEF Held, SeesTo
  <2>3. ASSUME NEW i \in PlanItems, plan[i].template = t, t # planning[s].template, ~Scheduled(t)'
        PROVE  t \in stray'
    <3>1. i \in gone
      BY <1>1, <2>3 DEF Scheduled
    <3>2. \A j \in Programme!Rows \ gone : plan[j].template # t
      BY <1>1, <2>3 DEF Scheduled, Programme!Rows
    <3>3. Programme!Bare(t, gone)
      BY <3>2 DEF Programme!Bare
    <3> QED
      BY <1>1, <2>3, <3>1, <3>3
  <2>4. t = planning[s].template => Held(t)'
    BY <1>3, <1>4 DEF Held, SeesTo
  <2> QED
    BY <1>1, <2>1, <2>2, <2>3, <2>4 DEF Scheduled
<1> QED
  BY <1>1, <1>7, <1>8, <1>9 DEF ProgrammeInv

LEMMA DeleteItemStep ==
    ASSUME RowsHaveNames, ProgrammeInv, NEW s \in Planners, Programme!DeleteItem(s)
    PROVE  ProgrammeInv'
<1>a. PICK i \in PlanItems : i = planning[s].item
  BY DEF ProgrammeInv, PlannerHolds, Programme!DeleteItem, Programme!At
<1>1. /\ planning[s].op = "delete" /\ UNCHANGED <<templates, stray>>
      /\ planning[s].template \in Templates /\ plan[i].template \in {"none", planning[s].template}
  BY <1>a DEF ProgrammeInv, PlannerHolds, Programme!DeleteItem, Programme!At
<1>2. CASE i \in Programme!Rows
  <2>b. PICK work : work = [planning[s] EXCEPT !.op = "dropThenUnmark"]
    OBVIOUS
  <2>1. /\ plan' = [x \in PlanItems |-> IF x \in {i} THEN Programme!NoItem ELSE plan[x]]
        /\ planning' = [planning EXCEPT ![s] = work]
    BY <1>2, <1>a, <2>b DEF Programme!DeleteItem, Programme!Without, Programme!Goto
  <2>3. /\ work.op = "dropThenUnmark" /\ work.template = planning[s].template /\ work.item = planning[s].item
        /\ work = [op |-> work.op, template |-> work.template, item |-> work.item,
                   building |-> work.building, duty |-> work.duty]
    <3>1. planning[s] = [op |-> planning[s].op, template |-> planning[s].template, item |-> planning[s].item,
                         building |-> planning[s].building, duty |-> planning[s].duty]
      BY <1>1 DEF ProgrammeInv, PlannerHolds
    <3> QED
      BY <2>b, <3>1
  <2>4. planning'[s] = work /\ \A r \in Planners \ {s} : planning'[r] = planning[r]
    BY <2>1 DEF ProgrammeInv
  <2>5. PlannerHolds(s)'
    BY <1>1, <2>3, <2>4 DEF PlannerHolds, ProgrammeInv
  <2>6. Programme!NoItem.template = "none"
    BY DEF Programme!NoItem
  <2>7. \A r \in Planners : PlannerHolds(r)'
    BY <2>1, <2>4, <2>5, <2>6, PlannerKept DEF Kept
  <2>8. \A x \in PlanItems : ItemHolds(x)'
    BY <2>1 DEF ProgrammeInv, ItemHolds
  <2>9. ASSUME NEW t \in Templates, templates'[t] # "none" PROVE Scheduled(t)' \/ t \in stray' \/ Held(t)'
    <3>1. Scheduled(t) \/ t \in stray \/ Held(t)
      BY <1>1, <2>9 DEF ProgrammeInv
    <3>2. Held(t) => Held(t)'
      BY <2>3, <2>4 DEF Held, SeesTo
    <3>3. t = planning[s].template => Held(t)'
      BY <2>3, <2>4 DEF Held, SeesTo
    <3>4. t # planning[s].template /\ Scheduled(t) => Scheduled(t)'
      BY <1>1, <2>1 DEF Scheduled, RowsHaveNames
    <3> QED
      BY <1>1, <3>1, <3>2, <3>3, <3>4
  <2> QED
    BY <1>1, <2>1, <2>7, <2>8, <2>9 DEF ProgrammeInv
<1>3. CASE i \notin Programme!Rows
  <2>1. planning' = [planning EXCEPT ![s] = Programme!Idle] /\ plan' = plan
    BY <1>3, <1>a DEF Programme!DeleteItem, Programme!Return, Programme!Goto
  <2>2. Programme!Idle.op = "idle" /\ Programme!Idle.template = "none" /\ Programme!Idle.item = "none"
    BY DEF Programme!Idle
  <2>3. planning'[s] = Programme!Idle /\ templates' = [t \in Templates |-> templates'[t]]
    BY <1>1, <2>1 DEF ProgrammeInv
  <2>4. PlannerHolds(s)'
    BY <2>2, <2>3 DEF PlannerHolds
  <2>5. \A t \in Templates : ~SeesTo(planning[s], t)
    BY <1>1 DEF SeesTo
  <2> QED
    BY <1>1, <2>1, <2>3, <2>4, <2>5, PlanningStep
<1> QED
  BY <1>2, <1>3

LEMMA DropFoundStep ==
    ASSUME RowsHaveNames, ProgrammeInv, NEW s \in Planners, NEW op \in {"dropThenMark", "dropThenUnmark"},
           NEW next \in {"mark", "unmark"}, Programme!DropFound(s, op, next)
    PROVE  ProgrammeInv'
<1>a. PICK t \in Templates : t = planning[s].template
  BY DEF ProgrammeInv, PlannerHolds, Programme!DropFound, Programme!At
<1>b. PICK work : work = [planning[s] EXCEPT !.op = next, !.template = "none", !.item = "none"]
  OBVIOUS
<1>1. /\ planning' = [planning EXCEPT ![s] = work]
      /\ work.op = next /\ work.template = "none" /\ work.item = "none"
  <2>1. planning[s] = [op |-> planning[s].op, template |-> planning[s].template, item |-> planning[s].item,
                       building |-> planning[s].building, duty |-> planning[s].duty]
    BY DEF ProgrammeInv, PlannerHolds, Programme!DropFound, Programme!At
  <2> QED
    BY <1>b, <2>1 DEF Programme!DropFound, Programme!Goto
<1>2. CASE templates[t] = planning[s].building
  <2>1. Programme!DropTemplate(t) /\ stray' = stray \ {t}
    BY <1>2, <1>a DEF Programme!DropFound
  <2> QED
    BY <1>1, <1>a, <2>1, DropStep
<1>3. CASE templates[t] # planning[s].building
  <2>1. /\ stray' = stray \cup {x \in {t} : templates[x] # "none" /\ Programme!Bare(x, {})}
        /\ UNCHANGED <<plan, templates>>
    BY <1>3, <1>a DEF Programme!DropFound
  <2>2. planning'[s] = work /\ templates' = [x \in Templates |-> templates'[x]]
    BY <1>1, <2>1 DEF ProgrammeInv
  <2>3. PlannerHolds(s)'
    BY <1>1, <2>2 DEF PlannerHolds
  <2>4. \A x \in Templates : templates'[x] # "none" /\ (x \in stray \/ SeesTo(planning[s], x)) =>
            Scheduled(x) \/ x \in stray' \/ SeesTo(work, x)
    BY <1>a, <2>1, ItemTemplates DEF SeesTo
  <2> QED
    BY <1>1, <2>1, <2>2, <2>3, <2>4, PlanningStep
<1> QED
  BY <1>2, <1>3

LEMMA SuggestSteps ==
    ASSUME RowsHaveNames, ProgrammeInv, NEW s \in Planners, NEW a,
           Programme!Suggest(s, a) \/ Programme!SuggestNext(s)
    PROVE  ProgrammeInv'
<1>1. planning[s].template = "none" /\ UNCHANGED <<templates, stray>>
      /\ templates' = [t \in Templates |-> templates'[t]]
  BY DEF ProgrammeInv, PlannerHolds, Programme!Suggest, Programme!SuggestNext, Programme!At, Programme!planVars
<1>2. ASSUME NEW work, planning' = [planning EXCEPT ![s] = work], plan' = plan, work.template = "none",
             PlannerHolds(s)'
      PROVE  ProgrammeInv'
  <2>1. \A t \in Templates : ~SeesTo(planning[s], t)
    BY <1>1 DEF SeesTo, RowsHaveNames
  <2> QED
    BY <1>1, <1>2, <2>1, PlanningStep
<1>3. CASE Programme!Suggest(s, a)
  <2>a. PICK todo : todo = {[template |-> plan[i].template, duty |-> plan[i].duty,
                             scope |-> plan[i].scope] : i \in Programme!Rows}
    OBVIOUS
  <2>b. PICK work : work = [op |-> "suggest", template |-> "none", item |-> "none", asset |-> a, todo |-> todo]
    OBVIOUS
  <2>1. planning' = [planning EXCEPT ![s] = work] /\ plan' = plan
    BY <1>3, <2>a, <2>b DEF Programme!Suggest, Programme!Goto, Programme!planVars
  <2>2. /\ work.op = "suggest" /\ work.template = "none" /\ work.item = "none" /\ work.todo = todo
        /\ work = [op |-> "suggest", template |-> "none", item |-> "none", asset |-> work.asset, todo |-> work.todo]
    BY <2>b
  <2>3. \A r \in todo : r.template \in Templates
    BY <2>a, ItemTemplates DEF Programme!Rows
  <2>4. planning'[s] = work
    BY <2>1 DEF ProgrammeInv
  <2>5. PlannerHolds(s)'
    BY <2>2, <2>3, <2>4 DEF PlannerHolds
  <2> QED
    BY <1>2, <2>1, <2>2, <2>5
<1>4. CASE Programme!SuggestNext(s)
  <2>1. /\ planning[s] = [op |-> "suggest", template |-> "none", item |-> "none", asset |-> planning[s].asset,
                          todo |-> planning[s].todo]
        /\ \A r \in planning[s].todo : r.template \in Templates
    BY <1>4 DEF ProgrammeInv, PlannerHolds, Programme!SuggestNext, Programme!At
  <2>2. ASSUME Programme!Return(s), plan' = plan PROVE ProgrammeInv'
    <3>1. planning' = [planning EXCEPT ![s] = Programme!Idle]
      BY <2>2 DEF Programme!Return, Programme!Goto
    <3>2. Programme!Idle.op = "idle" /\ Programme!Idle.template = "none" /\ Programme!Idle.item = "none"
      BY DEF Programme!Idle
    <3> QED
      BY <1>1, <2>2, <3>1, <3>2, BackStep
  <2>3. ASSUME NEW r \in planning[s].todo, NEW work, work = [planning[s] EXCEPT !.todo = @ \ {r}],
               planning' = [planning EXCEPT ![s] = work]
        PROVE  PlannerHolds(s)' /\ work.template = "none"
    <3>1. /\ work.op = "suggest" /\ work.template = "none" /\ work.item = "none"
          /\ work.todo = planning[s].todo \ {r}
          /\ work = [op |-> "suggest", template |-> "none", item |-> "none", asset |-> work.asset, todo |-> work.todo]
      BY <2>1, <2>3
    <3>2. planning'[s] = work
      BY <2>3 DEF ProgrammeInv
    <3> QED
      BY <2>1, <3>1, <3>2 DEF PlannerHolds
  <2>4. ASSUME NEW r \in planning[s].todo, NEW key, NEW work, work = [planning[s] EXCEPT !.todo = @ \ {r}],
               \/ planning' = [planning EXCEPT ![s] = work] /\ plan' = plan
               \/ Programme!Return(s) /\ plan' = plan
               \/ /\ Programme!InsertItem(key, r.template, planning[s].asset, "pending")
                  /\ planning' = [planning EXCEPT ![s] = work]
        PROVE  ProgrammeInv'
    <3>1. CASE planning' = [planning EXCEPT ![s] = work] /\ plan' = plan
      BY <1>2, <2>3, <2>4, <3>1
    <3>2. CASE /\ Programme!InsertItem(key, r.template, planning[s].asset, "pending")
               /\ planning' = [planning EXCEPT ![s] = work]
      <4>1. PICK t \in Templates : t = r.template
        BY <2>1
      <4>2. PlannerHolds(s)'
        BY <2>3, <2>4, <3>2
      <4>3. Programme!InsertItem(key, t, planning[s].asset, "pending")
        BY <3>2, <4>1
      <4> QED
        BY <1>1, <3>2, <4>2, <4>3, InsertStep
    <3> QED
      BY <2>2, <2>4, <3>1, <3>2
  <2>5. CASE Programme!Return(s) /\ plan' = plan
    BY <2>2, <2>5
  <2>6. CASE \E r \in planning[s].todo :
              LET x == planning[s].asset
                  key == <<AssetSite[x], r.duty, r.scope, "none">>
                  rest == [planning[s] EXCEPT !.todo = @ \ {r}]
              IN IF \E i \in Programme!Rows : plan[i].asset = x /\ plan[i].template = r.template
                 THEN Programme!Goto(s, rest) /\ UNCHANGED plan
                 ELSE IF templates[r.template] = "none" \/ Programme!Taken(key)
                 THEN Programme!Return(s) /\ UNCHANGED plan
                 ELSE Programme!InsertItem(key, r.template, x, "pending") /\ Programme!Goto(s, rest)
    <3>a. PICK r \in planning[s].todo :
              LET x == planning[s].asset
                  key == <<AssetSite[x], r.duty, r.scope, "none">>
                  rest == [planning[s] EXCEPT !.todo = @ \ {r}]
              IN IF \E i \in Programme!Rows : plan[i].asset = x /\ plan[i].template = r.template
                 THEN Programme!Goto(s, rest) /\ UNCHANGED plan
                 ELSE IF templates[r.template] = "none" \/ Programme!Taken(key)
                 THEN Programme!Return(s) /\ UNCHANGED plan
                 ELSE Programme!InsertItem(key, r.template, x, "pending") /\ Programme!Goto(s, rest)
      BY <2>6
    <3>b. PICK key : key = <<AssetSite[planning[s].asset], r.duty, r.scope, "none">>
      OBVIOUS
    <3>c. PICK work : work = [planning[s] EXCEPT !.todo = @ \ {r}]
      OBVIOUS
    <3>1. \/ planning' = [planning EXCEPT ![s] = work] /\ plan' = plan
          \/ Programme!Return(s) /\ plan' = plan
          \/ /\ Programme!InsertItem(key, r.template, planning[s].asset, "pending")
             /\ planning' = [planning EXCEPT ![s] = work]
      BY <3>a, <3>b, <3>c DEF Programme!Goto
    <3> QED
      BY <2>4, <3>1, <3>c
  <2> QED
    BY <1>4, <2>5, <2>6 DEF Programme!SuggestNext
<1> QED
  BY <1>3, <1>4

\* The invariant holds at first, every step keeps it, and it has what is to hold in it.
LEMMA ItemsInductive ==
    ASSUME RowsHaveNames
    PROVE  /\ Programme!ProgrammeInit => ProgrammeInv
           /\ ProgrammeInv /\ [Programme!Next]_(Programme!vars) => ProgrammeInv'
           /\ ProgrammeInv => Programme!TemplatesHaveItems
<1>1. ASSUME Programme!ProgrammeInit PROVE ProgrammeInv
  <2>1. /\ plan = [i \in PlanItems |-> Programme!NoItem] /\ templates = [t \in Templates |-> "none"]
        /\ planning = [s \in Planners |-> Programme!Idle]
    BY <1>1 DEF Programme!ProgrammeInit
  <2>2. Programme!Idle.op = "idle" /\ Programme!Idle.template = "none" /\ Programme!Idle.item = "none"
    BY DEF Programme!Idle
  <2> QED
    BY <2>1, <2>2 DEF ProgrammeInv, ItemHolds, PlannerHolds
<1>2. ASSUME ProgrammeInv, [Programme!Next]_Programme!vars PROVE ProgrammeInv'
  <2> USE <1>2
  <2>1. ASSUME NEW s \in Planners, NEW key, Programme!CreateProgram(s, key) \/ Programme!ApplyNew(s, key)
        PROVE  ProgrammeInv'
    <3>1. planning[s].template = "none"
      BY <2>1 DEF ProgrammeInv, PlannerHolds, Programme!CreateProgram, Programme!ApplyNew, Programme!At
    <3> QED
      BY <2>1, <3>1, NewTemplateStep DEF Programme!CreateProgram, Programme!ApplyNew
  <2>2. ASSUME NEW s \in Planners, NEW b, Programme!Seed(s, b) PROVE ProgrammeInv'
    <3>a. PICK work : work = [op |-> "seed", template |-> "none", item |-> "none", building |-> b,
                todo |-> {o \in Duties : ~\E i \in Programme!Of(b, o) : plan[i].scope = "building_common"}]
      OBVIOUS
    <3>1. planning[s].template = "none" /\ UNCHANGED <<plan, templates, stray>>
          /\ planning' = [planning EXCEPT ![s] = work]
      BY <2>2, <3>a DEF ProgrammeInv, PlannerHolds, Programme!Seed, Programme!At, Programme!Goto, Programme!planVars
    <3>2. work.op = "seed" /\ work.template = "none" /\ work.item = "none"
      BY <3>a
    <3> QED
      BY <3>1, <3>2, BackStep
  <2>3. ASSUME NEW s \in Planners, planning[s].template = "none", Programme!Return(s),
               UNCHANGED <<plan, templates, stray>>
        PROVE  ProgrammeInv'
    <3>1. planning' = [planning EXCEPT ![s] = Programme!Idle]
      BY <2>3 DEF Programme!Return, Programme!Goto
    <3>2. Programme!Idle.op = "idle" /\ Programme!Idle.template = "none" /\ Programme!Idle.item = "none"
      BY DEF Programme!Idle
    <3> QED
      BY <2>3, <3>1, <3>2, BackStep
  <2>4. ASSUME NEW s \in Planners, Programme!SeedNext(s) PROVE ProgrammeInv'
    <3>1. planning[s].template = "none"
      BY <2>4 DEF ProgrammeInv, PlannerHolds, Programme!SeedNext, Programme!At
    <3> QED
      BY <2>3, <2>4, <3>1, NewTemplateStep DEF Programme!SeedNext, Programme!planVars
  <2>5. ASSUME NEW s \in Planners, Programme!Unmark(s) \/ Programme!Mark(s) PROVE ProgrammeInv'
    <3>1. planning[s].template = "none"
      BY <2>5 DEF ProgrammeInv, PlannerHolds, Programme!Unmark, Programme!Mark, Programme!At
    <3> QED
      BY <2>3, <2>5, <3>1 DEF Programme!Unmark, Programme!Mark
  <2>6. ASSUME NEW s \in Planners, Programme!Throw(s) PROVE ProgrammeInv'
    <3>1. /\ planning' = [planning EXCEPT ![s] = Programme!Idle] /\ UNCHANGED <<plan, templates>>
          /\ stray' = stray \cup {t \in {planning[s].template} \cap Templates :
                                      templates[t] # "none" /\ Programme!Bare(t, {})}
      BY <2>6 DEF Programme!Throw, Programme!Return, Programme!Goto, Programme!planVars
    <3>2. Programme!Idle.op = "idle" /\ Programme!Idle.template = "none" /\ Programme!Idle.item = "none"
      BY DEF Programme!Idle
    <3>3. planning'[s] = Programme!Idle /\ templates' = [x \in Templates |-> templates'[x]]
      BY <3>1 DEF ProgrammeInv
    <3>4. PlannerHolds(s)'
      BY <3>2, <3>3 DEF PlannerHolds
    <3>5. \A t \in Templates : templates'[t] # "none" /\ (t \in stray \/ SeesTo(planning[s], t)) =>
              Scheduled(t) \/ t \in stray' \/ SeesTo(Programme!Idle, t)
      BY <3>1, ItemTemplates DEF SeesTo
    <3> QED
      BY <3>1, <3>3, <3>4, <3>5, PlanningStep
  <2>7. ASSUME NEW i \in PlanItems,
               \/ \E a \in Assets : Programme!Attach(i, a)
               \/ Programme!Detach(i) \/ Programme!RecordBaseline(i)
               \/ \E scope \in Programme!Scopes, unit \in Units \cup {"none"} : Programme!ApplyExisting(i, scope, unit)
        PROVE  ProgrammeInv'
    <3>1. UNCHANGED <<templates, planning, stray>> /\ plan[i] # Programme!NoItem
      BY <2>7 DEF Programme!Attach, Programme!Detach, Programme!RecordBaseline, Programme!ApplyExisting, Programme!Rows
    <3>2. PICK new : /\ plan' = [plan EXCEPT ![i] = new]
                     /\ \/ \E a : new = [plan[i] EXCEPT !.asset = a]
                        \/ \E x : new = [plan[i] EXCEPT !.baseline = x]
                        \/ \E scope, unit : new = [plan[i] EXCEPT !.scope = scope, !.unit = unit]
      <4>1. ASSUME NEW new, plan' = [plan EXCEPT ![i] = new],
                   \/ \E a : new = [plan[i] EXCEPT !.asset = a]
                   \/ \E x : new = [plan[i] EXCEPT !.baseline = x]
                   \/ \E scope, unit : new = [plan[i] EXCEPT !.scope = scope, !.unit = unit]
            PROVE  \E d : /\ plan' = [plan EXCEPT ![i] = d]
                          /\ \/ \E a : d = [plan[i] EXCEPT !.asset = a]
                             \/ \E x : d = [plan[i] EXCEPT !.baseline = x]
                             \/ \E scope, unit : d = [plan[i] EXCEPT !.scope = scope, !.unit = unit]
        BY <4>1
      <4>2. ASSUME NEW a \in Assets, Programme!Attach(i, a)
            PROVE  plan' = [plan EXCEPT ![i] = [plan[i] EXCEPT !.asset = a]]
        BY <4>2 DEF Programme!Attach
      <4>3. ASSUME Programme!Detach(i) PROVE plan' = [plan EXCEPT ![i] = [plan[i] EXCEPT !.asset = "none"]]
        BY <4>3 DEF Programme!Detach
      <4>4. ASSUME Programme!RecordBaseline(i)
            PROVE  plan' = [plan EXCEPT ![i] = [plan[i] EXCEPT !.baseline = "managed"]]
        BY <4>4 DEF Programme!RecordBaseline
      <4>5. ASSUME NEW scope \in Programme!Scopes, NEW unit \in Units \cup {"none"},
                   Programme!ApplyExisting(i, scope, unit)
            PROVE  plan' = [plan EXCEPT ![i] = [plan[i] EXCEPT !.scope = scope, !.unit = unit]]
        BY <4>5 DEF Programme!ApplyExisting
      <4> QED
        BY <2>7, <4>1, <4>2, <4>3, <4>4, <4>5
    <3>3. /\ plan[i] = [building |-> plan[i].building, duty |-> plan[i].duty, scope |-> plan[i].scope,
                        unit |-> plan[i].unit, template |-> plan[i].template, asset |-> plan[i].asset,
                        baseline |-> plan[i].baseline]
          /\ plan[i].template \in Templates
      BY <3>1 DEF ProgrammeInv, ItemHolds
    <3>4. /\ new = [building |-> new.building, duty |-> new.duty, scope |-> new.scope, unit |-> new.unit,
                    template |-> new.template, asset |-> new.asset, baseline |-> new.baseline]
          /\ new.template = plan[i].template
      BY <3>2, <3>3
    <3>5. plan'[i] = new /\ (\A x \in PlanItems \ {i} : plan'[x] = plan[x]) /\ plan' = [x \in PlanItems |-> plan'[x]]
      BY <3>2 DEF ProgrammeInv
    <3>6. \A x \in PlanItems : Kept(x) /\ ItemHolds(x)'
      BY <3>3, <3>4, <3>5 DEF ProgrammeInv, ItemHolds, Kept
    <3> QED
      BY <3>1, <3>5, <3>6, EditStep
  <2>8. ASSUME NEW s \in Planners, NEW b, NEW o,
               Programme!Find(s, b, o, "clear", "mark") \/ Programme!Find(s, b, o, "delete", "unmark")
        PROVE  ProgrammeInv'
    BY <2>8, FindStep
  <2>9. ASSUME NEW s \in Planners,
               Programme!DropFound(s, "dropThenMark", "mark") \/ Programme!DropFound(s, "dropThenUnmark", "unmark")
        PROVE  ProgrammeInv'
    BY <2>9, DropFoundStep
  <2>10. CASE UNCHANGED Programme!programmeVars
    BY <2>10 DEF Programme!programmeVars, Programme!planVars, ProgrammeInv, ItemHolds, PlannerHolds, Scheduled, Held, SeesTo
  <2>11. ASSUME Programme!ProgrammeNext PROVE ProgrammeInv'
    BY <2>1, <2>2, <2>4, <2>5, <2>6, <2>7, <2>8, <2>9, <2>11, WriteItemStep, ClearItemsStep, DeleteItemStep,
       SuggestSteps DEF Programme!ProgrammeNext
  <2> QED
    BY <2>10, <2>11 DEF Programme!Next, Programme!vars
<1>3. ASSUME ProgrammeInv PROVE Programme!TemplatesHaveItems
  BY <1>3, ItemTemplates DEF ProgrammeInv, Held, SeesTo, Programme!TemplatesHaveItems
<1> QED
  BY <1>1, <1>2, <1>3

\* ppm.service.ts:573, :1726 and :1912: for any templates, items and overlapping calls, a template has an
\* item, or a call is on it, was cut on it, or marked an obligation with several items.
THEOREM ItemsCorrect ==
    ASSUME RowsHaveNames
    PROVE  Programme!Spec => []Programme!TemplatesHaveItems
BY ItemsInductive, PTL DEF Programme!Spec, Programme!Init
-----------------------------------------------------------------------------
(* Obligations: which of them a building is known to have *)

\* An evaluation works through the obligations; those behind it have their row.
EvaluationHolds(s) ==
    LET work == evaluation[s] IN
    work.op = "apply" =>
        /\ work = [op |-> "apply", read |-> work.read, todo |-> work.todo]
        /\ work.read \in Storeys /\ work.todo \subseteq Demands
        /\ \A o \in Demands \ work.todo : Programme!Applies(o, work.read) => o \in auto

ObligationInv ==
    /\ storeys \in Storeys /\ auto \subseteq Demands
    /\ evaluation = [s \in Evaluations |-> evaluation[s]]
    /\ \A s \in Evaluations : EvaluationHolds(s)
    /\ \A o \in Demands, v \in asOf : Programme!Applies(o, v) => o \in auto
    /\ \A o \in auto : \E v \in Storeys : Programme!Applies(o, v)

\* The invariant holds at first, every step keeps it, and it has what is to hold in it.
LEMMA ObligationsInductive ==
    ASSUME -1 \in Storeys
    PROVE  /\ Programme!ObligationInit => ObligationInv
           /\ ObligationInv /\ [Programme!Next]_(Programme!vars) => ObligationInv'
           /\ ObligationInv => Programme!ObligationsAreKnown
<1>1. ASSUME Programme!ObligationInit PROVE ObligationInv
  BY <1>1 DEF Programme!ObligationInit, ObligationInv, EvaluationHolds
<1>2. ASSUME ObligationInv, [Programme!Next]_Programme!vars PROVE ObligationInv'
  <2> USE <1>2
  <2>1. ASSUME NEW s \in Evaluations, NEW work, evaluation' = [evaluation EXCEPT ![s] = work],
               UNCHANGED <<storeys, auto>>, work.op = "idle",
               \A v \in asOf' \ asOf : \A o \in Demands : Programme!Applies(o, v) => o \in auto
        PROVE  ObligationInv'
    <3>1. evaluation'[s] = work /\ (\A r \in Evaluations \ {s} : evaluation'[r] = evaluation[r])
          /\ evaluation' = [r \in Evaluations |-> evaluation'[r]]
      BY <2>1 DEF ObligationInv
    <3>2. \A r \in Evaluations : EvaluationHolds(r)'
      BY <2>1, <3>1 DEF ObligationInv, EvaluationHolds
    <3> QED
      BY <2>1, <3>1, <3>2 DEF ObligationInv
  <2>2. ASSUME NEW s \in Evaluations, Programme!BuildingContext(s) PROVE ObligationInv'
    <3>a. PICK work : work = [op |-> "apply", read |-> storeys, todo |-> Demands]
      OBVIOUS
    <3>b. work = [op |-> "apply", read |-> work.read, todo |-> work.todo] /\ work.read = storeys /\ work.todo = Demands
      BY <3>a
    <3>1. evaluation' = [evaluation EXCEPT ![s] = work] /\ UNCHANGED <<storeys, auto, asOf>>
      BY <2>2, <3>a DEF Programme!BuildingContext
    <3>2. evaluation'[s] = work /\ (\A r \in Evaluations \ {s} : evaluation'[r] = evaluation[r])
          /\ evaluation' = [r \in Evaluations |-> evaluation'[r]]
      BY <3>1 DEF ObligationInv
    <3>3. \A r \in Evaluations : EvaluationHolds(r)'
      BY <3>1, <3>2, <3>b DEF ObligationInv, EvaluationHolds
    <3> QED
      BY <3>1, <3>2, <3>3 DEF ObligationInv
  <2>3. ASSUME NEW s \in Evaluations, Programme!ApplyTemplate(s) PROVE ObligationInv'
    <3>a. PICK o \in evaluation[s].todo :
              /\ auto' = IF Programme!Applies(o, evaluation[s].read) THEN auto \cup {o} ELSE auto
              /\ evaluation' = [evaluation EXCEPT ![s].todo = @ \ {o}]
      BY <2>3 DEF Programme!ApplyTemplate
    <3>b. PICK work : work = [evaluation[s] EXCEPT !.todo = @ \ {o}]
      OBVIOUS
    <3>1. /\ evaluation[s].op = "apply" /\ EvaluationHolds(s) /\ UNCHANGED <<storeys, asOf>>
      BY <2>3 DEF ObligationInv, Programme!ApplyTemplate
    <3>2. /\ evaluation[s] = [op |-> "apply", read |-> evaluation[s].read, todo |-> evaluation[s].todo]
          /\ evaluation[s].read \in Storeys /\ evaluation[s].todo \subseteq Demands
      BY <3>1 DEF EvaluationHolds
    <3>3. /\ work = [op |-> "apply", read |-> work.read, todo |-> work.todo]
          /\ work.read = evaluation[s].read /\ work.todo = evaluation[s].todo \ {o}
      BY <3>2, <3>b
    <3>4. evaluation'[s] = work /\ (\A r \in Evaluations \ {s} : evaluation'[r] = evaluation[r])
          /\ evaluation' = [r \in Evaluations |-> evaluation'[r]]
      BY <3>a, <3>b DEF ObligationInv
    <3>5. o \in Demands /\ auto \subseteq auto' /\ auto' \subseteq auto \cup {o}
          /\ (Programme!Applies(o, evaluation[s].read) <=> o \in auto' \ auto \/ (o \in auto /\ Programme!Applies(o, evaluation[s].read)))
      BY <3>2, <3>a
    <3>6. EvaluationHolds(s)'
      <4>1. \A d \in Demands \ work.todo : Programme!Applies(d, work.read) => d \in auto'
        BY <3>1, <3>3, <3>5, <3>a DEF EvaluationHolds
      <4> QED
        BY <3>2, <3>3, <3>4, <4>1 DEF EvaluationHolds
    <3>7. \A r \in Evaluations : EvaluationHolds(r)'
      BY <3>4, <3>5, <3>6 DEF ObligationInv, EvaluationHolds
    <3> QED
      BY <3>1, <3>2, <3>4, <3>5, <3>7 DEF ObligationInv
  <2>4. ASSUME NEW s \in Evaluations, Programme!EndEvaluation(s) PROVE ObligationInv'
    <3>a. PICK work : work = [op |-> "idle"]
      OBVIOUS
    <3>1. /\ evaluation' = [evaluation EXCEPT ![s] = work] /\ work.op = "idle" /\ UNCHANGED <<storeys, auto>>
          /\ asOf' = asOf \cup {evaluation[s].read} /\ evaluation[s].todo = {} /\ evaluation[s].op = "apply"
      BY <2>4, <3>a DEF Programme!EndEvaluation
    <3>2. \A o \in Demands : Programme!Applies(o, evaluation[s].read) => o \in auto
      BY <3>1 DEF ObligationInv, EvaluationHolds
    <3> QED
      BY <2>1, <3>1, <3>2
  <2>5. ASSUME NEW s \in Evaluations, Programme!CutEvaluation(s) PROVE ObligationInv'
    <3>a. PICK work : work = [op |-> "idle"]
      OBVIOUS
    <3>1. /\ evaluation' = [evaluation EXCEPT ![s] = work] /\ work.op = "idle" /\ UNCHANGED <<storeys, auto, asOf>>
      BY <2>5, <3>a DEF Programme!CutEvaluation
    <3> QED
      BY <2>1, <3>1
  <2>6. ASSUME storeys' \in Storeys, UNCHANGED <<auto, evaluation, asOf>> PROVE ObligationInv'
    BY <2>6 DEF ObligationInv, EvaluationHolds
  <2>7. ASSUME NEW o \in Demands,
               \/ Programme!MarkNotApplicable(o) \/ Programme!ApplyDemand(o) \/ Programme!RemoveDemand(o)
               \/ Programme!CreateItem(o) \/ Programme!Manage(o)
        PROVE  ObligationInv'
    BY <2>6, <2>7 DEF ObligationInv, Programme!MarkNotApplicable, Programme!ApplyDemand, Programme!RemoveDemand,
                      Programme!CreateItem, Programme!Manage
  <2>8. ASSUME NEW v \in Storeys, Programme!ChangeStoreys(v) PROVE ObligationInv'
    BY <2>6, <2>8 DEF Programme!ChangeStoreys
  <2>9. CASE UNCHANGED Programme!obligationVars
    BY <2>6, <2>9 DEF Programme!obligationVars, ObligationInv
  <2> QED
    BY <2>2, <2>3, <2>4, <2>5, <2>7, <2>8, <2>9 DEF Programme!Next, Programme!ObligationNext, Programme!vars
<1>3. ASSUME ObligationInv PROVE Programme!ObligationsAreKnown
  <2>1. ASSUME NEW o \in Demands
        PROVE  /\ "not_applicable" \in Programme!WizardStatus(o) => o \in mark
               /\ o \in mark \ auto /\ flow[o] # "managed" => Programme!WizardStatus(o) = {"not_applicable"}
    BY DEF Programme!WizardStatus
  <2> QED
    BY <1>3, <2>1 DEF ObligationInv, Programme!ObligationsAreKnown
<1> QED
  BY <1>1, <1>2, <1>3

\* applicability.service.ts:50-89, ppm.service.ts:1420-1436: for any obligations, rules, floors and
\* overlapping evaluations, what applied when one ended has its row, no row is of what never
\* applied, and the wizard shows what was marked and is neither managed nor automatic as such.
THEOREM ObligationsCorrect ==
    ASSUME -1 \in Storeys
    PROVE  Programme!Spec => []Programme!ObligationsAreKnown
BY ObligationsInductive, PTL DEF Programme!Spec, Programme!Init
-----------------------------------------------------------------------------
(* PpmCalendar: who is reminded *)

\* What run s is telling, and to whom: the row of the reminder, and its key
Notice(u, s) == <<u, Calendar!DayOf(scan[s].due), scan[s].n>>
Key(s) == <<Calendar!DayOf(scan[s].due), scan[s].n>>

\* A run that has come to a reminder, and whom it may yet tell
Works(s) == scan[s].op \in {"read", "tell"}
Awaiting(s) == IF scan[s].op = "read" THEN Addressees ELSE scan[s].left

RunTypes(s) ==
    /\ scan[s].op \in {"idle", "plan", "read", "tell"}
    /\ scan[s].op # "idle" => scan[s].due \in Int
    /\ scan[s].op = "plan" => scan[s].named \subseteq Addressees
    /\ Works(s) => scan[s].named \subseteq Addressees /\ scan[s].left \subseteq Addressees

\* A run tells nobody again unless another was at the reminder: they are at it together, or the
\* other had begun to tell when this one looked.
ScanHolds(s) ==
    Works(s) =>
        /\ \A u \in Awaiting(s) : Notice(u, s) \in told => Key(s) \in contended
        /\ \A r \in Runs \ {s} : Works(r) /\ Key(r) = Key(s) => Key(s) \in contended

\* Who was to be told has been, or is on the list of a run, or a run was cut.
OwedHolds(t) ==
    /\ t = <<t[1], t[2], t[3]>> /\ t[2] \in Int
    /\ \/ t \in told
       \/ <<t[2], t[3]>> \in untold
       \/ \E s \in Runs : Works(s) /\ Key(s) = <<t[2], t[3]>> /\ t[1] \in scan[s].left

ReminderInv ==
    /\ day \in Int /\ due \in Int
    /\ DOMAIN scan = Runs
    /\ \A s \in Runs : RunTypes(s) /\ ScanHolds(s)
    /\ \A t \in owed : OwedHolds(t)
    /\ \A t \in doubled : <<t[2], t[3]>> \in contended

\* What a step of s leaves of the others, and of what is told twice
OthersHold(s) ==
    \A r \in Runs \ {s} : Works(r) =>
        \A u \in Awaiting(r) : Notice(u, r) \in told' => Key(r) \in contended'
DoubledHold == \A t \in doubled' : <<t[2], t[3]>> \in contended'

\* What a run that goes on to next is at
AtReminder(next) == next.op \in {"read", "tell"}
KeyOf(next) == <<Calendar!DayOf(next.due), next.n>>
NoticeOf(u, next) == <<u, KeyOf(next)[1], KeyOf(next)[2]>>
Heard(next) == IF next.op = "read" THEN Addressees ELSE next.left

\* Run s goes on to next: the others stay right while what is told and contended only grows, and
\* whom s leaves out of its list has been told, or s was cut.
LEMMA ReminderMoves ==
    ASSUME ReminderInv, NEW s \in Runs, NEW next, scan' = [scan EXCEPT ![s] = next],
           next.op \in {"idle", "plan", "read", "tell"},
           next.op # "idle" => next.due \in Int /\ next.named \subseteq Addressees,
           AtReminder(next) => next.left \subseteq Addressees,
           UNCHANGED <<day, due>>,
           told \subseteq told', untold \subseteq untold', contended \subseteq contended',
           OthersHold(s), DoubledHold,
           AtReminder(next) => \A r \in Runs \ {s} : Works(r) /\ Key(r) = KeyOf(next) => KeyOf(next) \in contended',
           AtReminder(next) => \A u \in Heard(next) : NoticeOf(u, next) \in told' => KeyOf(next) \in contended',
           \A t \in owed : Works(s) /\ Key(s) = <<t[2], t[3]>> /\ t[1] \in scan[s].left =>
               \/ t \in told' \/ <<t[2], t[3]>> \in untold'
               \/ AtReminder(next) /\ KeyOf(next) = <<t[2], t[3]>> /\ t[1] \in next.left,
           \A t \in owed' : t \in owed \/ \E u \in next.left : AtReminder(next) /\ t = NoticeOf(u, next)
    PROVE  ReminderInv'
<1>1. /\ DOMAIN scan' = Runs /\ scan'[s] = next
      /\ \A r \in Runs \ {s} : scan'[r] = scan[r]
  BY DEF ReminderInv
<1>2. AtReminder(next) => Works(s)' /\ Key(s)' = KeyOf(next) /\ (\A u : Notice(u, s)' = NoticeOf(u, next))
  BY <1>1 DEF Works, Key, Notice, AtReminder, KeyOf, NoticeOf
<1>3. Works(s)' => AtReminder(next)
  BY <1>1 DEF Works, AtReminder
<1>4. ASSUME NEW r \in Runs \ {s}
      PROVE  /\ RunTypes(r) /\ ScanHolds(r) /\ scan'[r] = scan[r]
             /\ Works(r)' = Works(r) /\ Awaiting(r)' = Awaiting(r) /\ Key(r)' = Key(r)
             /\ \A u : Notice(u, r)' = Notice(u, r)
  <2>1. scan'[r] = scan[r]
    BY <1>1
  <2> QED
    BY <2>1 DEF ReminderInv, Works, Awaiting, Key, Notice
<1>5. ASSUME NEW r \in Runs PROVE RunTypes(r)'
  <2>1. CASE r = s
    BY <1>1, <2>1 DEF RunTypes, Works, AtReminder
  <2>2. CASE r # s
    BY <1>4, <2>2 DEF RunTypes, Works
  <2> QED
    BY <2>1, <2>2
<1>6. ASSUME NEW r \in Runs PROVE ScanHolds(r)'
  <2>1. CASE r = s
    <3>1. AtReminder(next) => \A u \in Awaiting(s)' : Notice(u, s)' \in told' => Key(s)' \in contended'
      BY <1>1, <1>2 DEF Awaiting, Heard
    <3>2. AtReminder(next) => \A q \in Runs \ {s} : Works(q)' /\ Key(q)' = Key(s)' => Key(s)' \in contended'
      BY <1>2, <1>4
    <3> QED
      BY <1>3, <2>1, <3>1, <3>2 DEF ScanHolds
  <2>2. CASE r # s
    <3> SUFFICES ASSUME Works(r)
                 PROVE  /\ \A u \in Awaiting(r) : Notice(u, r) \in told' => Key(r) \in contended'
                        /\ \A q \in Runs \ {r} : Works(q)' /\ Key(q)' = Key(r) => Key(r) \in contended'
      BY <1>4, <2>2 DEF ScanHolds
    <3>1. \A u \in Awaiting(r) : Notice(u, r) \in told' => Key(r) \in contended'
      BY <2>2 DEF OthersHold
    <3>2. ASSUME NEW q \in Runs \ {r}, Works(q)', Key(q)' = Key(r) PROVE Key(r) \in contended'
      <4>1. CASE q = s
        BY <1>2, <1>3, <2>2, <3>2, <4>1
      <4>2. CASE q # s
        BY <1>4, <2>2, <3>2, <4>2 DEF ScanHolds
      <4> QED
        BY <4>1, <4>2
    <3> QED
      BY <3>1, <3>2
  <2> QED
    BY <2>1, <2>2
<1>7. ASSUME NEW t \in owed' PROVE OwedHolds(t)'
  <2>1. CASE t \in owed
    <3>1. OwedHolds(t) /\ t = <<t[1], t[2], t[3]>> /\ t[2] \in Int
      BY <2>1 DEF ReminderInv, OwedHolds
    <3>2. CASE t \in told \/ <<t[2], t[3]>> \in untold
      BY <3>1, <3>2 DEF OwedHolds
    <3>3. ASSUME NEW r \in Runs, Works(r), Key(r) = <<t[2], t[3]>>, t[1] \in scan[r].left
          PROVE  OwedHolds(t)'
      <4>1. CASE r = s
        <5>1. \/ t \in told' \/ <<t[2], t[3]>> \in untold'
              \/ AtReminder(next) /\ KeyOf(next) = <<t[2], t[3]>> /\ t[1] \in next.left
          BY <2>1, <3>3, <4>1
        <5>2. AtReminder(next) /\ KeyOf(next) = <<t[2], t[3]>> /\ t[1] \in next.left =>
                  Works(s)' /\ Key(s)' = <<t[2], t[3]>> /\ t[1] \in scan'[s].left
          BY <1>1, <1>2
        <5> QED
          BY <3>1, <5>1, <5>2 DEF OwedHolds
      <4>2. CASE r # s
        <5>1. Works(r)' /\ Key(r)' = <<t[2], t[3]>> /\ t[1] \in scan'[r].left
          BY <1>4, <3>3, <4>2
        <5> QED
          BY <3>1, <5>1 DEF OwedHolds
      <4> QED
        BY <4>1, <4>2
    <3> QED
      BY <3>1, <3>2, <3>3 DEF OwedHolds
  <2>2. CASE t \notin owed
    <3>1. PICK u \in next.left : AtReminder(next) /\ t = NoticeOf(u, next)
      BY <1>7, <2>2
    <3>2. KeyOf(next)[1] \in Int /\ KeyOf(next) = <<KeyOf(next)[1], KeyOf(next)[2]>>
      <4>1. Calendar!DayOf(next.due) \in Int
        BY <3>1 DEF Calendar!DayOf, AtReminder
      <4> QED
        BY <4>1 DEF KeyOf
    <3>3. t = <<t[1], t[2], t[3]>> /\ t[2] \in Int /\ <<t[2], t[3]>> = KeyOf(next) /\ t[1] \in next.left
      BY <3>1, <3>2 DEF NoticeOf
    <3>4. Works(s)' /\ Key(s)' = <<t[2], t[3]>> /\ t[1] \in scan'[s].left
      BY <1>1, <1>2, <3>1, <3>3
    <3> QED
      BY <3>3, <3>4 DEF OwedHolds
  <2> QED
    BY <2>1, <2>2
<1> QED
  BY <1>1, <1>5, <1>6, <1>7 DEF ReminderInv, DoubledHold

\* It comes to the end of a reminder.
LEMMA ReminderRests ==
    ASSUME ReminderInv, NEW s \in Runs, NEW next, scan' = [scan EXCEPT ![s] = next],
           next.op \in {"idle", "plan"},
           next.op = "plan" => next.due \in Int /\ next.named \subseteq Addressees,
           UNCHANGED <<day, due>>,
           told \subseteq told', untold \subseteq untold', contended \subseteq contended',
           OthersHold(s), DoubledHold,
           \A t \in owed : Works(s) /\ Key(s) = <<t[2], t[3]>> /\ t[1] \in scan[s].left =>
               t \in told' \/ <<t[2], t[3]>> \in untold',
           \A t \in owed' : t \in owed
    PROVE  ReminderInv'
<1>1. ~AtReminder(next) /\ next.op \in {"idle", "plan", "read", "tell"}
  BY DEF AtReminder
<1> QED
  BY <1>1, ReminderMoves

\* It goes on with one.
LEMMA ReminderGoes ==
    ASSUME ReminderInv, NEW s \in Runs, NEW next, scan' = [scan EXCEPT ![s] = next],
           next.op \in {"read", "tell"},
           next.due \in Int, next.named \subseteq Addressees, next.left \subseteq Addressees,
           UNCHANGED <<day, due>>,
           told \subseteq told', untold \subseteq untold', contended \subseteq contended',
           OthersHold(s), DoubledHold,
           \A r \in Runs \ {s} : Works(r) /\ Key(r) = KeyOf(next) => KeyOf(next) \in contended',
           \A u \in Heard(next) :
               NoticeOf(u, next) \in told' => KeyOf(next) \in contended',
           \A t \in owed : Works(s) /\ Key(s) = <<t[2], t[3]>> /\ t[1] \in scan[s].left =>
               t \in told' \/ (KeyOf(next) = <<t[2], t[3]>> /\ t[1] \in next.left),
           \A t \in owed' : t \in owed \/ \E u \in next.left : t = NoticeOf(u, next)
    PROVE  ReminderInv'
<1>1. AtReminder(next) /\ next.op \in {"idle", "plan", "read", "tell"}
  BY DEF AtReminder
<1>2. \A t \in owed' : t \in owed \/ \E u \in next.left : AtReminder(next) /\ t = NoticeOf(u, next)
  BY <1>1
<1>3. \A t \in owed : Works(s) /\ Key(s) = <<t[2], t[3]>> /\ t[1] \in scan[s].left =>
          \/ t \in told' \/ <<t[2], t[3]>> \in untold'
          \/ AtReminder(next) /\ KeyOf(next) = <<t[2], t[3]>> /\ t[1] \in next.left
  BY <1>1
<1>4. /\ next.op # "idle" => next.due \in Int /\ next.named \subseteq Addressees
      /\ AtReminder(next) => next.left \subseteq Addressees
      /\ AtReminder(next) => \A r \in Runs \ {s} : Works(r) /\ Key(r) = KeyOf(next) => KeyOf(next) \in contended'
      /\ AtReminder(next) => \A u \in Heard(next) :
                          NoticeOf(u, next) \in told' => KeyOf(next) \in contended'
  OBVIOUS
<1> QED
  BY <1>1, <1>2, <1>3, <1>4, ReminderMoves

\* The invariant holds at first, every step keeps it, and it has what is to hold in it.
LEMMA RemindersInductive ==
    ASSUME DatesAreNumbers
    PROVE  /\ Calendar!ReminderInit => ReminderInv
           /\ ReminderInv /\ [Calendar!Next]_(Calendar!vars) => ReminderInv'
           /\ ReminderInv => Calendar!RemindersReachAll
<1>1. Calendar!ReminderInit => ReminderInv
  <2> SUFFICES ASSUME Calendar!ReminderInit PROVE ReminderInv
    OBVIOUS
  <2>1. due \in Dues
    BY DEF Calendar!ReminderInit, DatesAreNumbers
  <2>2. \A s \in Runs : scan[s].op = "idle"
    BY DEF Calendar!ReminderInit, Calendar!Resting
  <2>3. day = 0 /\ DOMAIN scan = Runs /\ owed = {} /\ doubled = {}
    BY DEF Calendar!ReminderInit
  <2>4. \A s \in Runs : RunTypes(s) /\ ScanHolds(s)
    BY <2>2 DEF RunTypes, ScanHolds, Works
  <2>5. day \in Int /\ due \in Int
    BY <2>1, <2>3 DEF DatesAreNumbers
  <2> QED
    BY <2>3, <2>4, <2>5 DEF ReminderInv
<1>2. ASSUME ReminderInv, [Calendar!Next]_Calendar!vars PROVE ReminderInv'
  <2> USE <1>2
  <2>a. ASSUME NEW r, NEW n
        PROVE  LET next == Calendar!After(r, n) IN
               /\ next.op \in {"idle", "plan"}
               /\ next.op = "plan" => next.due = r.due /\ next.named = r.named
    BY DEF Calendar!After, Calendar!Resting
  <2>b. ASSUME NEW r, NEW op, NEW n, NEW left
        PROVE  LET next == Calendar!Busy(r, op, n, left) IN
               /\ next.op = op /\ next.due = r.due /\ next.named = r.named
               /\ next.n = n /\ next.left = left
    BY DEF Calendar!Busy
  <2>c. /\ \A r \in Runs : Works(r) =>
               \A u \in Awaiting(r) : Notice(u, r) \in told => Key(r) \in contended
        /\ \A t \in doubled : <<t[2], t[3]>> \in contended
    BY DEF ReminderInv, ScanHolds
  <2>e. ASSUME NEW s \in Runs, UNCHANGED <<told, doubled>>, contended \subseteq contended'
        PROVE  OthersHold(s) /\ DoubledHold
    BY <2>c, <2>e DEF OthersHold, DoubledHold
  <2>d. ASSUME NEW s \in Runs, scan[s].op # "idle"
        PROVE  /\ scan[s].due \in Int /\ scan[s].named \subseteq Addressees
               /\ Works(s) => scan[s].left \subseteq Addressees
               /\ Calendar!DayOf(scan[s].due) \in Int
    BY <2>d DEF ReminderInv, RunTypes, Works, Calendar!DayOf
  <2>1. ASSUME NEW s \in Runs, NEW users \in SUBSET Addressees, Calendar!StartScan(s, users)
        PROVE  ReminderInv'
    <3>1. PICK next : /\ next = [op |-> "plan", at |-> 2 * day, due |-> due, named |-> users, todo |-> Ahead]
                      /\ scan' = [scan EXCEPT ![s] = next]
      BY <2>1 DEF Calendar!StartScan
    <3>2. next.op = "plan" /\ next.due = due /\ next.named = users
      BY <3>1
    <3>3. UNCHANGED <<day, due, told, owed, untold, contended, doubled>> /\ ~Works(s) /\ due \in Int
      BY <2>1 DEF Calendar!StartScan, Works, ReminderInv
    <3>4. OthersHold(s) /\ DoubledHold
      BY <3>3, <2>e
    <3> QED
      BY <3>1, <3>2, <3>3, <3>4, ReminderRests
  <2>2. ASSUME NEW s \in Runs, Calendar!CutScan(s) PROVE ReminderInv'
    <3>1. PICK next : next = Calendar!Resting /\ scan' = [scan EXCEPT ![s] = next]
      BY <2>2 DEF Calendar!CutScan
    <3>2. next.op = "idle"
      BY <3>1 DEF Calendar!Resting
    <3>3. /\ UNCHANGED <<day, due, told, owed, contended, doubled>>
          /\ untold \subseteq untold' /\ (Works(s) => Key(s) \in untold')
      BY <2>2 DEF Calendar!CutScan, Key, Works
    <3>4. OthersHold(s) /\ DoubledHold
      BY <3>3, <2>e
    <3> QED
      BY <3>1, <3>2, <3>3, <3>4, ReminderRests
  <2>3. ASSUME NEW s \in Runs, NEW u \in Addressees, Calendar!Tell(s, u) PROVE ReminderInv'
    <3>1. /\ scan[s].op = "tell" /\ u \in scan[s].left
          /\ told' = told \cup {Notice(u, s)} /\ doubled' = doubled \cup ({Notice(u, s)} \cap told)
          /\ UNCHANGED <<day, due, owed, untold, contended>>
      BY <2>3 DEF Calendar!Tell, Notice
    <3>2. /\ scan[s].due \in Int /\ scan[s].named \subseteq Addressees /\ scan[s].left \subseteq Addressees
          /\ ScanHolds(s) /\ Works(s) /\ Awaiting(s) = scan[s].left
      BY <3>1, <2>d DEF ReminderInv, Works, Awaiting
    <3>3. PICK next : /\ next = IF scan[s].left = {u} THEN Calendar!After(scan[s], scan[s].n)
                                ELSE Calendar!Busy(scan[s], "tell", scan[s].n, scan[s].left \ {u})
                      /\ scan' = [scan EXCEPT ![s] = next]
      BY <2>3 DEF Calendar!Tell, ReminderInv
    <3>4. DoubledHold
      <4>1. Notice(u, s) \in told => <<Notice(u, s)[2], Notice(u, s)[3]>> \in contended
        BY <3>1, <3>2 DEF ScanHolds, Notice, Key
      <4> QED
        BY <4>1, <3>1, <2>c DEF DoubledHold
    <3>5. \A t \in owed : t = <<t[1], t[2], t[3]>>
      BY DEF ReminderInv, OwedHolds
    <3>6. \A t \in owed : Key(s) = <<t[2], t[3]>> /\ t[1] = u => t \in told'
      BY <3>1, <3>5 DEF Notice, Key
    <3>7. ASSUME NEW r \in Runs \ {s}, Works(r), NEW v \in Awaiting(r), Notice(v, r) \in told'
          PROVE  Key(r) \in contended'
      <4>1. CASE Notice(v, r) \in told
        BY <2>c, <3>1, <3>7, <4>1
      <4>2. CASE Notice(v, r) = Notice(u, s)
        <5>1. Key(s) = Key(r)
          BY <4>2 DEF Notice, Key
        <5> QED
          BY <3>1, <3>2, <3>7, <5>1 DEF ScanHolds
      <4> QED
        BY <3>1, <3>7, <4>1, <4>2
    <3>a. OthersHold(s)
      BY <3>7 DEF OthersHold
    <3>8. CASE scan[s].left = {u}
      <4>1. next.op \in {"idle", "plan"} /\ (next.op = "plan" => next.due = scan[s].due /\ next.named = scan[s].named)
        BY <3>3, <3>8, <2>a
      <4>2. \A t \in owed : Key(s) = <<t[2], t[3]>> /\ t[1] \in scan[s].left => t \in told'
        BY <3>6, <3>8
      <4> QED
        BY <4>1, <4>2, <3>1, <3>2, <3>3, <3>4, <3>a, ReminderRests
    <3>9. CASE scan[s].left # {u}
      <4>1. /\ next.op = "tell" /\ next.due = scan[s].due /\ next.n = scan[s].n
            /\ next.named = scan[s].named /\ next.left = scan[s].left \ {u}
        BY <3>3, <3>9, <2>b
      <4>2. Key(s) = KeyOf(next)
        BY <4>1 DEF Key, KeyOf
      <4>3. \A v \in Heard(next) : NoticeOf(v, next) \in told' => Key(s) \in contended'
        <5>1. /\ Heard(next) = next.left
              /\ \A v \in next.left : NoticeOf(v, next) = Notice(v, s) /\ Notice(v, s) # Notice(u, s)
          BY <4>1, <4>2 DEF Notice, Key, NoticeOf, Heard
        <5> QED
          BY <5>1, <4>1, <3>1, <3>2 DEF ScanHolds
      <4>4. \A r \in Runs \ {s} : Works(r) /\ Key(r) = Key(s) => Key(s) \in contended'
        BY <3>1, <3>2 DEF ScanHolds
      <4>5. \A t \in owed : Key(s) = <<t[2], t[3]>> /\ t[1] \in scan[s].left => t \in told' \/ t[1] \in next.left
        BY <3>6, <4>1
      <4> QED
        BY <4>1, <4>2, <4>3, <4>4, <4>5, <3>1, <3>2, <3>3, <3>4, <3>a, ReminderGoes
    <3> QED
      BY <3>8, <3>9
  <2>4. ASSUME NEW s \in Runs, NEW n \in Ahead, Calendar!Remind(s, n) PROVE ReminderInv'
    <3> DEFINE d == scan[s].due
               today == Calendar!DueFor(scan[s].at, d, n)
               tags == {<<u, Calendar!DayOf(d), n>> : u \in Addressees}
               tells == today /\ ~Calendar!Already(d, n)
    <3>1. /\ scan[s].op = "plan" /\ UNCHANGED <<day, due, told, untold, doubled>>
          /\ owed' = owed \cup {t \in tags : today /\ t[1] \in scan[s].named /\ tags \cap told = {}}
          /\ contended' = contended \cup {<<Calendar!DayOf(d), n>> : r \in {q \in Runs : Calendar!IsAt(q, d, n)}}
      BY <2>4 DEF Calendar!Remind
    <3>2. PICK next : /\ next = IF tells THEN Calendar!Busy(scan[s], "read", n, scan[s].named)
                                ELSE Calendar!After(scan[s], n)
                      /\ scan' = [scan EXCEPT ![s] = next]
      BY <2>4 DEF Calendar!Remind, ReminderInv
    <3>3. ~Works(s) /\ d \in Int /\ scan[s].named \subseteq Addressees
      BY <3>1, <2>d DEF Works
    <3>4. PICK k : k = <<Calendar!DayOf(d), n>>
      OBVIOUS
    <3>5. ASSUME NEW r \in Runs \ {s}, Works(r), Key(r) = k PROVE k \in contended'
      <4>1. Calendar!IsAt(r, d, n)
        BY <3>4, <3>5 DEF Calendar!IsAt, Key, Works
      <4> QED
        BY <4>1, <3>1, <3>4
    <3>6. \A t \in owed' : t \in owed \/ (tells /\ \E u \in scan[s].named : t = <<u, k[1], k[2]>>)
      <4>1. \A u \in Addressees : <<u, Calendar!DayOf(d), n>> \in tags
        OBVIOUS
      <4>2. tags \cap told = {} => ~Calendar!Already(d, n)
        BY <4>1 DEF Calendar!Already
      <4>3. \A t \in tags : t = <<t[1], k[1], k[2]>>
        BY <3>4
      <4> SUFFICES ASSUME NEW t \in owed', t \notin owed
                   PROVE  tells /\ \E u \in scan[s].named : t = <<u, k[1], k[2]>>
        OBVIOUS
      <4> HIDE DEF tags, today
      <4>4. t \in tags /\ today /\ t[1] \in scan[s].named /\ tags \cap told = {}
        BY <3>1
      <4>5. t = <<t[1], k[1], k[2]>>
        BY <4>3, <4>4
      <4>6. tells
        BY <4>2, <4>4
      <4> QED
        BY <4>4, <4>5, <4>6
    <3>7. contended \subseteq contended'
      BY <3>1
    <3>b. OthersHold(s) /\ DoubledHold
      BY <3>1, <3>7, <2>e
    <3>8. CASE tells
      <4>1. /\ next.op = "read" /\ next.due = d /\ next.n = n
            /\ next.named = scan[s].named /\ next.left = scan[s].named
        BY <3>2, <3>8, <2>b
      <4>2. \A u \in Addressees : <<u, k[1], k[2]>> \notin told
        BY <3>8, <3>4 DEF Calendar!Already
      <4>3. k = KeyOf(next)
        BY <3>4, <4>1 DEF KeyOf
      <4>4. \A t \in owed' : t \in owed \/ \E u \in next.left : t = NoticeOf(u, next)
        BY <3>6, <4>1, <4>3 DEF NoticeOf
      <4>5. /\ next.due \in Int /\ next.named \subseteq Addressees /\ next.left \subseteq Addressees
            /\ next.op \in {"read", "tell"} /\ scan' = [scan EXCEPT ![s] = next]
        BY <3>2, <3>3, <4>1
      <4>6. /\ UNCHANGED <<day, due>>
            /\ told \subseteq told' /\ untold \subseteq untold' /\ contended \subseteq contended'
        BY <3>1
      <4>7. \A r \in Runs \ {s} : Works(r) /\ Key(r) = k => k \in contended'
        BY <3>5
      <4>8. \A u \in Heard(next) : NoticeOf(u, next) \in told' => k \in contended'
        BY <3>1, <4>1, <4>2, <4>3 DEF Heard, NoticeOf
      <4>9. \A t \in owed : Works(s) /\ Key(s) = <<t[2], t[3]>> /\ t[1] \in scan[s].left =>
                t \in told' \/ (k = <<t[2], t[3]>> /\ t[1] \in next.left)
        BY <3>3
      <4> HIDE DEF tells, d, tags, today
      <4> QED
        BY <4>3, <4>4, <4>5, <4>6, <4>7, <4>8, <4>9, <3>b, ReminderGoes
    <3>9. CASE ~tells
      <4>1. next.op \in {"idle", "plan"} /\ (next.op = "plan" => next.due = d /\ next.named = scan[s].named)
        BY <3>2, <3>9, <2>a
      <4>2. \A t \in owed' : t \in owed
        BY <3>6, <3>9
      <4> HIDE DEF tells, d
      <4> QED
        BY <4>1, <4>2, <3>1, <3>2, <3>3, <3>7, <3>b, ReminderRests DEF d
    <3> QED
      BY <3>8, <3>9
  <2>5. ASSUME NEW s \in Runs, NEW found \in SUBSET Addressees, Calendar!ReadHolders(s, found)
        PROVE  ReminderInv'
    <3> DEFINE all == scan[s].left \cup found
    <3>1. /\ scan[s].op = "read" /\ UNCHANGED <<day, due, told, untold, contended, doubled>>
          /\ owed' = owed \cup {<<u, Calendar!DayOf(scan[s].due), scan[s].n>> : u \in found}
      BY <2>5 DEF Calendar!ReadHolders
    <3>2. PICK next : /\ next = IF all = {} THEN Calendar!After(scan[s], scan[s].n)
                                ELSE Calendar!Busy(scan[s], "tell", scan[s].n, all)
                      /\ scan' = [scan EXCEPT ![s] = next]
      BY <2>5 DEF Calendar!ReadHolders, ReminderInv
    <3>3. /\ scan[s].due \in Int /\ scan[s].named \subseteq Addressees /\ all \subseteq Addressees
          /\ ScanHolds(s) /\ Works(s) /\ Awaiting(s) = Addressees
      BY <3>1, <2>d DEF ReminderInv, Works, Awaiting
    <3>4. \A t \in owed' : t \in owed \/ \E u \in found : t = <<u, Key(s)[1], Key(s)[2]>>
      BY <3>1 DEF Key
    <3>c. OthersHold(s) /\ DoubledHold
      BY <3>1, <2>e
    <3>5. CASE all = {}
      <4>1. next.op \in {"idle", "plan"} /\ (next.op = "plan" => next.due = scan[s].due /\ next.named = scan[s].named)
        BY <3>2, <3>5, <2>a
      <4>2. (\A t \in owed' : t \in owed) /\ scan[s].left = {}
        BY <3>4, <3>5
      <4> HIDE DEF all
      <4> QED
        BY <4>1, <4>2, <3>1, <3>2, <3>3, <3>c, ReminderRests
    <3>6. CASE all # {}
      <4>1. /\ next.op = "tell" /\ next.due = scan[s].due /\ next.n = scan[s].n
            /\ next.named = scan[s].named /\ next.left = all
        BY <3>2, <3>6, <2>b
      <4>2. Key(s) = KeyOf(next)
        BY <4>1 DEF Key, KeyOf
      <4>3. \A v \in Heard(next) : NoticeOf(v, next) \in told' => Key(s) \in contended'
        <5>1. Heard(next) = next.left /\ \A v : NoticeOf(v, next) = Notice(v, s)
          BY <4>1, <4>2 DEF Notice, Key, NoticeOf, Heard
        <5> QED
          BY <5>1, <4>1, <3>1, <3>3 DEF ScanHolds
      <4>4. \A r \in Runs \ {s} : Works(r) /\ Key(r) = Key(s) => Key(s) \in contended'
        BY <3>1, <3>3 DEF ScanHolds
      <4>5. scan[s].left \subseteq next.left /\ found \subseteq next.left
        BY <4>1
      <4>6. \A t \in owed' : t \in owed \/ \E u \in next.left : t = NoticeOf(u, next)
        BY <3>4, <4>1, <4>2, <4>5 DEF NoticeOf
      <4> HIDE DEF all
      <4> QED
        BY <4>1, <4>2, <4>3, <4>4, <4>5, <4>6, <3>1, <3>2, <3>3, <3>c, ReminderGoes
    <3> QED
      BY <3>5, <3>6
  <2>6. CASE /\ UNCHANGED <<told, scan, owed, untold, contended, doubled>>
             /\ day' \in Int /\ due' \in Int
    BY <2>6 DEF ReminderInv, RunTypes, ScanHolds, OwedHolds, Notice, Key, Works, Awaiting
  <2>7. ASSUME NEW x \in Dues, Calendar!MoveDue(x) PROVE ReminderInv'
    BY <2>6, <2>7 DEF Calendar!MoveDue, DatesAreNumbers, ReminderInv
  <2>8. ASSUME Calendar!NextDay PROVE ReminderInv'
    BY <2>6, <2>8 DEF Calendar!NextDay, ReminderInv
  <2>9. CASE UNCHANGED Calendar!reminderVars
    BY <2>6, <2>9 DEF Calendar!reminderVars, ReminderInv
  <2>10. ASSUME Calendar!ReminderNext PROVE ReminderInv'
    BY <2>1, <2>2, <2>3, <2>4, <2>5, <2>7, <2>8, <2>10 DEF Calendar!ReminderNext
  <2> QED
    BY <1>2, <2>9, <2>10 DEF Calendar!Next, Calendar!vars
<1>3. ReminderInv => Calendar!RemindersReachAll
  <2> SUFFICES ASSUME ReminderInv PROVE Calendar!RemindersReachAll
    OBVIOUS
  <2>1. ASSUME NEW t \in owed
        PROVE  \/ t \in told
               \/ <<t[2], t[3]>> \in untold
               \/ \E s \in Runs : Calendar!IsAt(s, 2 * t[2], t[3]) /\ t[1] \in scan[s].left
    <3>1. OwedHolds(t)
      BY DEF ReminderInv
    <3>2. t[2] \in Int /\ Calendar!DayOf(2 * t[2]) = t[2]
      BY <3>1 DEF OwedHolds, Calendar!DayOf
    <3>3. \A s \in Runs : Works(s) /\ Key(s) = <<t[2], t[3]>> => Calendar!IsAt(s, 2 * t[2], t[3])
      BY <3>2 DEF Calendar!IsAt, Key, Works
    <3> QED
      BY <3>1, <3>3 DEF OwedHolds
  <2>2. {<<t[2], t[3]>> : t \in doubled} \subseteq contended
    BY DEF ReminderInv
  <2> QED
    BY <2>1, <2>2 DEF Calendar!RemindersReachAll
<1> QED
  BY <1>1, <1>2, <1>3

\* sla-reminder.worker.ts:31-79: for any number of runs that overlap or are cut short, whoever the
\* plan named when a run read it, and whoever held its role when the run got to the reminder, is
\* told, unless a run was cut, and nobody twice unless two runs were at it.
THEOREM RemindersCorrect ==
    ASSUME DatesAreNumbers
    PROVE  Calendar!Spec => []Calendar!RemindersReachAll
BY RemindersInductive, PTL DEF Calendar!Spec, Calendar!Init
-----------------------------------------------------------------------------
(* PpmCalendar: the date an item is due *)

LEMMA Division ==
    ASSUME NEW x \in Int, NEW n \in Nat \ {0}
    PROVE  /\ x \div n \in Int /\ x % n \in 0 .. n - 1
           /\ x = n * (x \div n) + (x % n)
  OBVIOUS

\* A remainder is the one number of its range that is a multiple away.
LEMMA Remainder ==
    ASSUME NEW x \in Int, NEW n \in Nat \ {0}, NEW q \in Int, NEW r \in 0 .. n - 1, x = n * q + r
    PROVE  x % n = r
  OBVIOUS

\* The remainder of a product
LEMMA DatePlaces ==
    ASSUME NEW x \in Int, NEW m \in Nat \ {0}, NEW n \in Nat \ {0}
    PROVE  /\ m * n \in Nat \ {0}
           /\ x % (m * n) = n * ((x \div n) % m) + (x % n)
<1>a. PICK q \in Int : q = x \div n
  BY Division
<1>b. PICK p \in Int : p = q \div m
  BY Division
<1>c. PICK r \in 0 .. n - 1 : r = x % n
  BY Division
<1>d. PICK s \in 0 .. m - 1 : s = q % m
  BY Division
<1>1. x = n * q + r /\ q = m * p + s
  BY <1>a, <1>b, <1>c, <1>d, Division
<1>2. n * q = n * (m * p) + n * s
  BY <1>1
<1>3. n * (m * p) = (m * n) * p
  OBVIOUS
<1>4. x = (m * n) * p + (n * s + r)
  BY <1>1, <1>2, <1>3
<1>5. n * s <= n * (m - 1)
  OBVIOUS
<1>6. n * (m - 1) = m * n - n
  OBVIOUS
<1>7. n * s >= 0
  OBVIOUS
<1>8. n * s + r \in 0 .. (m * n) - 1
  BY <1>5, <1>6, <1>7
<1>9. m * n \in Nat \ {0}
  OBVIOUS
<1>10. PICK y \in Nat \ {0} : y = m * n
  BY <1>9
<1>11. PICK t \in 0 .. y - 1 : t = n * s + r
  BY <1>8, <1>10
<1>12. x % y = t
  BY <1>4, <1>10, <1>11, Remainder
<1> QED
  BY <1>12, <1>11, <1>10, <1>9, <1>a, <1>c, <1>d

\* How far it is from one place of a round to another
LEMMA Distance ==
    ASSUME NEW a \in Int, NEW b \in Int, NEW y \in Nat \ {0}
    PROVE  (a - b) % y = IF a % y >= b % y THEN (a % y) - (b % y) ELSE (a % y) - (b % y) + y
<1>a. PICK p \in Int : p = a \div y
  BY Division
<1>b. PICK q \in Int : q = b \div y
  BY Division
<1>c. PICK r \in 0 .. y - 1 : r = a % y
  BY Division
<1>d. PICK s \in 0 .. y - 1 : s = b % y
  BY Division
<1>1. a = y * p + r /\ b = y * q + s
  BY <1>a, <1>b, <1>c, <1>d, Division
<1>2. y * (p - q) = y * p - y * q /\ y * (p - q - 1) = y * p - y * q - y
  OBVIOUS
<1>3. CASE r >= s
  <2>1. a - b = y * (p - q) + (r - s) /\ r - s \in 0 .. y - 1 /\ p - q \in Int /\ a - b \in Int
    BY <1>1, <1>2, <1>3
  <2>2. (a - b) % y = r - s
    BY <2>1, Remainder
  <2> QED
    BY <2>2, <1>3, <1>c, <1>d
<1>4. CASE r < s
  <2>1. a - b = y * (p - q - 1) + (r - s + y) /\ r - s + y \in 0 .. y - 1 /\ p - q - 1 \in Int /\ a - b \in Int
    BY <1>1, <1>2, <1>4
  <2>2. (a - b) % y = r - s + y
    BY <2>1, Remainder
  <2> QED
    BY <2>2, <1>4, <1>c, <1>d
<1> QED
  BY <1>3, <1>4

\* Dates of a year in order: by month, then by day
LEMMA ByMonth ==
    ASSUME NEW n \in Nat \ {0}, NEW k \in Int, NEW m \in Int, NEW a \in 0 .. n - 1, NEW b \in 0 .. n - 1
    PROVE  n * k + a <= n * m + b <=> k < m \/ (k = m /\ a <= b)
<1>1. CASE k < m
  <2>1. n * k + n <= n * m
    <3>1. n * (m - k) >= n
      BY <1>1
    <3>2. n * (m - k) = n * m - n * k
      OBVIOUS
    <3> QED
      BY <3>1, <3>2
  <2> QED
    BY <2>1, <1>1
<1>2. CASE k > m
  <2>1. n * m + n <= n * k
    <3>1. n * (k - m) >= n
      BY <1>2
    <3>2. n * (k - m) = n * k - n * m
      OBVIOUS
    <3> QED
      BY <3>1, <3>2
  <2> QED
    BY <2>1, <1>2
<1>3. CASE k = m
  BY <1>3
<1> QED
  BY <1>1, <1>2, <1>3

\* An annual rule blocks the days its range covers, and no others, unless it is nearly a year long.
LEMMA AnnualCovers ==
    ASSUME DatesAreDates, NEW r \in Blackouts, NEW d \in Int
    PROVE  /\ Calendar!AnnualHit(d, r) => Calendar!Covers(r.first, r.last, d)
           /\ Calendar!Covers(r.first, r.last, d) => Calendar!AnnualHit(d, r) \/ Calendar!EndsBeforeItBegan(r)
<1>a. DaysPerMonth \in Nat \ {0} /\ Months \in Nat \ {0} /\ r.first \in Int /\ r.last \in Int
  BY DEF DatesAreDates
<1>b. PICK year : year = Months * DaysPerMonth
  OBVIOUS
<1>c. year \in Nat \ {0}
  BY <1>a, <1>b, DatePlaces
<1> DEFINE at(x) == DaysPerMonth * Calendar!MonthOf(x) + Calendar!Dom(x)
<1>1. ASSUME NEW x \in Int
      PROVE  /\ Calendar!MonthOf(x) \in Int /\ Calendar!Dom(x) \in 0 .. DaysPerMonth - 1
             /\ x % year = at(x) /\ x % year \in 0 .. year - 1
  <2>1. x \div DaysPerMonth \in Int /\ Calendar!Dom(x) \in 0 .. DaysPerMonth - 1
    BY <1>a, Division DEF Calendar!Dom
  <2>2. Calendar!MonthOf(x) \in 0 .. Months - 1
    BY <1>a, <2>1, Division DEF Calendar!MonthOf
  <2>3. x % year = at(x)
    BY <1>a, <1>b, DatePlaces DEF Calendar!MonthOf, Calendar!Dom
  <2>4. x % year \in 0 .. year - 1
    BY <1>c, Division
  <2> QED
    BY <1>a, <2>1, <2>2, <2>3, <2>4
<1>2. ASSUME NEW x \in Int, NEW z \in Int
      PROVE  x % year <= z % year <=>
                 \/ Calendar!MonthOf(x) < Calendar!MonthOf(z)
                 \/ Calendar!MonthOf(x) = Calendar!MonthOf(z) /\ Calendar!Dom(x) <= Calendar!Dom(z)
  <2>1. at(x) <= at(z) <=>
            \/ Calendar!MonthOf(x) < Calendar!MonthOf(z)
            \/ Calendar!MonthOf(x) = Calendar!MonthOf(z) /\ Calendar!Dom(x) <= Calendar!Dom(z)
    <3> HIDE DEF at
    <3>1. PICK k \in Int : k = Calendar!MonthOf(x)
      BY <1>1
    <3>2. PICK m \in Int : m = Calendar!MonthOf(z)
      BY <1>1
    <3>3. PICK a \in 0 .. DaysPerMonth - 1 : a = Calendar!Dom(x)
      BY <1>1
    <3>4. PICK b \in 0 .. DaysPerMonth - 1 : b = Calendar!Dom(z)
      BY <1>1
    <3>5. DaysPerMonth * k + a <= DaysPerMonth * m + b <=> k < m \/ (k = m /\ a <= b)
      BY <1>a, ByMonth
    <3> QED
      BY <3>1, <3>2, <3>3, <3>4, <3>5 DEF at
  <2> HIDE DEF at
  <2> QED
    BY <2>1, <1>1
<1>3. Calendar!Covers(r.first, r.last, d) <=>
          (d - r.first) % year <= (r.last - r.first) % year
  BY <1>b DEF Calendar!Covers
<1>d. PICK f \in 0 .. year - 1 : f = r.first % year
  BY <1>a, <1>1
<1>e. PICK l \in 0 .. year - 1 : l = r.last % year
  BY <1>a, <1>1
<1>f. PICK p \in 0 .. year - 1 : p = d % year
  BY <1>1
<1>4. (d - r.first) % year = IF p >= f THEN p - f ELSE p - f + year
  BY <1>a, <1>c, <1>d, <1>f, Distance
<1>5. (r.last - r.first) % year = IF l >= f THEN l - f ELSE l - f + year
  BY <1>a, <1>c, <1>d, <1>e, Distance
<1>6. Calendar!Covers(r.first, r.last, d) <=> IF f <= l THEN f <= p /\ p <= l ELSE f <= p \/ p <= l
  BY <1>3, <1>4, <1>5, <1>c
<1>g. PICK mf, ml, md \in Int : mf = Calendar!MonthOf(r.first) /\ ml = Calendar!MonthOf(r.last) /\ md = Calendar!MonthOf(d)
  BY <1>a, <1>1
<1>i. \A x \in Int : Calendar!Dom(x) \in Int
  BY <1>a, <1>1
<1>h. PICK df, dl, dd \in Int : df = Calendar!Dom(r.first) /\ dl = Calendar!Dom(r.last) /\ dd = Calendar!Dom(d)
  BY <1>a, <1>i
<1>7. /\ f <= l <=> mf < ml \/ (mf = ml /\ df <= dl)
      /\ f <= p <=> mf < md \/ (mf = md /\ df <= dd)
      /\ p <= l <=> md < ml \/ (md = ml /\ dd <= dl)
  BY <1>a, <1>2, <1>d, <1>e, <1>f, <1>g, <1>h
<1>8. Calendar!AnnualHit(d, r) <=>
          IF mf = ml THEN md = mf /\ dd \in df .. dl
          ELSE IF md = mf THEN dd >= df
          ELSE IF md = ml THEN dd <= dl
          ELSE (md > mf /\ md < ml) \/ (mf > ml /\ (md > mf \/ md < ml))
  BY <1>g, <1>h DEF Calendar!AnnualHit
<1>9. Calendar!EndsBeforeItBegan(r) <=> mf = ml /\ dl < df
  BY <1>g, <1>h DEF Calendar!EndsBeforeItBegan
<1> QED
  BY <1>6, <1>7, <1>8, <1>9, <1>g, <1>h

\* Naturals have a least.
LEMMA HasLeast ==
    ASSUME NEW S \in SUBSET Nat, S # {}
    PROVE  \E o \in S : \A p \in S : o <= p
<1>1. IsWellFoundedOn(OpToRel(<, Nat), Nat)
  BY NatLessThanWellFounded
<1>2. PICK o \in S : \A p \in S : ~(<<p, o>> \in OpToRel(<, Nat))
  BY <1>1, WFMin
<1>3. \A p \in S : ~(p < o)
  BY <1>2 DEF OpToRel
<1> QED
  BY <1>3

\* What a rule says of a date
Single(r) == r.weekday = -1 /\ ~r.annual
After(r, x) == Single(r) /\ Calendar!DayOf(x) = r.last /\ x > 2 * r.last
Nearly(r) == r.weekday = -1 /\ r.annual /\ Calendar!EndsBeforeItBegan(r)

\* A date in the range of a rule is on a day the rule names; a date on such a day is in the range, but for
\* the hours of the last day and a range of nearly a year.
LEMMA RangesName ==
    ASSUME DatesAreDates, NEW r \in Blackouts, NEW x \in Int
    PROVE  /\ Calendar!IsInRange(x, r) => Calendar!Names(r, x)
           /\ Calendar!Names(r, x) => Calendar!IsInRange(x, r) \/ After(r, x) \/ Nearly(r)
<1>a. PICK d \in Int : d = Calendar!DayOf(x)
  BY DEF Calendar!DayOf
<1>b. r.weekday \in Int /\ r.first \in Int /\ r.last \in Int /\ r.annual \in BOOLEAN
  BY DEF DatesAreDates
<1>1. x = 2 * d \/ x = 2 * d + 1
  BY <1>a DEF Calendar!DayOf
<1>2. CASE r.weekday # -1
  BY <1>2 DEF Calendar!IsInRange, Calendar!Names
<1>3. CASE r.weekday = -1 /\ r.annual
  BY <1>3, <1>a, AnnualCovers DEF Calendar!IsInRange, Calendar!Names, Nearly
<1>4. CASE r.weekday = -1 /\ ~r.annual
  BY <1>4, <1>a, <1>b, <1>1 DEF Calendar!IsInRange, Calendar!Names, After, Single
<1> QED
  BY <1>b, <1>2, <1>3, <1>4

Hits(rules, z) == {r \in rules : Calendar!IsInRange(z, r)}

Landed(rules, x, new) ==
    \/ new = x + 2 * MaxRoll /\ \A i \in 0 .. MaxRoll - 1 : Hits(rules, x + 2 * i) # {}
    \/ \E n \in 0 .. MaxRoll - 1 :
           /\ new = x + 2 * n /\ Hits(rules, x + 2 * n) = {}
           /\ \A i \in 0 .. MaxRoll - 1 : i < n => Hits(rules, x + 2 * i) # {}
    \/ new = x /\ \E i \in 0 .. MaxRoll - 1 : \E r \in Hits(rules, x + 2 * i) : r.policy = "skip"

\* What the engine gives back: the date it was given if some date of its tries is in the range of a rule
\* that skips; else the first date in no range, or the one after all tries.
LEMMA Applied ==
    ASSUME MaxRoll \in Nat, NEW rules, NEW order \in [rules -> Nat], NEW x \in Int,
           NEW new, new = Calendar!ApplyBlackouts(x, rules, order)
    PROVE  Landed(rules, x, new)
<1> DEFINE hits(i) == Hits(rules, x + 2 * i)
           hit(i) == CHOOSE r \in hits(i) : \A q \in hits(i) : order[r] <= order[q]
           stops == {i \in 0 .. MaxRoll - 1 : hits(i) = {} \/ hit(i).policy = "skip"}
<1>1. new = IF stops = {} THEN x + 2 * MaxRoll
            ELSE IF hits(Calendar!Min(stops)) = {} THEN x + 2 * Calendar!Min(stops)
            ELSE x
  BY DEF Calendar!ApplyBlackouts, Hits
<1>2. ASSUME NEW i \in 0 .. MaxRoll - 1, hits(i) # {} PROVE hit(i) \in hits(i)
  <2> DEFINE places == {order[r] : r \in hits(i)}
  <2>1. places \in SUBSET Nat /\ places # {}
    BY <1>2 DEF Hits
  <2>2. PICK o \in places : \A p \in places : o <= p
    BY <2>1, HasLeast
  <2>3. \E r \in hits(i) : \A q \in hits(i) : order[r] <= order[q]
    BY <2>2
  <2> QED
    BY <2>3
<1> HIDE DEF hits, hit
<1>3. CASE stops = {}
  <2>1. new = x + 2 * MaxRoll
    BY <1>1, <1>3
  <2>2. \A i \in 0 .. MaxRoll - 1 : hits(i) # {}
    BY <1>3
  <2> QED
    BY <2>1, <2>2 DEF hits, Landed
<1>4. CASE stops # {}
  <2>1. stops \in SUBSET Nat
    OBVIOUS
  <2>2. PICK n \in stops : \A p \in stops : n <= p
    BY <2>1, <1>4, HasLeast
  <2>3. Calendar!Min(stops) \in stops /\ \A p \in stops : Calendar!Min(stops) <= p
    BY <2>2 DEF Calendar!Min
  <2>4. PICK m : m = Calendar!Min(stops)
    OBVIOUS
  <2>5. m \in 0 .. MaxRoll - 1 /\ (hits(m) = {} \/ hit(m).policy = "skip")
    BY <2>3, <2>4
  <2>6. ASSUME NEW i \in 0 .. MaxRoll - 1, i < m PROVE hits(i) # {}
    BY <2>3, <2>4, <2>5, <2>6
  <2>7. CASE hits(m) = {}
    <3>1. new = x + 2 * m
      BY <1>1, <1>4, <2>4, <2>7
    <3> QED
      BY <3>1, <2>5, <2>6, <2>7 DEF hits, Landed
  <2>8. CASE hits(m) # {}
    <3>1. new = x
      BY <1>1, <1>4, <2>4, <2>8
    <3>2. hit(m) \in hits(m) /\ hit(m).policy = "skip"
      BY <1>2, <2>5, <2>8
    <3> QED
      BY <3>1, <3>2, <2>5 DEF hits, Landed
  <2> QED
    BY <2>7, <2>8
<1> QED
  BY <1>3, <1>4 DEF Landed

LEMMA CardinalityOfCalendar == \A S : Calendar!Cardinality(S) = Cardinality(S)
BY DEF Calendar!Cardinality, Cardinality

DateTypes == item \in [due : Int, from : Int, rules : SUBSET Blackouts, parses : BOOLEAN]

DateInv == clock \in Int /\ DateTypes /\ Calendar!DueIsWorkable

\* Whatever rules are applied in whatever order, the date moved to is as it should be.
LEMMA Moved ==
    ASSUME DatesAreDates, DateTypes, NEW x \in Int, NEW rules \in SUBSET Blackouts, Calendar!MoveTo(x, rules)
    PROVE  DateTypes' /\ Calendar!DueIsWorkable'
<1>a. PICK loaded : loaded = Calendar!LoadBlackouts(rules)
  OBVIOUS
<1>b. loaded \in SUBSET Blackouts /\ loaded \in SUBSET rules
  BY <1>a DEF Calendar!LoadBlackouts
<1>c. MaxRoll \in Nat
  BY DEF DatesAreDates
<1>d. PICK order : /\ order \in Calendar!Orders(loaded)
                   /\ item' = Calendar!MovedFrom(x, rules, order)
  BY <1>a DEF Calendar!MoveTo
<1>e. order \in [loaded -> Nat]
  <2>1. Cardinality(loaded) \in Nat
    <3>1. IsFiniteSet(Blackouts)
      BY DEF DatesAreDates
    <3>2. IsFiniteSet(loaded)
      BY <1>b, <3>1, FS_Subset
    <3> QED
      BY <3>2, FS_CardinalityType
  <2>2. order \in [loaded -> 1 .. Cardinality(loaded)]
    BY <1>d, CardinalityOfCalendar DEF Calendar!Orders
  <2> QED
    BY <2>1, <2>2
<1>f. PICK from \in Int : from = Calendar!NextDueFrom(item.parses, x)
  BY DEF Calendar!NextDueFrom, DatesAreDates
<1>g. PICK new : new = Calendar!ApplyBlackouts(from, loaded, order)
  OBVIOUS
<1>1. item' = [item EXCEPT !.from = from, !.rules = rules, !.due = new]
  BY <1>a, <1>d, <1>f, <1>g DEF Calendar!MovedFrom
<1>2. item'.from = from /\ item'.rules = rules /\ item'.due = new
  BY <1>1 DEF DateTypes
<1> DEFINE hits(i) == Hits(loaded, from + 2 * i)
           blocked(z) == \E r \in loaded : Calendar!Names(r, z)
           tries == {from + 2 * i : i \in 0 .. MaxRoll - 1}
<1>3. \/ new = from + 2 * MaxRoll /\ \A i \in 0 .. MaxRoll - 1 : hits(i) # {}
      \/ \E n \in 0 .. MaxRoll - 1 :
             new = from + 2 * n /\ hits(n) = {} /\ \A i \in 0 .. MaxRoll - 1 : i < n => hits(i) # {}
      \/ new = from /\ \E i \in 0 .. MaxRoll - 1 : \E r \in hits(i) : r.policy = "skip"
  <2>1. Landed(loaded, from, new)
    BY <1>c, <1>e, <1>f, <1>g, Applied
  <2> QED
    BY <2>1 DEF Landed
<1>4. new \in Int
  BY <1>3, <1>c
<1>5. ASSUME NEW i \in 0 .. MaxRoll - 1, hits(i) # {} PROVE blocked(from + 2 * i)
  <2>1. from + 2 * i \in Int
    BY <1>c
  <2> QED
    BY <1>5, <2>1, <1>b, RangesName DEF Hits
<1>6. \/ ~blocked(new) /\ \A z \in tries : z < new => blocked(z)
      \/ new = from /\ \E z \in tries : \E r \in loaded : r.policy = "skip" /\ Calendar!Names(r, z)
      \/ new = from + 2 * MaxRoll /\ \A z \in tries : blocked(z)
      \/ \E r \in loaded : After(r, new)
      \/ \E r \in loaded : Nearly(r) /\ Calendar!Names(r, new)
  <2>1. CASE new = from + 2 * MaxRoll /\ \A i \in 0 .. MaxRoll - 1 : hits(i) # {}
    <3>1. \A z \in tries : blocked(z)
      <4> HIDE DEF blocked, hits
      <4> QED
        BY <2>1, <1>5
    <3> QED
      BY <2>1, <3>1
  <2>2. ASSUME NEW n \in 0 .. MaxRoll - 1, new = from + 2 * n, hits(n) = {},
               \A i \in 0 .. MaxRoll - 1 : i < n => hits(i) # {}
        PROVE  \/ ~blocked(new) /\ \A z \in tries : z < new => blocked(z)
               \/ \E r \in loaded : After(r, new)
               \/ \E r \in loaded : Nearly(r) /\ Calendar!Names(r, new)
    <3>1. \A z \in tries : z < new => blocked(z)
      <4>1. \A i \in 0 .. MaxRoll - 1 : i < n => blocked(from + 2 * i)
        BY <1>5, <2>2
      <4>2. \A i \in 0 .. MaxRoll - 1 : from + 2 * i < new => i < n
        BY <1>c, <2>2
      <4> HIDE DEF blocked
      <4> QED
        BY <4>1, <4>2
    <3>2. ASSUME NEW r \in loaded, Calendar!Names(r, new) PROVE After(r, new) \/ Nearly(r)
      <4>1. ~Calendar!IsInRange(new, r)
        BY <2>2 DEF Hits
      <4> QED
        BY <1>4, <1>b, <3>2, <4>1, RangesName
    <3> QED
      BY <3>1, <3>2
  <2>3. ASSUME NEW i \in 0 .. MaxRoll - 1, NEW r \in hits(i), r.policy = "skip", new = from
        PROVE  new = from /\ \E z \in tries : \E q \in loaded : q.policy = "skip" /\ Calendar!Names(q, z)
    <3>1. from + 2 * i \in tries /\ from + 2 * i \in Int
      BY <1>c
    <3>2. r \in loaded /\ r \in Blackouts /\ Calendar!Names(r, from + 2 * i)
      BY <1>b, <3>1, RangesName DEF Hits
    <3> QED
      BY <2>3, <3>1, <3>2
  <2> HIDE DEF blocked, hits, tries
  <2> QED
    BY <1>3, <2>1, <2>2, <2>3 DEF hits
<1>7. DateTypes'
  BY <1>1, <1>4 DEF DateTypes
<1>8. Calendar!DueIsWorkable'
  BY <1>a, <1>2, <1>6 DEF Calendar!DueIsWorkable, After, Single, Nearly
<1> QED
  BY <1>7, <1>8

\* The invariant holds at first, every step keeps it, and it has what is to hold in it.
LEMMA DateInductive ==
    ASSUME DatesAreDates
    PROVE  /\ Calendar!DateInit => DateInv
           /\ DateInv /\ [Calendar!Next]_(Calendar!vars) => DateInv'
           /\ DateInv => Calendar!DueIsWorkable
<1>1. Calendar!DateInit => DateInv
  BY DEF Calendar!DateInit, Calendar!NoItem, DateInv, DateTypes, Calendar!DueIsWorkable
<1>2. ASSUME DateInv, [Calendar!Next]_(Calendar!vars) PROVE DateInv'
  <2> USE <1>2
  <2>a. LastInstant \in Nat
    BY DEF DatesAreDates
  <2>0. item'.from = -1 => Calendar!DueIsWorkable'
    BY DEF Calendar!DueIsWorkable
  <2>1. ASSUME NEW parses \in BOOLEAN, NEW start \in 0 .. LastInstant, Calendar!CreateProgram(parses, start)
        PROVE  DateInv'
    <3>1. UNCHANGED clock /\ item' = [due |-> start, from |-> -1, rules |-> {}, parses |-> parses]
      BY <2>1 DEF Calendar!CreateProgram, Calendar!NoItem
    <3> QED
      BY <2>a, <2>0, <3>1 DEF DateInv, DateTypes
  <2>2. ASSUME NEW x \in 0 .. LastInstant, NEW rules \in SUBSET {r \in Blackouts : Calendar!Creatable(r)},
               Calendar!RecordBaselineSet(x, rules) \/ Calendar!RecordCompletion(x, rules)
        PROVE  DateInv'
    <3>1. UNCHANGED clock /\ Calendar!MoveTo(x, rules) /\ x \in Int /\ rules \in SUBSET Blackouts
      BY <2>2, <2>a DEF Calendar!RecordBaselineSet, Calendar!RecordCompletion
    <3>2. DateTypes
      BY DEF DateInv
    <3>3. DateTypes' /\ Calendar!DueIsWorkable'
      BY <3>1, <3>2, Moved
    <3> QED
      BY <3>1, <3>3 DEF DateInv
  <2>3. CASE Calendar!RecordBaselineUnknown
    <3>1. item' = [item EXCEPT !.due = clock, !.from = -1, !.rules = {}] /\ UNCHANGED clock
      BY <2>3 DEF Calendar!RecordBaselineUnknown
    <3>2. item'.from = -1
      BY <3>1 DEF DateInv, DateTypes
    <3>3. DateTypes'
      <4>1. item' = [due |-> clock, from |-> -1, rules |-> {}, parses |-> item.parses]
        BY <3>1 DEF DateInv, DateTypes
      <4>2. clock \in Int /\ item.parses \in BOOLEAN
        BY DEF DateInv, DateTypes
      <4> QED
        BY <4>1, <4>2 DEF DateTypes
    <3>4. clock' \in Int
      BY <3>1 DEF DateInv
    <3> QED
      BY <2>0, <3>2, <3>3, <3>4 DEF DateInv
  <2>4. ASSUME UNCHANGED item, clock' \in Int PROVE DateInv'
    BY <2>4 DEF DateInv, DateTypes, Calendar!DueIsWorkable
  <2>5. CASE UNCHANGED Calendar!dateVars \/ Calendar!Tick
    BY <2>4, <2>5 DEF Calendar!Tick, Calendar!dateVars, DateInv
  <2> QED
    BY <2>1, <2>2, <2>3, <2>5 DEF Calendar!Next, Calendar!DateNext, Calendar!vars
<1> QED
  BY <1>1, <1>2 DEF DateInv

\* blackout.ts:25-73, ppm.service.ts:937-941 and :1161-1165: for any rules, in whatever order they are
\* loaded, and any calendar, a date that was computed is the first no rule names, but for a rule that skips,
\* tries that ran out, the last day of a single range and an annual range that ends in the month it began.
THEOREM DatesCorrect ==
    ASSUME DatesAreDates
    PROVE  Calendar!Spec => []Calendar!DueIsWorkable
BY DateInductive, PTL DEF Calendar!Spec, Calendar!Init
-----------------------------------------------------------------------------
(* The estate: the parts together *)

\* A step of the estate is one of the part in focus, or leaves that part alone.
LEMMA EstateSteps ==
    ASSUME [MCNext]_estateVars
    PROVE  /\ focus' = focus
           /\ focus = "programme" => [Programme!Next]_(Programme!vars)
           /\ focus = "applicability" => [Programme!Next]_(Programme!vars)
           /\ focus = "calendar" => [Calendar!Next]_(Calendar!vars)
           /\ focus = "reminders" => [Calendar!Next]_(Calendar!vars)
<1>1. CASE UNCHANGED estateVars
  BY <1>1 DEF estateVars, programmeVars, applyingVars, calendarVars, reminderVars, Programme!vars,
         Programme!planVars, Programme!programmeVars, Programme!obligationVars, Calendar!vars, Calendar!dateVars, Calendar!reminderVars
<1>2. CASE MCNext
  <2>1. focus' = focus
    BY <1>2 DEF MCNext
  <2>2. focus = "programme" => Programme!Next
    <3>1. focus = "programme" => Programme!ProgrammeNext /\ UNCHANGED applyingVars
      BY <1>2 DEF MCNext
    <3> QED
      BY <3>1 DEF applyingVars, Programme!obligationVars, Programme!Next
  <2>3. focus = "applicability" => Programme!Next
    <3>1. focus = "applicability" => Programme!ObligationNext /\ UNCHANGED programmeVars
      BY <1>2 DEF MCNext
    <3> QED
      BY <3>1 DEF programmeVars, Programme!programmeVars, Programme!planVars, Programme!Next
  <2>4. focus = "calendar" => Calendar!Next
    <3>1. focus = "calendar" => Calendar!DateNext /\ UNCHANGED reminderVars
      BY <1>2 DEF MCNext
    <3> QED
      BY <3>1 DEF reminderVars, Calendar!reminderVars, Calendar!Next
  <2>5. focus = "reminders" => Calendar!Next
    <3>1. focus = "reminders" => Calendar!ReminderNext /\ UNCHANGED calendarVars
      BY <1>2 DEF MCNext
    <3> QED
      BY <3>1 DEF calendarVars, Calendar!dateVars, Calendar!Next
  <2> QED
    BY <2>1, <2>2, <2>3, <2>4, <2>5
<1> QED
  BY <1>1, <1>2

\* ppm.service.ts:529-585 and :1568-1596, applicability.service.ts:50-89, blackout.ts:64-73,
\* sla-reminder.worker.ts:50-79, in the estate: for any templates, obligations, rules, users and calls that
\* overlap, a template has an item, what applies has its row, a date is workable and those are
\* reminded whom a plan named at the start of a scan or who held its roles at its turn, but for the
\* calls, marks and rules excused.
THEOREM EstateProgramme == MCSpec => []ProgrammeHolds
<1> DEFINE Inv ==
             /\ focus = "programme" => ProgrammeInv
             /\ focus = "applicability" => ObligationInv
             /\ focus = "calendar" => DateInv
             /\ focus = "reminders" => ReminderInv
<1>a. RowsHaveNames /\ -1 \in Storeys /\ DatesAreNumbers /\ DatesAreDates
  BY EstateAssumption
<1>1. MCInit => Inv
  BY <1>a, ItemsInductive, ObligationsInductive, DateInductive, RemindersInductive DEF MCInit
<1>2. Inv /\ [MCNext]_estateVars => Inv'
  BY <1>a, ItemsInductive, ObligationsInductive, DateInductive, RemindersInductive, EstateSteps
<1>3. Inv => ProgrammeHolds
  BY <1>a, ItemsInductive, ObligationsInductive, DateInductive, RemindersInductive DEF ProgrammeHolds
<1> QED
  BY <1>1, <1>2, <1>3, PTL DEF MCSpec
=============================================================================
