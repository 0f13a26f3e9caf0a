------------------------ MODULE Procurement_proofs ------------------------
(***************************************************************************)
(* Proofs about what is ordered, cleaned, built and imported.              *)
(*                                                                         *)
(* Procurement, for any number of calls, managers, amounts, costs,         *)
(* completions and faults; then cleaning requests and the structure of a   *)
(* building, each by itself and as parts of MCOperations; then what        *)
(* readers are shown page by page, in a file or as a figure, and the       *)
(* book of a project, as parts of MCOperations.                            *)
(***************************************************************************)
EXTENDS Procurement, MCOperations, FiniteSetTheorems, SequenceTheorems,
        WellFoundedInduction, TLAPS

Over == 50 * invoice.amount > 51 * po.amount

\* An amount over the order can only be found unworked or too high.
Judged(v) == Over => v \in {"no_completion", "over_amount"}

\* What stands on the invoice was written by a match.
MatchRecorded ==
    invoice.match # "unmatched" =>
        [verdict |-> invoice.match, by |-> invoice.matcher] \in matches

\* A match of somebody else allows u to approve.
Allowed(u) == \E m \in matches : m.verdict \notin Blocked /\ m.by # u

\* Whoever has passed the checks of approve is allowed to, and stays so:
\* matches are only added.
ApprovalBacked ==
    \A s \in Slots : Writing(s, "approve") => Allowed(calls[s].user)

\* The amounts never change under a match that is under way or written.
MatchJudged ==
    /\ invoice.amount # 0 => po.amount # 0
    /\ \A s \in Slots :
          Writing(s, "match") => /\ invoice.amount # 0
                                 /\ calls[s].verdict \in Verdicts /\ Judged(calls[s].verdict)
    /\ \A m \in matches : invoice.amount # 0 /\ Judged(m.verdict)

\* A slot with work in it has a user.
CallsOwned ==
    \A s \in Slots : calls[s].op # "none" => calls[s].user \in Users

IInv ==
    TypeOK /\ CallsOwned /\ MatchRecorded /\ ApprovalBacked /\ MatchJudged /\ ApprovedOnOthersMatch

LEMMA InitIInv == Init => IInv
  <1> SUFFICES ASSUME Init PROVE IInv
    OBVIOUS
  <1> USE ProcurementAssumption DEF Init, NoCall
  <1>1. TypeOK
    <2>1. calls \in [Slots -> [op : {"none", "complete", "match", "approve"},
                              user : Users \cup {"nobody"}, at : {"idle", "write", "publish"},
                              order : 0 .. MaxOrders, evidence : BOOLEAN,
                              verdict : Verdicts \cup {"unmatched"}]]
      OBVIOUS
    <2>2. /\ done \in [Orders -> 0 .. MaxCompletions]
          /\ cost \in [Orders -> Nat]
      OBVIOUS
    <2>3. /\ po \in [amount : Amounts \cup {0}, order : 0 .. MaxOrders]
          /\ invoice \in [amount : Amounts \cup {0}, match : Verdicts \cup {"unmatched"},
                          matcher : Users \cup {"nobody"}, approver : Users \cup {"nobody"}]
      OBVIOUS
    <2>4. faults \in 0 .. MaxFaults
      OBVIOUS
    <2> QED
      BY <2>1, <2>2, <2>3, <2>4 DEF TypeOK
  <1>2. CallsOwned /\ MatchRecorded /\ ApprovalBacked /\ MatchJudged /\ ApprovedOnOthersMatch
    BY DEF CallsOwned, MatchRecorded, ApprovalBacked, MatchJudged, ApprovedOnOthersMatch, Writing
  <1> QED
    BY <1>1, <1>2 DEF IInv

\* The verdict of match: its type, and what it is for an amount over the order.
LEMMA VerdictJudged == Verdict \in Verdicts /\ Judged(Verdict)
  <1>1. CASE po.order = 0 \/ done[po.order] = 0
    BY <1>1 DEF Verdict, Verdicts, Judged
  <1>2. CASE ~(po.order = 0 \/ done[po.order] = 0) /\ Over
    BY <1>2 DEF Verdict, Verdicts, Judged, Over
  <1>3. CASE ~(po.order = 0 \/ done[po.order] = 0) /\ ~Over
    <2>1. Judged(Verdict)
      BY <1>3 DEF Judged
    <2>2. Verdict \in Verdicts
      BY <1>3 DEF Verdict, Verdicts, Over
    <2> QED
      BY <2>1, <2>2
  <1> QED
    BY <1>1, <1>2, <1>3

LEMMA NextIInv == IInv /\ [Next]_vars => IInv'
  <1> SUFFICES ASSUME IInv, [Next]_vars PROVE IInv'
    OBVIOUS
  <1> USE ProcurementAssumption
  <1>0. TypeOK /\ CallsOwned /\ MatchRecorded /\ ApprovalBacked /\ MatchJudged /\ ApprovedOnOthersMatch
    BY DEF IInv
  <1>a. NoCall \in [op : {"none", "complete", "match", "approve"},
                    user : Users \cup {"nobody"}, at : {"idle", "write", "publish"},
                    order : 0 .. MaxOrders, evidence : BOOLEAN,
                    verdict : Verdicts \cup {"unmatched"}]
    BY DEF NoCall
  <1>1. CASE IssuePurchaseOrder
    <2> USE <1>0, <1>1 DEF IssuePurchaseOrder
    <2>1. TypeOK'
      BY DEF TypeOK
    <2>2. CallsOwned' /\ MatchRecorded' /\ ApprovalBacked' /\ ApprovedOnOthersMatch'
      BY DEF CallsOwned, MatchRecorded, ApprovalBacked, Allowed, ApprovedOnOthersMatch, Writing
    <2>3. MatchJudged'
      BY DEF MatchJudged, Judged, Over, Writing, TypeOK
    <2> QED
      BY <2>1, <2>2, <2>3 DEF IInv
  <1>2. CASE CreateInvoice
    <2> USE <1>0, <1>2 DEF CreateInvoice
    <2>1. TypeOK'
      BY DEF TypeOK
    <2>2. CallsOwned' /\ MatchRecorded' /\ ApprovalBacked' /\ ApprovedOnOthersMatch'
      BY DEF CallsOwned, MatchRecorded, ApprovalBacked, Allowed, ApprovedOnOthersMatch, Writing, TypeOK
    <2>3. MatchJudged'
      BY DEF MatchJudged, Judged, Over, Writing, TypeOK
    <2> QED
      BY <2>1, <2>2, <2>3 DEF IInv
  <1>3. ASSUME NEW s \in Slots, NEW u \in Users, Begin(s, u) PROVE IInv'
    <2> DEFINE Good(call) ==
                 /\ call \in [op : {"complete", "match", "approve"}, user : {u}, at : {"write"},
                              order : 0 .. MaxOrders, evidence : BOOLEAN,
                              verdict : Verdicts \cup {"unmatched"}]
                 /\ call.op = "match" =>
                      invoice.amount # 0 /\ call.verdict \in Verdicts /\ Judged(call.verdict)
                 /\ call.op = "approve" => Allowed(u)
    <2>1. \E call : Good(call) /\ calls' = [calls EXCEPT ![s] = call]
      <3>1. ASSUME NEW o \in Orders, NEW e \in BOOLEAN, RecordCompletion(s, u, o, e)
            PROVE \E call : Good(call) /\ calls' = [calls EXCEPT ![s] = call]
        <4>1. Good(Call("complete", u, o, e, "unmatched"))
          BY ProcurementAssumption DEF Orders, Call
        <4> QED
          BY <3>1, <4>1 DEF RecordCompletion, Enter
      <3>2. CASE Match(s, u)
        <4>1. Good(Call("match", u, 0, FALSE, Verdict))
          BY <3>2, VerdictJudged, ProcurementAssumption DEF Match, Call
        <4> QED
          BY <3>2, <4>1 DEF Match, Enter
      <3>3. CASE Approve(s, u)
        <4>1. Allowed(u)
          BY <3>3, <1>0 DEF Approve, Allowed, MatchRecorded, Blocked
        <4>2. Good(Call("approve", u, 0, FALSE, "unmatched"))
          BY <4>1, ProcurementAssumption DEF Call
        <4> QED
          BY <3>3, <4>2 DEF Approve, Enter
      <3> QED
        BY <1>3, <3>1, <3>2, <3>3 DEF Begin
    <2> PICK call : Good(call) /\ calls' = [calls EXCEPT ![s] = call]
      BY <2>1
    <2>2. UNCHANGED <<po, done, cost, invoice, paid, matches, bare, faults>>
      BY <1>3 DEF Begin, RecordCompletion, Match, Approve, Enter
    <2>3. \A t \in Slots : calls'[t] = IF t = s THEN call ELSE calls[t]
      BY <2>1, <1>0 DEF TypeOK
    <2>4. TypeOK'
      BY <1>0, <2>1, <2>2 DEF TypeOK
    <2>5. CallsOwned' /\ MatchRecorded' /\ ApprovalBacked' /\ ApprovedOnOthersMatch'
      BY <1>0, <2>1, <2>2, <2>3
         DEF CallsOwned, MatchRecorded, ApprovalBacked, Allowed, ApprovedOnOthersMatch, Writing
    <2>6. MatchJudged'
      BY <1>0, <2>1, <2>2, <2>3 DEF MatchJudged, Judged, Over, Writing
    <2> QED
      BY <2>4, <2>5, <2>6 DEF IInv
  <1>4. ASSUME NEW s \in Slots, WriteCompletion(s) \/ Publish(s) \/ Stop(s) PROVE IInv'
    <2>1. /\ calls' = [calls EXCEPT ![s] = NoCall]
          /\ UNCHANGED <<po, invoice, matches>>
      BY <1>4 DEF WriteCompletion, Publish, Stop, Return
    <2>2. /\ done' \in [Orders -> 0 .. MaxCompletions]
          /\ cost' \in [Orders -> Nat]
          /\ paid' \in Nat /\ bare' \in Nat /\ faults' \in 0 .. MaxFaults
      <3>1. CASE WriteCompletion(s)
        <4> DEFINE o == calls[s].order
        <4>1. done[o] < MaxCompletions /\ done' = [done EXCEPT ![o] = @ + 1]
          BY <3>1 DEF WriteCompletion
        <4>2. PICK c \in Costs : cost' = [cost EXCEPT ![o] = @ + c]
          BY <3>1 DEF WriteCompletion
        <4>3. bare' \in {bare, bare + 1} /\ paid' = paid /\ faults' = faults
          BY <3>1 DEF WriteCompletion
        <4> HIDE DEF o
        <4>4. done' \in [Orders -> 0 .. MaxCompletions]
          <5>1. \A x \in Orders : done[x] \in 0 .. MaxCompletions
            BY <1>0 DEF TypeOK
          <5>2. \A x \in Orders : done'[x] \in 0 .. MaxCompletions
            BY <4>1, <5>1, <1>0 DEF TypeOK
          <5> QED
            BY <4>1, <5>2, <1>0 DEF TypeOK
        <4>5. cost' \in [Orders -> Nat]
          <5>1. \A x \in Orders : cost[x] \in Nat
            BY <1>0 DEF TypeOK
          <5>2. \A x \in Orders : cost'[x] \in Nat
            BY <4>2, <5>1, <1>0 DEF TypeOK
          <5> QED
            BY <4>2, <5>2, <1>0 DEF TypeOK
        <4> QED
          BY <4>3, <4>4, <4>5, <1>0 DEF TypeOK
      <3>2. CASE Publish(s)
        BY <3>2, <1>0 DEF Publish, TypeOK
      <3>3. CASE Stop(s)
        BY <3>3, <1>0 DEF Stop, TypeOK
      <3> QED
        BY <1>4, <3>1, <3>2, <3>3
    <2>3. \A t \in Slots : calls'[t] = IF t = s THEN NoCall ELSE calls[t]
      BY <2>1, <1>0 DEF TypeOK
    <2>4. TypeOK'
      BY <1>0, <1>a, <2>1, <2>2 DEF TypeOK
    <2>5. CallsOwned' /\ MatchRecorded' /\ ApprovalBacked' /\ ApprovedOnOthersMatch'
      BY <1>0, <2>1, <2>3
         DEF CallsOwned, MatchRecorded, ApprovalBacked, Allowed, ApprovedOnOthersMatch, Writing, NoCall
    <2>6. MatchJudged'
      BY <1>0, <2>1, <2>3 DEF MatchJudged, Judged, Over, Writing, NoCall
    <2> QED
      BY <2>4, <2>5, <2>6 DEF IInv
  <1>5. ASSUME NEW s \in Slots, WriteMatch(s) PROVE IInv'
    <2>1. calls[s].verdict \in Verdicts /\ Judged(calls[s].verdict) /\ calls[s].user \in Users
      BY <1>5, <1>0 DEF WriteMatch, Writing, MatchJudged, CallsOwned
    <2>2. /\ calls' = [calls EXCEPT ![s] = NoCall]
          /\ invoice' = [invoice EXCEPT !.match = calls[s].verdict, !.matcher = calls[s].user]
          /\ matches' = matches \cup {[verdict |-> calls[s].verdict, by |-> calls[s].user]}
          /\ UNCHANGED <<po, done, cost, paid, bare, faults>>
      BY <1>5 DEF WriteMatch, Return
    <2>3. \A t \in Slots : calls'[t] = IF t = s THEN NoCall ELSE calls[t]
      BY <2>2, <1>0 DEF TypeOK
    <2>4. /\ invoice'.amount = invoice.amount /\ invoice'.approver = invoice.approver
          /\ invoice'.match = calls[s].verdict /\ invoice'.matcher = calls[s].user
      BY <2>2, <1>0 DEF TypeOK
    <2>5. TypeOK'
      <3>1. calls' \in [Slots -> [op : {"none", "complete", "match", "approve"},
                                user : Users \cup {"nobody"}, at : {"idle", "write", "publish"},
                                order : 0 .. MaxOrders, evidence : BOOLEAN,
                                verdict : Verdicts \cup {"unmatched"}]]
        BY <1>0, <1>a, <2>2 DEF TypeOK
      <3>2. invoice' \in [amount : Amounts \cup {0}, match : Verdicts \cup {"unmatched"},
                         matcher : Users \cup {"nobody"}, approver : Users \cup {"nobody"}]
        BY <1>0, <2>1, <2>2 DEF TypeOK
      <3>3. matches' \subseteq [verdict : Verdicts, by : Users]
        BY <1>0, <2>1, <2>2 DEF TypeOK
      <3> QED
        BY <1>0, <2>2, <3>1, <3>2, <3>3 DEF TypeOK
    <2>6. CallsOwned' /\ MatchRecorded' /\ ApprovalBacked' /\ ApprovedOnOthersMatch'
      BY <1>0, <2>2, <2>3, <2>4
         DEF CallsOwned, MatchRecorded, ApprovalBacked, Allowed, ApprovedOnOthersMatch, Writing, NoCall
    <2>7. MatchJudged'
      BY <1>5, <1>0, <2>1, <2>2, <2>3, <2>4 DEF WriteMatch, MatchJudged, Judged, Over, Writing, NoCall
    <2> QED
      BY <2>5, <2>6, <2>7 DEF IInv
  <1>6. ASSUME NEW s \in Slots, WriteApproval(s) PROVE IInv'
    <2>1. calls[s].user \in Users /\ Allowed(calls[s].user)
      BY <1>6, <1>0 DEF WriteApproval, Writing, CallsOwned, ApprovalBacked
    <2>2. /\ calls' = [calls EXCEPT ![s].at = "publish"]
          /\ invoice' = [invoice EXCEPT !.approver = calls[s].user]
          /\ UNCHANGED <<po, done, cost, paid, matches, bare, faults>>
      BY <1>6 DEF WriteApproval, GoTo
    <2>3. \A t \in Slots : /\ calls'[t].op = calls[t].op /\ calls'[t].user = calls[t].user
                           /\ calls'[t].verdict = calls[t].verdict
                           /\ calls'[t].at = IF t = s THEN "publish" ELSE calls[t].at
      BY <2>2, <1>0 DEF TypeOK
    <2>4. /\ invoice'.amount = invoice.amount /\ invoice'.approver = calls[s].user
          /\ invoice'.match = invoice.match /\ invoice'.matcher = invoice.matcher
      BY <2>2, <1>0 DEF TypeOK
    <2>5. TypeOK'
      BY <1>0, <2>1, <2>2 DEF TypeOK
    <2>6. CallsOwned' /\ MatchRecorded' /\ ApprovalBacked' /\ ApprovedOnOthersMatch'
      BY <1>0, <2>1, <2>2, <2>3, <2>4
         DEF CallsOwned, MatchRecorded, ApprovalBacked, Allowed, ApprovedOnOthersMatch, Writing
    <2>7. MatchJudged'
      BY <1>0, <2>2, <2>3, <2>4 DEF MatchJudged, Judged, Over, Writing
    <2> QED
      BY <2>5, <2>6, <2>7 DEF IInv
  <1>7. CASE UNCHANGED vars
    BY <1>0, <1>7
       DEF vars, IInv, TypeOK, CallsOwned, MatchRecorded, ApprovalBacked, Allowed, MatchJudged,
           Judged, Over, ApprovedOnOthersMatch, Writing
  <1> QED
    BY <1>1, <1>2, <1>3, <1>4, <1>5, <1>6, <1>7 DEF Next, Step

LEMMA Invariance == Spec => []IInv
  BY InitIInv, NextIInv, PTL DEF Spec

\* Every reachable state of the order, the completions, the invoice and the calls is well typed.
THEOREM TypeCorrect == Spec => []TypeOK
  BY Invariance, PTL DEF IInv

\* vendor-invoices.service.ts:132-142: an approver relied on a match that allowed
\* it and that somebody else had run, however many calls overlap.
THEOREM SeparationCorrect == Spec => []ApprovedOnOthersMatch
  BY Invariance, PTL DEF IInv

\* vendor-invoices.service.ts:83: an invoice above its order passes only through
\* the branch for an order without completions.
THEOREM OverAmountCorrect == Spec => []OverAmountIsUnworked
  <1>1. IInv => OverAmountIsUnworked
    BY DEF IInv, ApprovedOnOthersMatch, MatchJudged, Judged, Over, OverAmountIsUnworked, Blocked
  <1> QED
    BY <1>1, Invariance, PTL
-----------------------------------------------------------------------------
(* How much work is closed without evidence *)

\* Calls that were let in before the order was issued, and will write without evidence
BareCalls ==
    {s \in Slots : /\ Writing(s, "complete") /\ ~calls[s].evidence
                   /\ EvidenceNeeded(calls[s].order)}

\* Each completion without evidence took one of them, and no more come.
SlotPaysForBare ==
    /\ bare # 0 => po.amount # 0
    /\ bare + Cardinality(BareCalls) <= Cardinality(Slots)

LEMMA BareCallsCount ==
    /\ IsFiniteSet(BareCalls) /\ Cardinality(BareCalls) \in Nat
    /\ Cardinality(BareCalls) <= Cardinality(Slots) /\ Cardinality(Slots) \in Nat
  <1>1. BareCalls \subseteq Slots
    BY DEF BareCalls
  <1> QED
    BY <1>1, FS_Subset, FS_CardinalityType, ProcurementAssumption

\* A step that records nothing bare, and lets nobody in without evidence, adds nothing.
LEMMA SlotsStayPaid ==
    ASSUME SlotPaysForBare, bare \in Nat, bare' = bare, po' = po, BareCalls' \subseteq BareCalls
    PROVE  SlotPaysForBare'
  <1>1. Cardinality(BareCalls') <= Cardinality(BareCalls) /\ Cardinality(BareCalls') \in Nat
    BY BareCallsCount, FS_Subset, FS_CardinalityType
  <1> QED
    BY <1>1, BareCallsCount DEF SlotPaysForBare

LEMMA NextSlotPays == IInv /\ SlotPaysForBare /\ [Next]_vars => SlotPaysForBare'
  <1> SUFFICES ASSUME IInv, SlotPaysForBare, [Next]_vars PROVE SlotPaysForBare'
    OBVIOUS
  <1>0. TypeOK /\ bare \in Nat
    BY DEF IInv, TypeOK
  <1>1. CASE IssuePurchaseOrder
    <2>1. bare' = 0
      BY <1>1 DEF IssuePurchaseOrder, SlotPaysForBare
    <2>2. BareCalls' \subseteq Slots
      BY DEF BareCalls
    <2>3. Cardinality(BareCalls') <= Cardinality(Slots) /\ Cardinality(BareCalls') \in Nat
      BY <2>2, FS_Subset, FS_CardinalityType, ProcurementAssumption
    <2> QED
      BY <2>1, <2>3 DEF SlotPaysForBare
  <1>2. CASE CreateInvoice \/ UNCHANGED vars
    <2>1. UNCHANGED <<bare, po, calls>>
      BY <1>2 DEF CreateInvoice, vars
    <2>2. BareCalls' \subseteq BareCalls
      BY <2>1 DEF BareCalls, Writing, EvidenceNeeded
    <2> QED
      BY <1>0, <2>1, <2>2, SlotsStayPaid
  <1>3. ASSUME NEW s \in Slots, NEW u \in Users, Begin(s, u) PROVE SlotPaysForBare'
    <2> DEFINE Heeds(call) == call.op = "complete" => (EvidenceNeeded(call.order) => call.evidence)
    <2>1. \E call : Heeds(call) /\ Enter(s, call)
      <3>1. ASSUME NEW o \in Orders, NEW e \in BOOLEAN, RecordCompletion(s, u, o, e)
            PROVE  \E call : Heeds(call) /\ Enter(s, call)
        <4>1. Heeds(Call("complete", u, o, e, "unmatched"))
          BY <3>1 DEF RecordCompletion, Call
        <4> QED
          BY <3>1, <4>1 DEF RecordCompletion
      <3>2. CASE Match(s, u)
        <4>1. Heeds(Call("match", u, 0, FALSE, Verdict))
          BY DEF Call
        <4> QED
          BY <3>2, <4>1 DEF Match
      <3>3. CASE Approve(s, u)
        <4>1. Heeds(Call("approve", u, 0, FALSE, "unmatched"))
          BY DEF Call
        <4> QED
          BY <3>3, <4>1 DEF Approve
      <3> QED
        BY <1>3, <3>1, <3>2, <3>3 DEF Begin
    <2>2. BareCalls' \subseteq BareCalls
      BY <1>0, <2>1 DEF Enter, BareCalls, Writing, EvidenceNeeded, TypeOK
    <2> QED
      BY <1>0, <2>1, <2>2, SlotsStayPaid DEF Enter
  <1>4. ASSUME NEW s \in Slots, WriteCompletion(s) PROVE SlotPaysForBare'
    <2>1. calls' = [calls EXCEPT ![s] = NoCall] /\ po' = po
      BY <1>4 DEF WriteCompletion, Return
    <2>2. BareCalls' = BareCalls \ {s}
      BY <1>0, <2>1 DEF BareCalls, Writing, EvidenceNeeded, NoCall, TypeOK
    <2>3. CASE s \in BareCalls
      <3>1. bare' = bare + 1 /\ po.amount # 0
        BY <1>4, <2>3 DEF WriteCompletion, BareCalls, EvidenceNeeded
      <3>2. Cardinality(BareCalls') = Cardinality(BareCalls) - 1
        BY <2>2, <2>3, BareCallsCount, FS_RemoveElement
      <3> QED
        BY <1>0, <2>1, <3>1, <3>2, BareCallsCount DEF SlotPaysForBare
    <2>4. CASE s \notin BareCalls
      <3>1. bare' = bare
        BY <1>4, <2>4 DEF WriteCompletion, BareCalls
      <3> QED
        BY <1>0, <2>1, <2>2, <3>1, SlotsStayPaid
    <2> QED
      BY <2>3, <2>4
  <1>5. ASSUME NEW s \in Slots, WriteMatch(s) \/ WriteApproval(s) \/ Publish(s) \/ Stop(s)
        PROVE  SlotPaysForBare'
    <2>1. bare' = bare /\ po' = po
      BY <1>5 DEF WriteMatch, WriteApproval, Publish, Stop
    <2>2. \A t \in Slots : calls'[t] = calls[t] \/ calls'[t].op \in {"none", "approve"}
      BY <1>0, <1>5 DEF WriteMatch, WriteApproval, Publish, Stop, Return, GoTo, Writing, NoCall, TypeOK
    <2>3. BareCalls' \subseteq BareCalls
      BY <2>1, <2>2 DEF BareCalls, Writing, EvidenceNeeded
    <2> QED
      BY <1>0, <2>1, <2>3, SlotsStayPaid
  <1> QED
    BY <1>1, <1>2, <1>3, <1>4, <1>5 DEF Next, Step

\* reactive.service.ts:740: with a purchase order on it, work is closed without evidence at most
\* once for each call that had looked before the order was issued, however many completions,
\* orders and faults there are.
THEOREM EvidenceCorrect == Spec => []EvidenceBound
  <1>1. Init => SlotPaysForBare
    <2> SUFFICES ASSUME Init PROVE SlotPaysForBare
      OBVIOUS
    <2> QED
      BY BareCallsCount DEF Init, SlotPaysForBare
  <1>2. IInv /\ SlotPaysForBare => EvidenceBound
    BY BareCallsCount DEF SlotPaysForBare, EvidenceBound, IInv, TypeOK
  <1> QED
    BY <1>1, <1>2, Invariance, NextSlotPays, PTL DEF Spec
-----------------------------------------------------------------------------
(* Cleaning: what is closed stays closed *)

Status == {"none", "new", "assigned", "in_progress"} \cup Clean!Terminal
Staff == Clean!Team \cup {"none"}
Companies == Contractors \cup {"none"} \cup {Employer[u] : u \in Clean!Team}

CleanTypes ==
    /\ zone \in [Zones -> [status : {"absent", "active"}, contractor : Contractors \cup {"none"},
                           supervisor : Supervisors \cup {"none"}, scannable : BOOLEAN]]
    /\ request \in [Jobs -> [status : Status, zone : Zones \cup {"none"}, contractor : Companies,
                         staff : Staff, resolved : BOOLEAN]]
    /\ shift \in [Shifts -> [op : {"idle", "change", "assign"}, job : Jobs \cup {"none"},
                             read : Status, to : Status, contractor : Companies, staff : Staff]]

\* A call that is about to write has read a status that can still change.
CleanInv ==
    /\ CleanTypes
    /\ \A s \in Shifts : shift[s] # Clean!Idle => shift[s].job \in Jobs /\ shift[s].read \notin Clean!Terminal
    /\ Clean!ClosedStaysClosed

LEMMA CleanInit == Clean!Init => CleanInv
  BY DEF Clean!Init, CleanInv, CleanTypes, Clean!ClosedStaysClosed, Clean!NoZone, Clean!NoJob, Clean!Idle,
         Status, Staff, Companies

\* A call puts down what it will write.
LEMMA CleanRead ==
    ASSUME CleanInv, UNCHANGED <<zone, request, raced>>,
           NEW s \in Shifts,
           NEW call \in [op : {"idle", "change", "assign"}, job : Jobs, read : Status \ Clean!Terminal,
                         to : Status, contractor : Companies, staff : Staff],
           shift' = [shift EXCEPT ![s] = call]
    PROVE  CleanInv'
<1>1. CleanTypes'
  BY DEF CleanInv, CleanTypes
<1>2. \A t \in Shifts : shift'[t] # Clean!Idle => shift'[t].job \in Jobs /\ shift'[t].read \notin Clean!Terminal
  BY DEF CleanInv, CleanTypes
<1> QED
  BY <1>1, <1>2 DEF CleanInv, Clean!ClosedStaysClosed

LEMMA CleanStep == CleanInv /\ [Clean!Next]_(Clean!vars) => CleanInv'
<1> SUFFICES ASSUME CleanInv, [Clean!Next]_(Clean!vars) PROVE CleanInv'
  OBVIOUS
<1>1. CleanTypes
  BY DEF CleanInv
<1>2. ASSUME NEW z \in Zones, NEW k \in Contractors \cup {"none"}, NEW sup \in Supervisors \cup {"none"},
             Clean!CreateZone(z, k, sup) \/ Clean!AssignZone(z, k, sup) \/ Clean!CreateQrPoint(z)
      PROVE  CleanInv'
  <2>1. zone' \in [Zones -> [status : {"absent", "active"}, contractor : Contractors \cup {"none"},
                             supervisor : Supervisors \cup {"none"}, scannable : BOOLEAN]]
    <3>1. CASE Clean!CreateZone(z, k, sup)
      BY <1>1, <3>1 DEF CleanTypes, Clean!CreateZone
    <3>2. CASE Clean!AssignZone(z, k, sup)
      <4>1. zone[z] \in [status : {"absent", "active"}, contractor : Contractors \cup {"none"},
                         supervisor : Supervisors \cup {"none"}, scannable : BOOLEAN]
        BY <1>1 DEF CleanTypes
      <4>2. [zone[z] EXCEPT !.contractor = k, !.supervisor = sup]
                \in [status : {"absent", "active"}, contractor : Contractors \cup {"none"},
                     supervisor : Supervisors \cup {"none"}, scannable : BOOLEAN]
        BY <4>1
      <4>3. zone' = [zone EXCEPT ![z] = [zone[z] EXCEPT !.contractor = k, !.supervisor = sup]]
        BY <1>1, <3>2 DEF CleanTypes, Clean!AssignZone
      <4> QED
        BY <1>1, <4>2, <4>3 DEF CleanTypes
    <3>3. CASE Clean!CreateQrPoint(z)
      <4>1. zone[z] \in [status : {"absent", "active"}, contractor : Contractors \cup {"none"},
                         supervisor : Supervisors \cup {"none"}, scannable : BOOLEAN]
        BY <1>1 DEF CleanTypes
      <4>2. [zone[z] EXCEPT !.status = "active", !.scannable = TRUE]
                \in [status : {"absent", "active"}, contractor : Contractors \cup {"none"},
                     supervisor : Supervisors \cup {"none"}, scannable : BOOLEAN]
        BY <4>1
      <4>3. zone' = [zone EXCEPT ![z] = [zone[z] EXCEPT !.status = "active", !.scannable = TRUE]]
        BY <1>1, <3>3 DEF CleanTypes, Clean!CreateQrPoint
      <4> QED
        BY <1>1, <4>2, <4>3 DEF CleanTypes
    <3> QED
      BY <1>2, <3>1, <3>2, <3>3
  <2>2. UNCHANGED <<request, shift, raced>>
    BY <1>2 DEF Clean!CreateZone, Clean!AssignZone, Clean!CreateQrPoint
  <2> QED
    BY <2>1, <2>2 DEF CleanInv, CleanTypes, Clean!ClosedStaysClosed
<1>3. ASSUME NEW r \in Jobs, NEW z \in Zones, NEW k \in Contractors \cup {"none"},
             NEW u \in Staff, Clean!Create(r, z, k, u)
      PROVE  CleanInv'
  <2> DEFINE staff == IF u # "none" THEN u ELSE zone[z].supervisor
             named == IF k # "none" THEN k ELSE zone[z].contractor
             contractor == IF named = "none" /\ staff # "none" THEN Employer[staff] ELSE named
             row == [status |-> IF staff # "none" THEN "assigned" ELSE "new", zone |-> z,
                     contractor |-> contractor, staff |-> staff, resolved |-> FALSE]
  <2>0. /\ row \in [status : Status, zone : Zones, contractor : Companies, staff : Staff,
                    resolved : BOOLEAN]
        /\ ~row.resolved
    <3>1. staff \in Staff /\ contractor \in Companies
      BY <1>1 DEF CleanTypes, Staff, Companies, Clean!Team
    <3> QED
      BY <3>1 DEF Status
  <2>1. request' = [request EXCEPT ![r] = row]
    BY <1>3 DEF Clean!Create
  <2> HIDE DEF row
  <2>2. UNCHANGED <<zone, shift, raced>>
    BY <1>3 DEF Clean!Create
  <2>3. CleanTypes'
    BY <1>1, <2>0, <2>1, <2>2 DEF CleanTypes
  <2> QED
    BY <1>1, <2>0, <2>1, <2>2, <2>3 DEF CleanInv, CleanTypes, Clean!ClosedStaysClosed
<1>4. ASSUME NEW r \in Jobs, NEW z \in Zones, Clean!PublicCreate(r, z) PROVE CleanInv'
  BY <1>3, <1>4 DEF Clean!PublicCreate, Staff
<1>5. ASSUME NEW s \in Shifts, NEW a \in Clean!Actors, NEW r \in Jobs,
             NEW to \in {"assigned", "in_progress", "done", "cancelled"}, Clean!ReadToChange(s, a, r, to)
      PROVE  CleanInv'
  <2>1. request[r].status \in Status \ Clean!Terminal
    BY <1>1, <1>5 DEF CleanTypes, Status, Clean!ReadToChange, Clean!NoJob, Clean!CanChangeStatus,
                      Clean!AllowedTransitions, Clean!Terminal
  <2>2. to \in Status /\ UNCHANGED <<zone, request, raced>>
    BY <1>5 DEF Clean!ReadToChange, Status, Clean!Terminal
  <2> DEFINE call == [Clean!Idle EXCEPT !.op = "change", !.job = r, !.read = request[r].status, !.to = to]
  <2>3. call \in [op : {"idle", "change", "assign"}, job : Jobs, read : Status \ Clean!Terminal,
                 to : Status, contractor : Companies, staff : Staff]
    BY <2>1, <2>2 DEF Clean!Idle, Companies, Staff
  <2>4. shift' = [shift EXCEPT ![s] = call]
    BY <1>5 DEF Clean!ReadToChange
  <2> HIDE DEF call
  <2> QED
    BY <2>2, <2>3, <2>4, CleanRead
<1>6. ASSUME NEW s \in Shifts, NEW a \in Clean!Actors, NEW r \in Jobs,
             NEW k \in Contractors \cup {"none"}, NEW u \in Staff, Clean!ReadToAssign(s, a, r, k, u)
      PROVE  CleanInv'
  <2> DEFINE contractor == IF k # "none" THEN k ELSE request[r].contractor
             to == IF u # "none" THEN "assigned" ELSE request[r].status
             company == IF u # "none" THEN Employer[u] ELSE contractor
  <2>1. request[r].status \in Status \ Clean!Terminal /\ to \in Status
    BY <1>1, <1>6 DEF CleanTypes, Status, Clean!ReadToAssign
  <2>2. company \in Companies
    BY <1>1 DEF CleanTypes, Companies, Staff
  <2>3. shift' = [shift EXCEPT ![s] = [op |-> "assign", job |-> r, read |-> request[r].status, to |-> to,
                                       contractor |-> company, staff |-> u]]
    BY <1>6 DEF Clean!ReadToAssign
  <2>4. UNCHANGED <<zone, request, raced>>
    BY <1>6 DEF Clean!ReadToAssign
  <2> HIDE DEF to, company
  <2> QED
    BY <2>1, <2>2, <2>3, <2>4, CleanRead
<1>7. ASSUME NEW s \in Shifts, Clean!Write(s) PROVE CleanInv'
  <2> DEFINE call == shift[s]
             r == call.job
  <2>1. /\ r \in Jobs /\ call.read \notin Clean!Terminal /\ call.to \in Status
        /\ call.contractor \in Companies /\ call.staff \in Staff
    BY <1>1, <1>7 DEF CleanInv, CleanTypes, Clean!Write
  <2>2. /\ shift' = [shift EXCEPT ![s] = Clean!Idle] /\ zone' = zone
        /\ raced' = IF request[r].status = call.read THEN raced ELSE raced \cup {r}
    BY <1>7 DEF Clean!Write
  <2>3. /\ request' \in [Jobs -> [status : Status, zone : Zones \cup {"none"}, contractor : Companies,
                              staff : Staff, resolved : BOOLEAN]]
        /\ request'[r].status = call.to
        /\ request'[r].resolved = (request[r].resolved \/ call.to \in Clean!Terminal)
        /\ \A q \in Jobs \ {r} : request'[q] = request[q]
    BY <1>1, <1>7, <2>1 DEF CleanTypes, Clean!Write, Staff
  <2>4. CleanTypes'
    BY <1>1, <2>2, <2>3 DEF CleanTypes, Clean!Idle, Status, Staff, Companies
  <2>5. \A t \in Shifts : shift'[t] # Clean!Idle => shift'[t].job \in Jobs /\ shift'[t].read \notin Clean!Terminal
    BY <1>1, <2>2 DEF CleanInv, CleanTypes
  <2>6. Clean!ClosedStaysClosed'
    BY <2>1, <2>2, <2>3 DEF CleanInv, Clean!ClosedStaysClosed
  <2> QED
    BY <2>4, <2>5, <2>6 DEF CleanInv
<1>8. CASE UNCHANGED Clean!vars
  BY <1>8 DEF Clean!vars, CleanInv, CleanTypes, Clean!ClosedStaysClosed
<1> QED
  BY <1>2, <1>3, <1>4, <1>5, <1>6, <1>7, <1>8 DEF Clean!Next, Staff

\* The invariant holds at first, every step keeps it, and it has what is to hold in it.
LEMMA CleanInductive ==
    /\ Clean!Init => CleanInv
    /\ CleanInv /\ [Clean!Next]_(Clean!vars) => CleanInv'
    /\ CleanInv => Clean!ClosedStaysClosed
BY CleanInit, CleanStep DEF CleanInv

\* cleaning.access.ts:78-88: a request that has been resolved stays terminal, and only a write
\* decided on a status that had already changed can open it again.
THEOREM ClosedCorrect == Clean!Spec => []Clean!ClosedStaysClosed
BY CleanInductive, PTL DEF Clean!Spec
-----------------------------------------------------------------------------
(* Structure: what a row names is in its own building *)

\* Kinds that a checked row names: none of them ever moves but a patched unit.
NamedKinds == {"floor", "unit", "group", "company", "asset"}

NamesHold(x) ==
    /\ kind[x] \in Structure!Checked /\ movedFrom[x] = {} =>
           \A y \in refs[x] : movedFrom[y] = {} => kind[y] \in NamedKinds /\ home[y] = home[x]
    /\ kind[x] \in Structure!Keyed => refs[x] \subseteq Structure!There
    /\ kind[x] \in Structure!Bound /\ x \notin removed => home[x] \in standing
    /\ x \in removed => kind[x] # "none" /\ refs[x] = {}
    /\ movedFrom[x] # {} => kind[x] = "unit"

StructInv == Structure!TypeOK /\ \A x \in Items : NamesHold(x)

\* A lookup of a row that is no unit finds it where it was made.
LEMMA FoundWhereMade ==
    ASSUME StructInv, NEW k \in Structure!Kinds, NEW b \in Sites, NEW y \in Structure!Found(k, b)
    PROVE  /\ y \in Items /\ kind[y] = k
           /\ movedFrom[y] = {} => home[y] = b
           /\ k # "unit" => movedFrom[y] = {}
<1>1. y \in Items /\ kind[y] = k /\ (home[y] = b \/ b \in movedFrom[y])
  BY DEF Structure!Found
<1>2. NamesHold(y)
  BY <1>1 DEF StructInv
<1> QED
  BY <1>1, <1>2 DEF NamesHold

LEMMA StructInsert ==
    ASSUME StructInv, NEW k \in Structure!Kinds, NEW b \in Sites, NEW x \in Items,
           NEW named \in SUBSET Items, Structure!Insert(k, b, x, named),
           k \in Structure!Checked =>
               \A y \in named : movedFrom[y] = {} => kind[y] \in NamedKinds /\ home[y] = b
    PROVE  StructInv'
<1>1. /\ kind[x] = "none"
      /\ k \in Structure!Bound => b \in standing
      /\ k \in Structure!Keyed => named \subseteq Structure!There
      /\ kind' = [kind EXCEPT ![x] = k]
      /\ home' = [home EXCEPT ![x] = b]
      /\ refs' = [refs EXCEPT ![x] = named]
      /\ UNCHANGED <<standing, removed, movedFrom>>
  BY DEF Structure!Insert
<1>2. Structure!TypeOK'
  BY <1>1 DEF StructInv, Structure!TypeOK
<1>3. /\ kind'[x] = k /\ home'[x] = b /\ refs'[x] = named
      /\ \A y \in Items \ {x} : kind'[y] = kind[y] /\ home'[y] = home[y] /\ refs'[y] = refs[y]
      /\ \A y \in Items : refs[y] \subseteq Items
      /\ \A y \in Items : NamesHold(y)
  BY <1>1 DEF StructInv, Structure!TypeOK
<1>4. Structure!There \subseteq Structure!There'
  BY <1>1, <1>3 DEF Structure!There, Structure!Kinds
<1>5. movedFrom[x] = {} /\ x \notin removed
  BY <1>1, <1>3 DEF NamesHold
<1>6. \A y \in Items : movedFrom[y] = {} /\ kind[y] \in NamedKinds => y # x
  BY <1>1 DEF NamedKinds
<1>7. NamesHold(x)'
  BY <1>1, <1>3, <1>4, <1>5, <1>6 DEF NamesHold
<1>8. ASSUME NEW y \in Items \ {x} PROVE NamesHold(y)'
  <2>1. NamesHold(y) /\ refs[y] \subseteq Items
    BY <1>3
  <2> QED
    BY <1>1, <1>3, <1>4, <1>6, <2>1 DEF NamesHold
<1> QED
  BY <1>2, <1>7, <1>8 DEF StructInv

\* Rows name others than before; nothing else is written.
LEMMA StructNames ==
    ASSUME StructInv, UNCHANGED <<standing, kind, home, removed, movedFrom>>,
           refs' \in [Items -> SUBSET Items],
           \A x \in Items :
               /\ kind[x] \in Structure!Checked /\ movedFrom[x] = {} =>
                      \A y \in refs'[x] \ refs[x] :
                          movedFrom[y] = {} => kind[y] \in NamedKinds /\ home[y] = home[x]
               /\ kind[x] \in Structure!Keyed => refs'[x] \subseteq Structure!There
               /\ x \in removed => refs'[x] = {}
    PROVE  StructInv'
<1>1. Structure!There' = Structure!There
  BY DEF Structure!There
<1>2. ASSUME NEW x \in Items PROVE NamesHold(x)'
  <2>1. NamesHold(x)
    BY DEF StructInv
  <2> QED
    BY <1>1, <2>1 DEF NamesHold
<1> QED
  BY <1>2 DEF StructInv, Structure!TypeOK

\* Rows go, and no foreign key names them any more.
LEMMA StructGo ==
    ASSUME StructInv, NEW dead \in SUBSET Structure!There, UNCHANGED <<kind, home, movedFrom>>,
           standing' \subseteq standing, removed' = removed \cup dead,
           refs' \in [Items -> SUBSET Items],
           \A x \in Items :
               /\ refs'[x] \subseteq refs[x]
               /\ x \in dead => refs'[x] = {}
               /\ kind[x] \in Structure!Keyed => refs'[x] \cap dead = {}
               /\ kind[x] \in Structure!Bound /\ x \in Structure!There \ dead /\ home[x] \in standing
                      => home[x] \in standing'
    PROVE  StructInv'
<1>1. Structure!There' = Structure!There \ dead
  BY DEF Structure!There
<1>2. \A x \in dead : x \in Items /\ kind[x] # "none"
  BY DEF Structure!There
<1>3. ASSUME NEW x \in Items PROVE NamesHold(x)'
  <2>1. NamesHold(x)
    BY DEF StructInv
  <2>2. kind[x] \in Structure!Bound /\ x \notin removed' => x \in Structure!There \ dead
    BY DEF Structure!There, Structure!Bound
  <2> QED
    BY <1>1, <1>2, <2>1, <2>2 DEF NamesHold
<1> QED
  BY <1>2, <1>3 DEF StructInv, Structure!TypeOK

LEMMA StructStep == StructInv /\ [Structure!Next]_(Structure!vars) => StructInv'
<1> SUFFICES ASSUME StructInv, [Structure!Next]_(Structure!vars) PROVE StructInv'
  OBVIOUS
<1>1. /\ standing \subseteq Sites
      /\ kind \in [Items -> Structure!Kinds \cup {"none"}]
      /\ home \in [Items -> Sites \cup {"none"}]
      /\ refs \in [Items -> SUBSET Items]
      /\ removed \subseteq Items
      /\ movedFrom \in [Items -> SUBSET (Sites \cup {"none"})]
      /\ \A x \in Items : NamesHold(x)
  BY DEF StructInv, Structure!TypeOK
<1> USE DEF Structure!Kinds, Structure!Checked, Structure!Keyed, NamedKinds
\* Rows that name nothing, or what nobody looks up
<1>2. ASSUME NEW b \in Sites, NEW x \in Items,
             \/ Structure!CreateFloor(b, x) \/ Structure!CreateTransport(b, x)
             \/ Structure!CreateOccupant(b, x) \/ Structure!CreateAsset(b, x)
             \/ Structure!CreateElement(b, x)
      PROVE  StructInv'
  BY <1>2, StructInsert DEF Structure!CreateFloor, Structure!CreateTransport, Structure!CreateOccupant,
     Structure!CreateAsset, Structure!CreateElement
<1>3. ASSUME NEW b \in Sites, NEW x \in Items,
             \/ Structure!CreateParking(b, x) \/ Structure!CreateStorage(b, x)
             \/ Structure!CreateSpace(b, x) \/ Structure!CreateSystem(b, x)
      PROVE  StructInv'
  <2>1. Structure!AnyFloor \subseteq SUBSET Items /\ \A k : Structure!Found(k, b) \subseteq Items
    BY DEF Structure!AnyFloor, Structure!Found
  <2>2. CASE Structure!CreateParking(b, x) \/ Structure!CreateStorage(b, x)
    BY <2>1, <2>2, StructInsert DEF Structure!CreateParking, Structure!CreateStorage
  <2>3. CASE Structure!CreateSpace(b, x)
    BY <2>1, <2>3, StructInsert DEF Structure!CreateSpace
  <2>4. CASE Structure!CreateSystem(b, x)
    BY <2>1, <2>4, StructInsert DEF Structure!CreateSystem
  <2> QED
    BY <1>3, <2>2, <2>3, <2>4
\* Rows that name what was looked up in the building
<1>4. ASSUME NEW b \in Sites, NEW x \in Items,
             \/ Structure!CreateUnit(b, x) \/ Structure!CreateLocation(b, x)
             \/ Structure!CreateSensorPoint(b, x) \/ Structure!CreateAlarmSource(b, x)
      PROVE  StructInv'
  <2>1. PICK k \in {"unit", "location", "point"}, l \in {"floor", "asset"}, f \in Items :
            f \in Structure!Found(l, b) /\ Structure!Insert(k, b, x, {f})
    BY <1>4 DEF Structure!CreateUnit, Structure!CreateLocation, Structure!CreateSensorPoint,
       Structure!CreateAlarmSource, Structure!Found
  <2>2. f \in Items /\ kind[f] = l /\ (movedFrom[f] = {} => home[f] = b)
    BY <2>1, FoundWhereMade
  <2>3. /\ {f} \in SUBSET Items /\ k \in Structure!Kinds
        /\ \A y \in {f} : movedFrom[y] = {} => kind[y] \in NamedKinds /\ home[y] = b
    BY <2>1, <2>2
  <2> QED
    BY <2>1, <2>3, StructInsert
<1>5. ASSUME NEW b \in Sites, NEW x \in Items, Structure!AssignOccupancy(b, x) PROVE StructInv'
  <2>1. PICK u \in Structure!Found("unit", b), c \in Structure!Found("company", b) :
            Structure!Insert("occupancy", b, x, {u, c})
    BY <1>5 DEF Structure!AssignOccupancy
  <2>2. /\ u \in Items /\ kind[u] = "unit" /\ (movedFrom[u] = {} => home[u] = b)
        /\ c \in Items /\ kind[c] = "company" /\ (movedFrom[c] = {} => home[c] = b)
    BY FoundWhereMade
  <2>3. /\ {u, c} \in SUBSET Items
        /\ \A y \in {u, c} : movedFrom[y] = {} => kind[y] \in NamedKinds /\ home[y] = b
    BY <2>2
  <2> QED
    BY <2>1, <2>3, StructInsert
<1>6. ASSUME NEW b \in Sites, NEW x \in Items, Structure!CreateContract(b, x) PROVE StructInv'
  <2>1. PICK c \in Structure!Found("company", b), us \in SUBSET Structure!Found("unit", b) :
            Structure!Insert("contract", b, x, {c} \cup us)
    BY <1>6 DEF Structure!CreateContract
  <2>2. c \in Items /\ kind[c] = "company" /\ (movedFrom[c] = {} => home[c] = b)
    BY FoundWhereMade
  <2>3. \A u \in us : u \in Items /\ kind[u] = "unit" /\ (movedFrom[u] = {} => home[u] = b)
    BY FoundWhereMade
  <2>4. {c} \cup us \in SUBSET Items
        /\ \A y \in {c} \cup us : movedFrom[y] = {} => kind[y] \in NamedKinds /\ home[y] = b
    BY <2>2, <2>3
  <2> QED
    BY <2>1, <2>4, StructInsert
<1>7. ASSUME NEW b \in Sites, NEW x \in Items, Structure!CreateEquipmentRelation(b, x) PROVE StructInv'
  <2>1. PICK p \in Items, q \in Items : Structure!Insert("relation", b, x, {p, q})
    BY <1>7 DEF Structure!CreateEquipmentRelation, Structure!Assets
  <2> QED
    BY <2>1, StructInsert
<1>8. ASSUME NEW b \in Sites, NEW x \in Items, Structure!UpsertElevatorProfile(b, x) PROVE StructInv'
  <2>1. PICK a \in Structure!Assets :
            LET old == {y \in Items : kind[y] = "profile" /\ a \in refs[y]} IN
                IF old = {} THEN Structure!Insert("profile", b, x, {a})
                ELSE /\ home' = [y \in Items |-> IF y \in old THEN b ELSE home[y]]
                     /\ UNCHANGED <<standing, kind, refs, removed, movedFrom>>
    BY <1>8 DEF Structure!UpsertElevatorProfile
  <2> DEFINE old == {y \in Items : kind[y] = "profile" /\ a \in refs[y]}
  <2>2. CASE old = {}
    <3>1. Structure!Insert("profile", b, x, {a}) /\ {a} \in SUBSET Items
      BY <2>1, <2>2 DEF Structure!Assets
    <3> QED
      BY <3>1, StructInsert
  <2>3. CASE old # {}
    <3>1. /\ home' = [y \in Items |-> IF y \in old THEN b ELSE home[y]]
          /\ UNCHANGED <<standing, kind, refs, removed, movedFrom>>
      BY <2>1, <2>3
    <3>2. \A y \in Items : kind[y] # "profile" => home'[y] = home[y]
      BY <3>1
    <3>3. home' \in [Items -> Sites \cup {"none"}] /\ Structure!There' = Structure!There
      BY <1>1, <3>1 DEF Structure!There
    <3> HIDE DEF old
    <3>4. ASSUME NEW y \in Items PROVE NamesHold(y)'
      <4>1. NamesHold(y) /\ refs[y] \subseteq Items
        BY <1>1
      <4> QED
        BY <3>1, <3>2, <3>3, <4>1 DEF NamesHold, Structure!Bound
    <3> QED
      BY <1>1, <3>1, <3>3, <3>4 DEF StructInv, Structure!TypeOK
  <2> QED
    BY <2>2, <2>3
\* Groups
<1>9. ASSUME NEW b \in Sites, NEW x \in Items, Structure!CreateUnitGroup(b, x) PROVE StructInv'
  <2>1. PICK us \in SUBSET Structure!Of("unit", b),
             named \in SUBSET (Structure!Found("company", b) \ removed) :
            /\ b \in standing /\ kind[x] = "none"
            /\ kind' = [kind EXCEPT ![x] = "group"]
            /\ home' = [home EXCEPT ![x] = b]
            /\ refs' = [y \in Items |-> IF y = x THEN named
                                        ELSE IF y \in us THEN Structure!Joined(us, x)[y] ELSE refs[y]]
            /\ UNCHANGED <<standing, removed, movedFrom>>
    BY <1>9 DEF Structure!CreateUnitGroup
  <2>2. \A u \in us : u \in Items /\ kind[u] = "unit" /\ home[u] = b /\ u \notin removed
    BY <2>1 DEF Structure!Of, Structure!There
  <2>3. ASSUME NEW c \in named
        PROVE  c \in Items /\ kind[c] = "company" /\ home[c] = b /\ c \in Structure!There
    BY <2>3, FoundWhereMade DEF Structure!There
  <2>4. /\ kind'[x] = "group" /\ home'[x] = b /\ refs'[x] = named
        /\ \A y \in Items \ {x} : kind'[y] = kind[y] /\ home'[y] = home[y]
        /\ \A y \in us : refs'[y] \subseteq refs[y] \cup {x}
        /\ \A y \in Items : y # x /\ y \notin us => refs'[y] = refs[y]
    BY <1>1, <2>1, <2>2 DEF Structure!Joined
  <2>5. x \notin removed /\ movedFrom[x] = {}
    BY <1>1, <2>1 DEF NamesHold
  <2>6. Structure!There' = Structure!There \cup {x}
    BY <2>1, <2>4, <2>5 DEF Structure!There
  <2>7. \A y \in Items : refs'[y] \subseteq Items
    BY <1>1, <2>3, <2>4
  <2>8. Structure!TypeOK'
    BY <1>1, <2>1, <2>7 DEF Structure!TypeOK
  <2>9. NamesHold(x)'
    BY <2>1, <2>3, <2>4, <2>5, <2>6 DEF NamesHold, Structure!There
  <2>10. ASSUME NEW y \in Items \ {x} PROVE NamesHold(y)'
    <3>1. NamesHold(y) /\ refs[y] \subseteq Items
      BY <1>1
    <3>2. CASE y \notin us
      <4>1. refs'[y] = refs[y]
        BY <2>4, <3>2
      <4> QED
        BY <2>1, <2>4, <2>6, <3>1, <4>1 DEF NamesHold
    <3>3. CASE y \in us
      <4>1. /\ refs'[y] \subseteq refs[y] \cup {x}
            /\ kind[y] = "unit" /\ home[y] = b /\ y \notin removed
        BY <2>2, <2>4, <3>3
      <4> QED
        BY <2>1, <2>4, <2>6, <3>1, <4>1 DEF NamesHold
    <3> QED
      BY <3>2, <3>3
  <2> QED
    BY <2>8, <2>9, <2>10 DEF StructInv
<1>10. ASSUME NEW b \in Sites, NEW g \in Items, Structure!UpdateUnitGroup(b, g) PROVE StructInv'
  <2>1. g \in Structure!Of("group", b) /\ UNCHANGED <<standing, kind, home, removed, movedFrom>>
    BY <1>10 DEF Structure!UpdateUnitGroup
  <2>2. PICK add \in SUBSET Structure!Of("unit", b), drop \in SUBSET Structure!Of("unit", b),
             named \in SUBSET (Structure!Found("company", b) \ removed) :
            refs' = [y \in Items |->
                  IF y = g THEN named
                  ELSE IF y \in drop /\ (y \in add \/ g \in refs[y])
                       THEN {z \in refs[y] : kind[z] # "group"}
                  ELSE IF y \in add THEN Structure!Joined(add, g)[y] ELSE refs[y]]
    BY <1>10 DEF Structure!UpdateUnitGroup
  <2>3. /\ kind[g] = "group" /\ home[g] = b /\ g \in Structure!There /\ g \notin removed
        /\ \A u \in add : kind[u] = "unit" /\ home[u] = b /\ u \notin removed
    BY <2>1, <2>2 DEF Structure!Of, Structure!There
  <2>4. ASSUME NEW c \in named
        PROVE  c \in Items /\ kind[c] = "company" /\ home[c] = b /\ c \in Structure!There
    BY <2>4, FoundWhereMade DEF Structure!There
  <2>5. /\ refs'[g] = named
        /\ \A x \in Items : x # g /\ x \in add => refs'[x] \subseteq refs[x] \cup {g}
        /\ \A x \in Items : x # g /\ x \notin add => refs'[x] \subseteq refs[x]
    BY <2>2 DEF Structure!Joined
  <2>6. refs' \in [Items -> SUBSET Items]
    <3>1. \A x \in Items : refs'[x] \subseteq Items
      BY <1>1, <2>4, <2>5
    <3>2. refs' = [x \in Items |-> refs'[x]]
      BY <2>2
    <3> QED
      BY <3>1, <3>2
  <2>7. ASSUME NEW x \in Items
        PROVE  /\ kind[x] \in Structure!Checked /\ movedFrom[x] = {} =>
                      \A y \in refs'[x] \ refs[x] :
                          movedFrom[y] = {} => kind[y] \in NamedKinds /\ home[y] = home[x]
               /\ kind[x] \in Structure!Keyed => refs'[x] \subseteq Structure!There
               /\ x \in removed => refs'[x] = {}
    <3>1. NamesHold(x)
      BY <1>1
    <3>2. CASE x = g
      BY <2>3, <2>4, <2>5, <3>2
    <3>3. CASE x # g /\ x \in add
      BY <2>3, <2>5, <3>1, <3>3 DEF NamesHold
    <3>4. CASE x # g /\ x \notin add
      BY <2>5, <3>1, <3>4 DEF NamesHold
    <3> QED
      BY <3>2, <3>3, <3>4
  <2> QED
    BY <2>1, <2>6, <2>7, StructNames
<1>11. ASSUME NEW b \in Sites, NEW y \in Items,
              \/ Structure!DeleteUnitGroup(b, y) \/ Structure!DeleteSpace(b, y)
              \/ Structure!DeleteElement(b, y)
       PROVE  StructInv'
  <2>1. Structure!Remove(y) /\ y \in Structure!There
    BY <1>11 DEF Structure!DeleteUnitGroup, Structure!DeleteSpace, Structure!DeleteElement, Structure!Of
  <2>2. /\ removed' = removed \cup {y} /\ UNCHANGED <<standing, kind, home, movedFrom>>
        /\ refs' = [z \in Items |-> IF z = y THEN {} ELSE refs[z] \ {y}]
    BY <2>1 DEF Structure!Remove
  <2>3. refs' \in [Items -> SUBSET Items]
    BY <1>1, <2>2
  <2> QED
    BY <2>1, <2>2, <2>3, StructGo
<1>12. ASSUME NEW b \in Sites, NEW y \in Items, Structure!UpdateSystem(b, y) \/ Structure!UpdateSpace(b, y)
       PROVE  StructInv'
  <2>1. PICK named \in SUBSET Items :
            /\ refs' = [refs EXCEPT ![y] = named]
            /\ kind[y] = "system" => named \subseteq Structure!There
    BY <1>12 DEF Structure!UpdateSystem, Structure!UpdateSpace, Structure!AnyFloor, Structure!Of,
       Structure!There
  <2>2. /\ kind[y] \in {"system", "space"} /\ y \notin removed
        /\ UNCHANGED <<standing, kind, home, removed, movedFrom>>
    BY <1>12 DEF Structure!UpdateSystem, Structure!UpdateSpace, Structure!Of, Structure!There
  <2>3. /\ refs' \in [Items -> SUBSET Items] /\ refs'[y] = named
        /\ \A x \in Items \ {y} : refs'[x] = refs[x]
    BY <1>1, <2>1
  <2>4. ASSUME NEW x \in Items
        PROVE  /\ kind[x] \in Structure!Checked /\ movedFrom[x] = {} =>
                      \A z \in refs'[x] \ refs[x] :
                          movedFrom[z] = {} => kind[z] \in NamedKinds /\ home[z] = home[x]
               /\ kind[x] \in Structure!Keyed => refs'[x] \subseteq Structure!There
               /\ x \in removed => refs'[x] = {}
    <3>1. NamesHold(x)
      BY <1>1
    <3> QED
      BY <2>1, <2>2, <2>3, <3>1 DEF NamesHold
  <2> QED
    BY <2>2, <2>3, <2>4, StructNames
\* A patch moves a unit, and whoever names it is excused from then on.
<1>13. ASSUME NEW b \in Sites, NEW u \in Items, Structure!UpdateUnit(b, u) PROVE StructInv'
  <2>1. PICK b2 \in standing, f \in Structure!There, gs \in SUBSET Structure!There :
            /\ home' = [home EXCEPT ![u] = b2]
            /\ refs' = [refs EXCEPT ![u] = {f} \cup gs]
    BY <1>13 DEF Structure!UpdateUnit
  <2>2. /\ kind[u] = "unit" /\ u \notin removed
        /\ movedFrom' = [movedFrom EXCEPT ![u] = @ \cup {home[u]}]
        /\ UNCHANGED <<standing, kind, removed>>
    BY <1>13 DEF Structure!UpdateUnit, Structure!Found
  <2>3. /\ home'[u] = b2 /\ refs'[u] = {f} \cup gs /\ movedFrom'[u] # {}
        /\ \A x \in Items \ {u} :
               home'[x] = home[x] /\ refs'[x] = refs[x] /\ movedFrom'[x] = movedFrom[x]
    BY <1>1, <2>1, <2>2
  <2>4. Structure!There' = Structure!There /\ Structure!There \subseteq Items
    BY <2>2 DEF Structure!There
  <2>5. Structure!TypeOK'
    BY <1>1, <2>1, <2>2, <2>4 DEF Structure!TypeOK
  <2>6. NamesHold(u)'
    BY <2>1, <2>2, <2>3, <2>4 DEF NamesHold
  <2>7. ASSUME NEW x \in Items \ {u} PROVE NamesHold(x)'
    <3>1. NamesHold(x) /\ refs[x] \subseteq Items
      BY <1>1
    <3> QED
      BY <2>2, <2>3, <2>4, <3>1 DEF NamesHold
  <2> QED
    BY <2>5, <2>6, <2>7 DEF StructInv
\* The destruction of a building
<1>14. ASSUME NEW b \in Sites, Structure!DeleteBuilding(b) PROVE StructInv'
  <2> DEFINE dead == Structure!Going(b)
  <2>1. /\ standing' = standing \ {b} /\ removed' = removed \cup dead
        /\ UNCHANGED <<kind, home, movedFrom>>
        /\ refs' = [x \in Items |-> IF x \in dead THEN {}
                                    ELSE IF kind[x] \in Structure!Keyed THEN refs[x] \ dead ELSE refs[x]]
    BY <1>14 DEF Structure!DeleteBuilding
  <2>2. /\ dead \subseteq Structure!There
        /\ \A x \in Structure!There : kind[x] \in Structure!Bound /\ home[x] = b => x \in dead
    BY DEF Structure!Going, Structure!UnitsOn
  <2> HIDE DEF dead
  <2>3. refs' \in [Items -> SUBSET Items]
    BY <1>1, <2>1
  <2>4. ASSUME NEW x \in Items
        PROVE  /\ refs'[x] \subseteq refs[x]
               /\ x \in dead => refs'[x] = {}
               /\ kind[x] \in Structure!Keyed => refs'[x] \cap dead = {}
               /\ kind[x] \in Structure!Bound /\ x \in Structure!There \ dead /\ home[x] \in standing
                      => home[x] \in standing'
    BY <2>1, <2>2
  <2>5. standing' \subseteq standing
    BY <2>1
  <2> QED
    BY <2>1, <2>2, <2>3, <2>4, <2>5, StructGo
<1>15. CASE UNCHANGED Structure!vars
  <2>1. Structure!There' = Structure!There
    BY <1>15 DEF Structure!vars, Structure!There
  <2> QED
    BY <1>1, <1>15, <2>1 DEF Structure!vars, StructInv, Structure!TypeOK, NamesHold
<1>16. CASE \E b \in Sites, x \in Structure!Fresh :
           \/ Structure!CreateFloor(b, x) \/ Structure!CreateUnit(b, x) \/ Structure!CreateUnitGroup(b, x)
           \/ Structure!CreateTransport(b, x) \/ Structure!CreateSystem(b, x) \/ Structure!CreateOccupant(b, x)
           \/ Structure!AssignOccupancy(b, x) \/ Structure!CreateContract(b, x) \/ Structure!CreateLocation(b, x)
           \/ Structure!CreateParking(b, x) \/ Structure!CreateStorage(b, x) \/ Structure!CreateAsset(b, x)
           \/ Structure!CreateEquipmentRelation(b, x) \/ Structure!UpsertElevatorProfile(b, x)
           \/ Structure!CreateSensorPoint(b, x) \/ Structure!CreateAlarmSource(b, x)
           \/ Structure!CreateSpace(b, x) \/ Structure!CreateElement(b, x)
  <2>1. Structure!Fresh \subseteq Items
    BY DEF Structure!Fresh
  <2> QED
    BY <1>2, <1>3, <1>4, <1>5, <1>6, <1>7, <1>8, <1>9, <1>16, <2>1
<1> QED
  BY <1>10, <1>11, <1>12, <1>13, <1>14, <1>15, <1>16 DEF Structure!Next

\* The invariant holds at first, every step keeps it, and it has what is to hold in it.
LEMMA StructInductive ==
    /\ Structure!Init => StructInv
    /\ StructInv /\ [Structure!Next]_(Structure!vars) => StructInv'
    /\ StructInv => Structure!StaysInBuilding
<1>1. Structure!Init => StructInv
  BY DEF Structure!Init, StructInv, Structure!TypeOK, NamesHold, Structure!Checked, Structure!Bound,
     Structure!Keyed
<1>2. StructInv => Structure!StaysInBuilding
  <2> SUFFICES ASSUME StructInv, NEW x \in Structure!There
               PROVE  /\ kind[x] \in Structure!Checked /\ movedFrom[x] = {} =>
                             \A y \in refs[x] : movedFrom[y] = {} =>
                                 kind[y] # "none" /\ home[y] = home[x]
                      /\ kind[x] \in Structure!Keyed => refs[x] \subseteq Structure!There
                      /\ kind[x] \in Structure!Bound => home[x] \in standing
    BY DEF Structure!StaysInBuilding
  <2>1. NamesHold(x) /\ x \notin removed
    BY DEF StructInv, Structure!There
  <2> QED
    BY <2>1 DEF NamesHold, NamedKinds
<1> QED
  BY <1>1, <1>2, StructStep

\* building-core.service.ts: a row of a checked table names rows made in its own building,
\* through every regrouping, move and destruction and however old a lookup was, unless it is a
\* unit whose columns were patched or names one; a foreign key names a row that is there.
THEOREM StaysCorrect == Structure!Spec => []Structure!StaysInBuilding
BY StructInductive, PTL DEF Structure!Spec
-----------------------------------------------------------------------------
(* Finite sets of numbers, and sums *)

\* What holds of the empty set, and of a set when it holds of it without any one of its
\* elements, holds of every subset of a finite set.
LEMMA FiniteSubsets ==
    ASSUME NEW S, IsFiniteSet(S), NEW F, {} \in F,
           \A T \in SUBSET S : T # {} /\ (\A x \in T : T \ {x} \in F) => T \in F
    PROVE  SUBSET S \subseteq F
<1> DEFINE Missing == {T \in SUBSET S : T \notin F}
           Counts == {Cardinality(T) : T \in Missing}
<1>1. \A T \in SUBSET S : IsFiniteSet(T) /\ Cardinality(T) \in Nat
  BY FS_Subset, FS_CardinalityType
<1>2. ASSUME Missing # {} PROVE FALSE
  <2>1. Counts \subseteq Nat /\ Counts # {}
    BY <1>1, <1>2
  <2>2. PICK n \in Counts : \A m \in Counts : ~(<<m, n>> \in OpToRel(<, Nat))
    <3>1. IsWellFoundedOn(OpToRel(<, Nat), Nat)
      BY NatLessThanWellFounded
    <3> HIDE DEF Counts
    <3> QED
      BY <2>1, <3>1, WFMin
  <2>3. \A m \in Counts : ~(m < n)
    BY <2>1, <2>2 DEF OpToRel
  <2>4. PICK T \in Missing : n = Cardinality(T)
    OBVIOUS
  <2>5. ASSUME NEW x \in T PROVE T \ {x} \in F
    <3>1. T \ {x} \in SUBSET S
      OBVIOUS
    <3>2. Cardinality(T \ {x}) = Cardinality(T) - 1
      BY <1>1, FS_RemoveElement
    <3>3. Cardinality(T \ {x}) < n
      BY <1>1, <2>4, <3>2
    <3> QED
      BY <2>3, <3>1, <3>3
  <2> QED
    BY <2>5
<1> QED
  BY <1>2

\* How many elements of a set of numbers are greater than x
Above(S, x) == {y \in S : y > x}

\* Of a finite set of numbers, as many as one likes have fewer than that many above them.
LEMMA RanksFilled ==
    ASSUME NEW S \in SUBSET Nat, IsFiniteSet(S), NEW n \in 0 .. Cardinality(S)
    PROVE  Cardinality({x \in S : Cardinality(Above(S, x)) < n}) = n
<1> DEFINE Top(T, k) == {x \in T : Cardinality(Above(T, x)) < k}
           F == {T \in SUBSET S : \A k \in 0 .. Cardinality(T) : Cardinality(Top(T, k)) = k}
<1>1. \A T \in SUBSET S : IsFiniteSet(T) /\ Cardinality(T) \in Nat
  BY FS_Subset, FS_CardinalityType
<1>2. {} \in F
  <2>1. \A k : Top({}, k) = {}
    OBVIOUS
  <2>2. Cardinality({}) = 0
    BY FS_EmptySet
  <2> HIDE DEF Top
  <2> QED
    BY <2>1, <2>2
<1>3. ASSUME NEW T \in SUBSET S, T # {}, \A x \in T : T \ {x} \in F PROVE T \in F
  <2>1. PICK m \in T : \A x \in T : ~(<<x, m>> \in OpToRel(<, Nat))
    BY <1>3, NatLessThanWellFounded, WFMin
  <2>2. \A x \in T : x \in Nat /\ m \in Nat /\ ~(x < m)
    BY <2>1 DEF OpToRel
  <2>3. PICK R : R = T \ {m}
    OBVIOUS
  <2>4. R \in F /\ R \in SUBSET S /\ Cardinality(R) = Cardinality(T) - 1 /\ Cardinality(T) \in Nat
    BY <1>1, <1>3, <2>3, FS_RemoveElement
  <2>5. \A x \in R : Above(R, x) = Above(T, x)
    BY <2>2, <2>3 DEF Above
  <2>6. \A x \in T : Cardinality(Above(T, x)) < Cardinality(T)
    <3> TAKE x \in T
    <3>1. Above(T, x) \subseteq T \ {x}
      BY <2>2 DEF Above
    <3>2. Cardinality(T \ {x}) = Cardinality(T) - 1 /\ IsFiniteSet(T \ {x})
      BY <1>1, FS_RemoveElement
    <3>3. Cardinality(Above(T, x)) <= Cardinality(T \ {x}) /\ Cardinality(Above(T, x)) \in Nat
      BY <3>1, <3>2, FS_Subset, FS_CardinalityType
    <3> QED
      BY <2>4, <3>2, <3>3
  <2>7. ~(Cardinality(Above(T, m)) < Cardinality(R))
    <3>1. Above(T, m) = R
      <4>1. \A x \in T : x > m <=> x # m
        BY <2>2
      <4> QED
        BY <2>3, <4>1 DEF Above
    <3>2. Cardinality(R) \in Nat
      BY <1>1, <2>4
    <3> QED
      BY <3>1, <3>2
  <2>8. ASSUME NEW k \in 0 .. Cardinality(T) PROVE Cardinality(Top(T, k)) = k
    <3>1. CASE k = Cardinality(T)
      <4>1. Top(T, k) = T
        BY <2>6, <3>1
      <4> QED
        BY <3>1, <4>1
    <3>2. CASE k # Cardinality(T)
      <4>1. k \in 0 .. Cardinality(R) /\ k \in Nat /\ Cardinality(R) \in Nat
        <5>1. Cardinality(R) \in Nat /\ Cardinality(T) \in Nat /\ Cardinality(R) = Cardinality(T) - 1
          BY <1>1, <2>4
        <5> QED
          BY <3>2, <5>1
      <4>2. ~(Cardinality(Above(T, m)) < k)
        <5>1. Cardinality(Above(T, m)) \in Nat
          BY <1>1 DEF Above
        <5> QED
          BY <2>7, <4>1, <5>1
      <4>3. Top(T, k) = Top(R, k)
        BY <2>3, <2>5, <4>2
      <4>4. Cardinality(Top(R, k)) = k
        BY <2>4, <4>1
      <4> QED
        BY <4>3, <4>4
    <3> QED
      BY <3>1, <3>2
  <2> QED
    BY <2>8
<1>4. S \in F
  <2> HIDE DEF F
  <2>1. SUBSET S \subseteq F
    BY <1>2, <1>3, FiniteSubsets
  <2> QED
    BY <2>1
<1> QED
  BY <1>4
-----------------------------------------------------------------------------
(* Sums *)

Chosen(s) == CHOOSE x \in s : TRUE
Adds(g, f, S) == g = [s \in SUBSET S |-> IF s = {} THEN 0 ELSE f[Chosen(s)] + g[s \ {Chosen(s)}]]
Tally(f, S) == (CHOOSE g : Adds(g, f, S))[S]

LEMMA ChosenIsElement == \A s : s # {} => Chosen(s) \in s
BY DEF Chosen

LEMMA AddsExists ==
    ASSUME NEW S, IsFiniteSet(S), NEW f, \A x \in S : f[x] \in Int
    PROVE  \E g \in [SUBSET S -> Int] : Adds(g, f, S)
<1> DEFINE Sum(g, s) == IF s = {} THEN 0 ELSE f[Chosen(s)] + g[s \ {Chosen(s)}]
           Upto(g, n) == \A s \in SUBSET S : Cardinality(s) <= n => g[s] = Sum(g, s)
           N == {n \in Nat : \E g \in [SUBSET S -> Int] : Upto(g, n)}
<1>1. \A s \in SUBSET S : IsFiniteSet(s) /\ Cardinality(s) \in Nat
  BY FS_Subset, FS_CardinalityType
<1>2. 0 \in N
  <2>1. \A s \in SUBSET S : Cardinality(s) <= 0 => s = {}
    BY <1>1, FS_EmptySet
  <2>2. PICK g : g = [s \in SUBSET S |-> 0]
    OBVIOUS
  <2>3. g \in [SUBSET S -> Int] /\ Upto(g, 0)
    BY <2>1, <2>2
  <2> QED
    BY <2>3
<1>3. ASSUME NEW n \in N PROVE n + 1 \in N
  <2>1. PICK g \in [SUBSET S -> Int] : Upto(g, n)
    OBVIOUS
  <2>2. PICK h : h = [s \in SUBSET S |-> Sum(g, s)]
    OBVIOUS
  <2>3. \A s \in SUBSET S : s # {} => Chosen(s) \in s /\ Chosen(s) \in S /\ s \ {Chosen(s)} \in SUBSET S
    BY ChosenIsElement
  <2>4. h \in [SUBSET S -> Int]
    BY <2>2, <2>3
  <2>5. ASSUME NEW s \in SUBSET S, Cardinality(s) <= n + 1 PROVE h[s] = Sum(h, s)
    <3>1. CASE s = {}
      BY <2>2, <3>1
    <3>2. CASE s # {}
      <4>1. PICK r : r = s \ {Chosen(s)}
        OBVIOUS
      <4>2. r \in SUBSET S /\ Cardinality(r) = Cardinality(s) - 1
        BY <1>1, <2>3, <3>2, <4>1, FS_RemoveElement
      <4>3. Cardinality(r) <= n
        BY <1>1, <2>5, <4>2
      <4>4. h[r] = Sum(g, r) /\ g[r] = Sum(g, r)
        BY <2>1, <2>2, <4>2, <4>3
      <4> QED
        BY <2>2, <3>2, <4>1, <4>4
    <3> QED
      BY <3>1, <3>2
  <2>6. Upto(h, n + 1)
    BY <2>5
  <2> QED
    BY <2>4, <2>6
<1>4. Cardinality(S) \in N
  <2>1. Cardinality(S) \in Nat
    BY <1>1
  <2>2. \A n \in Nat : n \in N
    <3> DEFINE P(n) == n \in N
    <3>1. PICK Missing \in SUBSET Nat : Missing = Nat \ N
      OBVIOUS
    <3>2. ASSUME Missing # {} PROVE FALSE
      <4>1. PICK n \in Missing : \A m \in Missing : ~(<<m, n>> \in OpToRel(<, Nat))
        BY <3>2, NatLessThanWellFounded, WFMin
      <4>2. n \in Nat /\ n # 0 /\ n \notin N
        BY <1>2, <3>1, <4>1
      <4>3. n - 1 \in Nat /\ n - 1 < n /\ n - 1 + 1 = n
        BY <4>2
      <4>4. n - 1 \in N
        BY <3>1, <4>1, <4>3 DEF OpToRel
      <4> HIDE DEF N
      <4>5. n - 1 + 1 \in N
        BY <1>3, <4>4
      <4> QED
        BY <4>2, <4>3, <4>5
    <3> QED
      BY <3>1, <3>2
  <2> QED
    BY <2>1, <2>2
<1>5. PICK g \in [SUBSET S -> Int] : Upto(g, Cardinality(S))
  BY <1>4
<1>6. \A s \in SUBSET S : Cardinality(s) <= Cardinality(S)
  BY FS_Subset
<1>7. \A s \in SUBSET S : g[s] = Sum(g, s)
  BY <1>5, <1>6
<1> QED
  BY <1>7 DEF Adds

LEMMA AddsUnique ==
    ASSUME NEW S, IsFiniteSet(S), NEW f, NEW g, NEW h, Adds(g, f, S), Adds(h, f, S)
    PROVE  \A s \in SUBSET S : g[s] = h[s]
<1> DEFINE F == {s \in SUBSET S : g[s] = h[s]}
<1>1. \A s \in SUBSET S : /\ g[s] = IF s = {} THEN 0 ELSE f[Chosen(s)] + g[s \ {Chosen(s)}]
                          /\ h[s] = IF s = {} THEN 0 ELSE f[Chosen(s)] + h[s \ {Chosen(s)}]
  BY DEF Adds
<1>2. {} \in F
  BY <1>1
<1>3. ASSUME NEW s \in SUBSET S, s # {}, \A x \in s : s \ {x} \in F PROVE s \in F
  <2>1. s \ {Chosen(s)} \in F
    BY <1>3, ChosenIsElement
  <2> QED
    BY <1>1, <1>3, <2>1
<1>4. SUBSET S \subseteq F
  <2> HIDE DEF F
  <2> QED
    BY <1>2, <1>3, FiniteSubsets
<1> QED
  BY <1>4

\* One function has the sums of all subsets.
AllSums(g, f, S) ==
    g \in [SUBSET S -> Int] /\ Adds(g, f, S) /\ \A T \in SUBSET S : Tally(f, T) = g[T]

LEMMA TallyIsSum ==
    ASSUME NEW S, IsFiniteSet(S), NEW f, \A x \in S : f[x] \in Int
    PROVE  \E g : AllSums(g, f, S)
<1>1. PICK g \in [SUBSET S -> Int] : Adds(g, f, S)
  BY AddsExists
<1>2. ASSUME NEW T \in SUBSET S PROVE Tally(f, T) = g[T]
  <2>1. PICK h : h = [s \in SUBSET T |-> g[s]]
    OBVIOUS
  <2>2. \A s \in SUBSET T : g[s] = IF s = {} THEN 0 ELSE f[Chosen(s)] + g[s \ {Chosen(s)}]
    BY <1>1 DEF Adds
  <2>3. h = [s \in SUBSET T |-> IF s = {} THEN 0 ELSE f[Chosen(s)] + h[s \ {Chosen(s)}]]
    <3>1. \A s \in SUBSET T : s \ {Chosen(s)} \in SUBSET T
      OBVIOUS
    <3>2. \A s \in SUBSET T : h[s] = IF s = {} THEN 0 ELSE f[Chosen(s)] + h[s \ {Chosen(s)}]
      BY <2>1, <2>2, <3>1
    <3> QED
      BY <2>1, <3>2
  <2>4. Adds(h, f, T)
    BY <2>3 DEF Adds
  <2>5. PICK k : k = CHOOSE i : Adds(i, f, T)
    OBVIOUS
  <2>6. Adds(k, f, T)
    BY <2>4, <2>5
  <2>7. IsFiniteSet(T)
    BY FS_Subset
  <2>8. k[T] = h[T]
    BY <2>4, <2>6, <2>7, AddsUnique
  <2> QED
    BY <2>1, <2>5, <2>8 DEF Tally
<1> QED
  BY <1>1, <1>2 DEF AllSums

LEMMA TallyOfNone ==
    ASSUME NEW f
    PROVE  Tally(f, {}) = 0
<1>1. IsFiniteSet({}) /\ {} \in SUBSET {}
  BY FS_EmptySet
<1>2. PICK g : AllSums(g, f, {})
  BY <1>1, TallyIsSum
<1> QED
  BY <1>1, <1>2 DEF AllSums, Adds

\* Any element can be taken out first.
LEMMA TallyStep ==
    ASSUME NEW S, IsFiniteSet(S), NEW f, \A x \in S : f[x] \in Int
    PROVE  \A T \in SUBSET S : /\ Tally(f, T) \in Int
                               /\ \A x \in T : Tally(f, T) = f[x] + Tally(f, T \ {x})
<1>1. PICK g : AllSums(g, f, S)
  BY TallyIsSum
<1>2. \A T \in SUBSET S : Tally(f, T) \in Int
  BY <1>1 DEF AllSums
<1>3. \A T \in SUBSET S : T # {} => Tally(f, T) = f[Chosen(T)] + Tally(f, T \ {Chosen(T)})
  BY <1>1 DEF AllSums, Adds
<1> DEFINE F == {T \in SUBSET S : \A x \in T : Tally(f, T) = f[x] + Tally(f, T \ {x})}
<1>4. {} \in F
  OBVIOUS
<1>5. ASSUME NEW T \in SUBSET S, T # {}, \A x \in T : T \ {x} \in F PROVE T \in F
  <2>1. PICK y \in T : y = Chosen(T)
    BY <1>5, ChosenIsElement
  <2>2. Tally(f, T) = f[y] + Tally(f, T \ {y})
    BY <1>3, <1>5, <2>1
  <2>3. ASSUME NEW x \in T, x # y PROVE Tally(f, T) = f[x] + Tally(f, T \ {x})
    <3>1. /\ Tally(f, T \ {y}) = f[x] + Tally(f, (T \ {y}) \ {x})
          /\ Tally(f, T \ {x}) = f[y] + Tally(f, (T \ {x}) \ {y})
      BY <1>5, <2>3
    <3>2. (T \ {y}) \ {x} = (T \ {x}) \ {y} /\ (T \ {x}) \ {y} \in SUBSET S
      OBVIOUS
    <3>3. f[x] \in Int /\ f[y] \in Int /\ Tally(f, (T \ {x}) \ {y}) \in Int
      BY <1>2, <3>2
    <3>4. PICK r \in Int : r = Tally(f, (T \ {x}) \ {y})
      BY <3>3
    <3>5. Tally(f, T) = f[y] + (f[x] + r) /\ Tally(f, T \ {x}) = f[y] + r
      BY <2>2, <3>1, <3>2, <3>4
    <3> QED
      BY <3>3, <3>5
  <2> QED
    BY <2>2, <2>3
<1>6. SUBSET S \subseteq F
  <2> HIDE DEF F
  <2> QED
    BY <1>4, <1>5, FiniteSubsets
<1> QED
  BY <1>2, <1>6

\* The parts of a whole add up.
LEMMA TallyOfParts ==
    ASSUME NEW A, NEW B, IsFiniteSet(A), IsFiniteSet(B), A \cap B = {},
           NEW f, \A x \in A \cup B : f[x] \in Int
    PROVE  Tally(f, A \cup B) = Tally(f, A) + Tally(f, B)
<1> DEFINE F == {T \in SUBSET B : Tally(f, A \cup T) = Tally(f, A) + Tally(f, T)}
<1>1. IsFiniteSet(A \cup B)
  BY FS_Union
<1>2. \A T \in SUBSET (A \cup B) : /\ Tally(f, T) \in Int
                                   /\ \A x \in T : Tally(f, T) = f[x] + Tally(f, T \ {x})
  BY <1>1, TallyStep
<1>3. {} \in F
  <2>1. Tally(f, {}) = 0 /\ A \cup {} = A /\ Tally(f, A) \in Int
    BY <1>2, TallyOfNone
  <2> QED
    BY <2>1
<1>4. ASSUME NEW T \in SUBSET B, T # {}, \A x \in T : T \ {x} \in F PROVE T \in F
  <2>1. PICK x \in T : TRUE
    BY <1>4
  <2>2. Tally(f, A \cup (T \ {x})) = Tally(f, A) + Tally(f, T \ {x})
    BY <1>4
  <2>3. (A \cup T) \ {x} = A \cup (T \ {x})
    OBVIOUS
  <2>4. Tally(f, A \cup T) = f[x] + Tally(f, (A \cup T) \ {x}) /\ Tally(f, T) = f[x] + Tally(f, T \ {x})
    BY <1>2
  <2>5. Tally(f, A) \in Int /\ Tally(f, T \ {x}) \in Int /\ f[x] \in Int
    BY <1>2
  <2>6. PICK p \in Int : p = Tally(f, A)
    BY <2>5
  <2>7. PICK q \in Int : q = Tally(f, T \ {x})
    BY <2>5
  <2>8. Tally(f, A \cup T) = f[x] + (p + q) /\ Tally(f, T) = f[x] + q
    BY <2>2, <2>3, <2>4, <2>6, <2>7
  <2>9. Tally(f, A \cup T) = Tally(f, A) + Tally(f, T)
    BY <2>5, <2>6, <2>7, <2>8
  <2> QED
    BY <2>9
<1>5. SUBSET B \subseteq F
  <2> HIDE DEF F
  <2> QED
    BY <1>3, <1>4, FiniteSubsets
<1> QED
  BY <1>5

\* A sum of differences is the difference of the sums.
LEMMA TallyIsLinear ==
    ASSUME NEW S, IsFiniteSet(S), NEW f, NEW g, NEW h, NEW a \in Int, NEW b \in Int,
           \A x \in S : f[x] \in Int /\ g[x] \in Int /\ h[x] = a * f[x] + b * g[x]
    PROVE  Tally(h, S) = a * Tally(f, S) + b * Tally(g, S)
<1> DEFINE F == {T \in SUBSET S : Tally(h, T) = a * Tally(f, T) + b * Tally(g, T)}
<1>1. \A x \in S : h[x] \in Int
  OBVIOUS
<1>2. \A T \in SUBSET S :
          /\ Tally(f, T) \in Int /\ \A x \in T : Tally(f, T) = f[x] + Tally(f, T \ {x})
          /\ Tally(g, T) \in Int /\ \A x \in T : Tally(g, T) = g[x] + Tally(g, T \ {x})
          /\ Tally(h, T) \in Int /\ \A x \in T : Tally(h, T) = h[x] + Tally(h, T \ {x})
  BY <1>1, TallyStep
<1>3. {} \in F
  BY TallyOfNone
<1>4. ASSUME NEW T \in SUBSET S, T # {}, \A x \in T : T \ {x} \in F PROVE T \in F
  <2>1. PICK x \in T : TRUE
    BY <1>4
  <2>2. Tally(h, T \ {x}) = a * Tally(f, T \ {x}) + b * Tally(g, T \ {x})
    BY <1>4
  <2>3. /\ Tally(f, T) = f[x] + Tally(f, T \ {x}) /\ Tally(g, T) = g[x] + Tally(g, T \ {x})
        /\ Tally(h, T) = h[x] + Tally(h, T \ {x}) /\ h[x] = a * f[x] + b * g[x]
        /\ f[x] \in Int /\ g[x] \in Int
    BY <1>2
  <2>4. PICK p \in Int : p = Tally(f, T \ {x})
    BY <1>2
  <2>5. PICK q \in Int : q = Tally(g, T \ {x})
    BY <1>2
  <2>6. a * (f[x] + p) + b * (g[x] + q) = (a * f[x] + b * g[x]) + (a * p + b * q)
    BY <2>3
  <2> QED
    BY <2>2, <2>3, <2>4, <2>5, <2>6
<1>5. SUBSET S \subseteq F
  <2> HIDE DEF F
  <2> QED
    BY <1>3, <1>4, FiniteSubsets
<1> QED
  BY <1>5

\* A sum of what is not negative is at least each of it.
LEMMA TallyIsPositive ==
    ASSUME NEW S, IsFiniteSet(S), NEW f, \A x \in S : f[x] \in Nat
    PROVE  Tally(f, S) \in Nat /\ \A x \in S : Tally(f, S) >= f[x]
<1> DEFINE F == {T \in SUBSET S : Tally(f, T) \in Nat}
<1>a. \A x \in S : f[x] \in Int
  OBVIOUS
<1>b. \A T \in SUBSET S : /\ Tally(f, T) \in Int
                         /\ \A x \in T : Tally(f, T) = f[x] + Tally(f, T \ {x})
  BY <1>a, TallyStep
<1>1. \A T \in SUBSET S : \A x \in T : Tally(f, T) = f[x] + Tally(f, T \ {x})
  BY <1>b
<1>2. {} \in F
  BY TallyOfNone
<1>3. ASSUME NEW T \in SUBSET S, T # {}, \A x \in T : T \ {x} \in F PROVE T \in F
  <2>1. PICK x \in T : TRUE
    BY <1>3
  <2>2. Tally(f, T) = f[x] + Tally(f, T \ {x}) /\ Tally(f, T \ {x}) \in Nat
    BY <1>1, <1>3
  <2> QED
    BY <2>2
<1>4. SUBSET S \subseteq F
  <2> HIDE DEF F
  <2> QED
    BY <1>2, <1>3, FiniteSubsets
<1>5. ASSUME NEW x \in S PROVE Tally(f, S) >= f[x]
  <2>1. Tally(f, S) = f[x] + Tally(f, S \ {x}) /\ Tally(f, S \ {x}) \in Nat
    BY <1>1, <1>4
  <2> QED
    BY <2>1
<1> QED
  BY <1>4, <1>5
-----------------------------------------------------------------------------
(* Connectors: the file of an accountant *)

\* A row in a file
RowHolds(r) ==
    /\ r = <<r[1], r[2], r[3]>> /\ r[1] \in Dates \X Dates
    /\ r[2] \in Bills /\ bill[r[2]] = "approved"
    /\ Connector!Within(BillDate[r[2]], r[1])
    /\ r[3] = Connector!Net(r[2])

FileInv ==
    /\ bill = [i \in Bills |-> bill[i]]
    /\ fetched \subseteq Dates \X Dates
    /\ \A r \in rows : RowHolds(r)
    /\ \A i \in Bills, p \in fetched :
           bill[i] = "approved" /\ Connector!Within(BillDate[i], p) /\ i \notin late
               => <<p, i, Connector!Net(i)>> \in rows

\* The invariant holds at first, every step keeps it, and it has what is to hold in it.
LEMMA FileInductive ==
    ASSUME BillsAreDated
    PROVE  /\ Connector!ExportInit => FileInv
           /\ FileInv /\ [Connector!ExportNext]_(Connector!exportVars) => FileInv'
           /\ FileInv => Connector!FilesAreComplete
<1>1. Connector!ExportInit => FileInv
  BY DEF Connector!ExportInit, FileInv
<1>2. ASSUME FileInv, [Connector!ExportNext]_(Connector!exportVars) PROVE FileInv'
  <2> USE <1>2
  <2>1. ASSUME NEW i \in Bills, NEW status \in {"approved", "rejected"}, Connector!Decide(i, status)
        PROVE  FileInv'
    <3>1. /\ bill[i] = "pending" /\ bill'[i] = status /\ \A j \in Bills \ {i} : bill'[j] = bill[j]
          /\ bill' = [j \in Bills |-> bill'[j]]
          /\ UNCHANGED <<fetched, rows>>
      BY <2>1 DEF Connector!Decide, FileInv
    <3>2. \A p \in fetched : Connector!Within(BillDate[i], p) => i \in late'
      BY <2>1 DEF Connector!Decide, Connector!Within
    <3>3. late \subseteq late'
      BY <2>1 DEF Connector!Decide
    <3>4. \A r \in rows : r[2] # i
      BY <3>1 DEF FileInv, RowHolds
    <3>5. \A r \in rows' : RowHolds(r)'
      BY <3>1, <3>4 DEF FileInv, RowHolds
    <3> QED
      BY <3>1, <3>2, <3>3, <3>5 DEF FileInv
  <2>2. ASSUME NEW from \in Dates, NEW to \in Dates, Connector!ExportAccounting(<<from, to>>)
        PROVE  FileInv'
    <3>a. PICK period \in Dates \X Dates : period = <<from, to>>
      OBVIOUS
    <3>b. PICK new : new = {<<period, i, Connector!Net(i)>> : i \in
                               {j \in Bills : bill[j] = "approved" /\ Connector!Within(BillDate[j], period)}}
      OBVIOUS
    <3>1. fetched' = fetched \cup {period} /\ rows' = rows \cup new /\ UNCHANGED <<bill, late>>
      BY <2>2, <3>a, <3>b DEF Connector!ExportAccounting
    <3>2. \A r \in rows : RowHolds(r)'
      BY <3>1 DEF FileInv, RowHolds
    <3>3. ASSUME NEW r \in new PROVE RowHolds(r)'
      <4>1. PICK i \in Bills : /\ r = <<period, i, Connector!Net(i)>>
                               /\ bill[i] = "approved" /\ Connector!Within(BillDate[i], period)
        BY <3>b
      <4>2. r[1] = period /\ r[2] = i /\ r[3] = Connector!Net(i) /\ period \in Dates \X Dates
        BY <4>1, <3>a
      <4> QED
        BY <3>1, <4>1, <4>2 DEF RowHolds
    <3>4. \A i \in Bills : bill[i] = "approved" /\ Connector!Within(BillDate[i], period)
                               => <<period, i, Connector!Net(i)>> \in new
      BY <3>b
    <3> QED
      BY <3>1, <3>2, <3>3, <3>4 DEF FileInv
  <2>3. CASE UNCHANGED Connector!exportVars
    <3>1. UNCHANGED <<bill, fetched, rows, late>>
      BY <2>3 DEF Connector!exportVars
    <3> QED
      BY <3>1 DEF FileInv, RowHolds
  <2>4. CASE Connector!ExportNext
    <3>1. CASE \E i \in Bills, status \in {"approved", "rejected"} : Connector!Decide(i, status)
      BY <2>1, <3>1
    <3>2. ASSUME NEW period \in Dates \X Dates, Connector!ExportAccounting(period) PROVE FileInv'
      <4>1. PICK from \in Dates, to \in Dates : period = <<from, to>>
        OBVIOUS
      <4> QED
        BY <2>2, <3>2, <4>1
    <3> QED
      BY <2>4, <3>1, <3>2 DEF Connector!ExportNext
  <2> QED
    BY <2>3, <2>4
<1>3. ASSUME FileInv PROVE Connector!FilesAreComplete
  <2>1. \A i \in Bills, p \in fetched :
           bill[i] = "approved" /\ p[1] <= BillDate[i] /\ BillDate[i] <= p[2] /\ i \notin late
               => <<p, i, Connector!Net(i)>> \in rows
    BY <1>3 DEF FileInv, Connector!Within
  <2>2. ASSUME NEW r \in rows
        PROVE  /\ r[2] \in Bills /\ bill[r[2]] = "approved" /\ BillDate[r[2]] \in Int
               /\ r[1][1] \in Int /\ r[1][2] \in Int
               /\ BillDate[r[2]] >= r[1][1] /\ BillDate[r[2]] <= r[1][2]
               /\ r[3] + (IF Tax[r[2]] = -1 THEN 0 ELSE Tax[r[2]]) = Gross[r[2]]
    <3>1. RowHolds(r)
      BY <1>3 DEF FileInv
    <3> QED
      BY <3>1 DEF RowHolds, Connector!Within, Connector!Net, BillsAreDated
  <2>3. \A r, q \in rows : r[2] = q[2] /\ r[1][2] = q[1][1] => BillDate[r[2]] = r[1][2]
    BY <2>2
  <2> QED
    BY <2>1, <2>2, <2>3 DEF Connector!FilesAreComplete
<1> QED
  BY <1>1, <1>2, <1>3
-----------------------------------------------------------------------------
(* WorkLists: the inbox, page by page *)

LEMMA CardinalityOfLists == \A S : Lists!Cardinality(S) = Cardinality(S)
BY DEF Lists!Cardinality, Cardinality

\* Open tasks due before w
Ahead(w) == {x \in Visits : item[x] \in Lists!OpenVisit /\ When[x] < When[w]}

\* A task due before w was completed since the first page.
Freed(w) == \E t \in finished : When[t] < When[w]

InboxTypes ==
    /\ item = [w \in Visits \cup Tickets |-> item[w]]
    /\ reader \in [role : BOOLEAN, cursor : Nat, shown : SUBSET (Visits \cup Tickets)]
    /\ notes \subseteq Visits
    /\ trail \in [Visits -> SUBSET {"task"}]

\* Once there was a first page, what it had no room for has a page of tasks ahead.
WaitHolds ==
    reader.cursor # 0 =>
        /\ \A c \in Tickets : item[c] \in Lists!OpenCase => c \in first
        /\ reader.role => \A w \in Visits : item[w] \in Lists!OpenVisit /\ w \notin first =>
               Freed(w) \/ Cardinality(Ahead(w)) >= PageSize

InboxInv ==
    /\ InboxTypes
    /\ WaitHolds
    /\ reader.cursor = 0 => reader.shown = {}
    /\ \A w \in reader.shown \ first : Freed(w)
    /\ \A t \in notes : t \in refused \/ trail[t] # {}
    /\ \A t \in Strict : item[t] # "completed"

LEMMA AheadIsFinite ==
    ASSUME VisitsAreDated
    PROVE  \A w : IsFiniteSet(Ahead(w)) /\ Cardinality(Ahead(w)) \in Nat
<1>1. IsFiniteSet(Visits)
  BY DEF VisitsAreDated
<1>2. \A w : IsFiniteSet(Ahead(w))
  BY <1>1, FS_Subset DEF Ahead
<1> QED
  BY <1>2, FS_CardinalityType

\* A step after which everything that was open is open, and everything new is on the first page.
LEMMA WaitKept ==
    ASSUME VisitsAreDated, WaitHolds, reader'.cursor = reader.cursor, reader'.role => reader.role,
           first \subseteq first', finished \subseteq finished',
           \A c \in Tickets : item'[c] \in Lists!OpenCase =>
               item[c] \in Lists!OpenCase \/ reader.cursor = 0 \/ c \in first',
           \A x \in Visits : item[x] \in Lists!OpenVisit => item'[x] \in Lists!OpenVisit,
           \A x \in Visits : item'[x] \in Lists!OpenVisit =>
               item[x] \in Lists!OpenVisit \/ reader.cursor = 0 \/ x \in first'
    PROVE  WaitHolds'
<1>1. ASSUME NEW w \in Visits, Cardinality(Ahead(w)) >= PageSize
      PROVE  Cardinality(Ahead(w)') >= PageSize
  <2>1. Ahead(w) \subseteq Ahead(w)'
    BY DEF Ahead
  <2>2. IsFiniteSet(Ahead(w)') /\ Cardinality(Ahead(w)') \in Nat /\ Cardinality(Ahead(w)) \in Nat
    <3>1. IsFiniteSet(Visits)
      BY DEF VisitsAreDated
    <3>2. Ahead(w)' \subseteq Visits /\ Ahead(w) \subseteq Visits
      BY DEF Ahead
    <3> QED
      BY <3>1, <3>2, FS_Subset, FS_CardinalityType
  <2>3. Cardinality(Ahead(w)) <= Cardinality(Ahead(w)')
    BY <2>1, <2>2, FS_Subset
  <2> QED
    BY <1>1, <2>2, <2>3 DEF VisitsAreDated
<1>2. \A w : Freed(w) => Freed(w)'
  BY DEF Freed
<1> QED
  BY <1>1, <1>2 DEF WaitHolds

LEMMA ApplyStep ==
    ASSUME VisitsAreDated, InboxInv, NEW t \in Visits, NEW to \in {"in_progress", "paused", "completed"},
           NEW comment \in BOOLEAN, Lists!ApplyTransition(t, to, comment)
    PROVE  InboxInv'
<1>a. PICK moves \in BOOLEAN : moves <=> item[t] \in Lists!Source(t, to)
  <2>1. CASE item[t] \in Lists!Source(t, to)
    BY <2>1
  <2>2. CASE item[t] \notin Lists!Source(t, to)
    BY <2>2
  <2> QED
    BY <2>1, <2>2
<1>1. /\ item' = IF moves THEN [item EXCEPT ![t] = to] ELSE item
      /\ trail' = IF moves THEN [trail EXCEPT ![t] = @ \cup {"task"}] ELSE trail
      /\ notes' = IF comment THEN notes \cup {t} ELSE notes
      /\ refused' = IF comment /\ ~moves THEN refused \cup {t} ELSE refused
      /\ first' = IF moves /\ item[t] \notin Lists!OpenVisit THEN first \cup {t} ELSE first
      /\ finished' = IF moves /\ to \notin Lists!OpenVisit /\ reader.cursor # 0
                     THEN finished \cup {t} ELSE finished
      /\ UNCHANGED reader
  BY <1>a DEF Lists!ApplyTransition
<1>2. moves => /\ item[t] \in Lists!OpenVisit
               /\ to \in Lists!OpenVisit <=> to # "completed"
               /\ t \in Strict => to # "completed"
  BY <1>a DEF Lists!Source, Lists!OpenVisit
<1>3. InboxTypes'
  <2>1. item' = [w \in Visits \cup Tickets |-> item'[w]]
    BY <1>1 DEF InboxInv, InboxTypes
  <2>2. trail' \in [Visits -> SUBSET {"task"}]
    BY <1>1 DEF InboxInv, InboxTypes
  <2> QED
    BY <1>1, <2>1, <2>2 DEF InboxInv, InboxTypes
<1>4. /\ \A w \in Visits \cup Tickets : item'[w] = IF moves /\ w = t THEN to ELSE item[w]
      /\ \A w \in Visits : trail'[w] = IF moves /\ w = t THEN trail[w] \cup {"task"} ELSE trail[w]
  BY <1>1 DEF InboxInv, InboxTypes
<1>5. first' = first /\ finished \subseteq finished'
  BY <1>1, <1>2
<1>6. WaitHolds'
  <2>1. \A c \in Tickets : item'[c] = item[c]
    BY <1>4 DEF VisitsAreDated
  <2>2. CASE ~moves \/ to # "completed"
    <3>1. \A x \in Visits : item'[x] \in Lists!OpenVisit <=> item[x] \in Lists!OpenVisit
      BY <1>2, <1>4, <2>2
    <3> QED
      BY <1>1, <1>5, <2>1, <3>1, WaitKept DEF InboxInv
  <2>3. CASE moves /\ to = "completed"
    <3>1. \A x \in Visits \ {t} : item'[x] = item[x]
      BY <1>4
    <3>2. item'[t] \notin Lists!OpenVisit /\ (reader.cursor # 0 => t \in finished')
      BY <1>1, <1>2, <1>4, <2>3
    <3>3. ASSUME NEW w \in Visits, ~(When[t] < When[w]) PROVE Ahead(w)' = Ahead(w)
      BY <3>1, <3>3 DEF Ahead
    <3>4. ASSUME NEW w \in Visits, reader.cursor # 0, Freed(w) \/ Cardinality(Ahead(w)) >= PageSize
          PROVE  Freed(w)' \/ Cardinality(Ahead(w)') >= PageSize
      <4>1. CASE When[t] < When[w]
        BY <3>2, <3>4, <4>1 DEF Freed
      <4>2. CASE ~(When[t] < When[w])
        BY <1>5, <3>3, <3>4, <4>2 DEF Freed
      <4> QED
        BY <4>1, <4>2
    <3> QED
      BY <1>1, <1>5, <2>1, <3>1, <3>2, <3>4 DEF InboxInv, WaitHolds
  <2> QED
    BY <2>2, <2>3
<1>7. \A w \in reader'.shown \ first' : Freed(w)'
  BY <1>1, <1>5 DEF InboxInv, Freed
<1>8. \A x \in notes' : x \in refused' \/ trail'[x] # {}
  BY <1>1, <1>4 DEF InboxInv, InboxTypes
<1>9. \A x \in Strict : item'[x] # "completed"
  BY <1>2, <1>4 DEF InboxInv, VisitsAreDated
<1> QED
  BY <1>1, <1>3, <1>6, <1>7, <1>8, <1>9 DEF InboxInv

LEMMA PageStep ==
    ASSUME VisitsAreDated, InboxInv, Lists!Inbox
    PROVE  InboxInv'
<1>a. PICK page : page = Lists!Leg(reader.cursor) \cup Lists!OwnCases(reader.cursor)
  OBVIOUS
<1>b. PICK last \in page : reader' = [role |-> reader.role, shown |-> reader.shown \cup page, cursor |-> When[last]]
  BY <1>a DEF Lists!Inbox
<1>c. /\ first' = IF reader.cursor = 0 THEN page ELSE first
      /\ UNCHANGED <<item, finished, notes, refused, trail>>
  BY <1>a DEF Lists!Inbox
<1>d. reader.role \in BOOLEAN /\ reader.cursor \in Nat /\ reader.shown \subseteq Visits \cup Tickets
  BY DEF InboxInv, InboxTypes
<1>e. \A w \in Visits : When[w] \in Nat \ {0}
  BY DEF VisitsAreDated
<1>1. /\ \A w \in page : \/ /\ w \in Tickets /\ item[w] \in Lists!OpenCase
                         \/ /\ w \in Visits /\ reader.role /\ item[w] \in Lists!OpenVisit
                            /\ ~(Cardinality(Ahead(w)) >= PageSize)
      /\ reader.cursor = 0 /\ reader.role => \A w \in Visits :
             item[w] \in Lists!OpenVisit /\ w \notin page => Cardinality(Ahead(w)) >= PageSize
      /\ reader.cursor = 0 => \A w \in Tickets : item[w] \in Lists!OpenCase => w \in page
  <2>a. PICK due : due = {t \in Visits : /\ reader.role /\ item[t] \in Lists!OpenVisit
                                         /\ reader.cursor # 0 => When[t] < reader.cursor}
    OBVIOUS
  <2>1. Lists!Leg(reader.cursor) = {w \in due : Cardinality({x \in due : When[x] < When[w]}) < PageSize}
    BY <2>a, CardinalityOfLists DEF Lists!Leg, Lists!Page
  <2>2. ASSUME NEW w \in due PROVE {x \in due : When[x] < When[w]} = Ahead(w)
    <3>1. \A x \in Visits : When[x] < When[w] /\ (reader.cursor # 0 => When[w] < reader.cursor)
              => (reader.cursor # 0 => When[x] < reader.cursor)
      BY <1>d, <1>e, <2>a
    <3> QED
      BY <2>a, <3>1 DEF Ahead
  <2>3. \A w : Cardinality(Ahead(w)) \in Nat
    BY AheadIsFinite
  <2>4. PageSize \in Nat
    BY DEF VisitsAreDated
  <2>5. \A w \in due : w \in Lists!Leg(reader.cursor) <=> ~(Cardinality(Ahead(w)) >= PageSize)
    BY <2>1, <2>2, <2>3, <2>4
  <2>6. \A w \in Lists!OwnCases(reader.cursor) : w \in Tickets /\ item[w] \in Lists!OpenCase
    BY DEF Lists!OwnCases
  <2>7. reader.cursor = 0 => \A w \in Tickets : item[w] \in Lists!OpenCase => w \in Lists!OwnCases(reader.cursor)
    BY DEF Lists!OwnCases
  <2>8. Lists!Leg(reader.cursor) \subseteq due
    BY <2>1
  <2> QED
    BY <1>a, <2>a, <2>5, <2>6, <2>7, <2>8
<1>2. page \subseteq Visits \cup Tickets /\ When[last] \in Nat \ {0}
  <2>1. page \subseteq Visits \cup Tickets
    BY <1>1
  <2> QED
    BY <1>b, <2>1 DEF VisitsAreDated
<1>3. /\ reader'.role = reader.role /\ reader'.shown = reader.shown \cup page /\ reader'.cursor = When[last]
      /\ reader' \in [role : BOOLEAN, cursor : Nat, shown : SUBSET (Visits \cup Tickets)]
  BY <1>b, <1>d, <1>2
<1>4. InboxTypes'
  BY <1>c, <1>3 DEF InboxInv, InboxTypes
<1>5. \A w : Ahead(w)' = Ahead(w) /\ (Freed(w)' <=> Freed(w))
  BY <1>c DEF Ahead, Freed
<1>6. CASE reader.cursor = 0
  <2>1. first' = page
    BY <1>c, <1>6
  <2>2. WaitHolds'
    BY <1>c, <1>1, <1>3, <1>5, <1>6, <2>1 DEF WaitHolds
  <2>3. reader'.shown \ first' = {}
    BY <1>3, <1>6, <2>1 DEF InboxInv
  <2> QED
    BY <1>c, <1>2, <1>3, <1>4, <2>2, <2>3 DEF InboxInv
<1>7. CASE reader.cursor # 0
  <2>1. first' = first
    BY <1>c, <1>7
  <2>2. WaitHolds'
    BY <1>c, <1>3, <1>5, <1>7, <2>1 DEF InboxInv, WaitHolds
  <2>3. \A w \in page \ first : Freed(w)
    BY <1>1, <1>7 DEF InboxInv, WaitHolds
  <2>4. \A w \in reader'.shown \ first' : Freed(w)'
    BY <1>3, <1>5, <2>1, <2>3 DEF InboxInv
  <2> QED
    BY <1>c, <1>2, <1>3, <1>4, <2>2, <2>4 DEF InboxInv
<1> QED
  BY <1>6, <1>7

\* The invariant holds at first, every step keeps it, and it has what is to hold in it.
LEMMA InboxInductive ==
    ASSUME VisitsAreDated
    PROVE  /\ Lists!InboxInit => InboxInv
           /\ InboxInv /\ [Lists!InboxNext]_(Lists!inboxVars) => InboxInv'
           /\ InboxInv => Lists!PagesRepeat
<1>1. Lists!InboxInit => InboxInv
  BY DEF Lists!InboxInit, InboxInv, InboxTypes, WaitHolds, VisitsAreDated
<1>2. ASSUME InboxInv, [Lists!InboxNext]_(Lists!inboxVars) PROVE InboxInv'
  <2> USE <1>2
  <2>1. ASSUME NEW w \in Visits \cup Tickets, Lists!Arrive(w) PROVE InboxInv'
    <3>1. /\ item[w] = "none"
          /\ item' = [item EXCEPT ![w] = IF w \in Visits THEN "open" ELSE "assigned"]
          /\ first' = IF reader.cursor = 0 THEN first ELSE first \cup {w}
          /\ UNCHANGED <<reader, finished, notes, refused, trail>>
      BY <2>1 DEF Lists!Arrive
    <3>2. /\ \A x \in (Visits \cup Tickets) \ {w} : item'[x] = item[x]
          /\ item'[w] \in {"open", "assigned"}
          /\ w \in Visits => item'[w] = "open"
          /\ InboxTypes'
      BY <3>1 DEF InboxInv, InboxTypes
    <3>3. WaitHolds'
      <4>1. \A x \in Visits : item[x] \in Lists!OpenVisit => item'[x] \in Lists!OpenVisit
        BY <3>1, <3>2 DEF Lists!OpenVisit
      <4>2. /\ \A x \in Visits : item'[x] \in Lists!OpenVisit =>
                   item[x] \in Lists!OpenVisit \/ reader.cursor = 0 \/ x \in first'
            /\ \A x \in Tickets : item'[x] \in Lists!OpenCase =>
                   item[x] \in Lists!OpenCase \/ reader.cursor = 0 \/ x \in first'
        BY <3>1, <3>2
      <4> QED
        BY <3>1, <4>1, <4>2, WaitKept DEF InboxInv
    <3>4. \A x \in Strict : item'[x] # "completed"
      BY <3>2 DEF InboxInv, VisitsAreDated
    <3> QED
      BY <3>1, <3>2, <3>3, <3>4 DEF InboxInv, Freed
  <2>2. ASSUME NEW w \in Tickets, NEW to \in {"in_progress", "done"}, Lists!MoveCase(w, to) PROVE InboxInv'
    <3>1. /\ item' = [item EXCEPT ![w] = to]
          /\ first' = IF item[w] \in Lists!OpenCase THEN first ELSE first \cup {w}
          /\ UNCHANGED <<reader, finished, notes, refused, trail>>
      BY <2>2 DEF Lists!MoveCase
    <3>2. /\ \A x \in (Visits \cup Tickets) \ {w} : item'[x] = item[x]
          /\ w \notin Visits
          /\ InboxTypes'
      BY <3>1 DEF InboxInv, InboxTypes, VisitsAreDated
    <3>3. WaitHolds'
      <4>1. \A x \in Visits : item[x] = item'[x]
        BY <3>2
      <4>2. \A x \in Tickets : item'[x] \in Lists!OpenCase => item[x] \in Lists!OpenCase \/ x \in first'
        BY <3>1, <3>2
      <4> QED
        BY <3>1, <4>1, <4>2, WaitKept DEF InboxInv
    <3>4. \A x \in Strict : item'[x] # "completed"
      BY <3>2 DEF InboxInv, VisitsAreDated
    <3> QED
      BY <3>1, <3>2, <3>3, <3>4 DEF InboxInv, Freed
  <2>3. CASE Lists!LoseRole
    <3>1. reader' = [reader EXCEPT !.role = FALSE] /\ UNCHANGED <<item, first, finished, notes, refused, trail>>
      BY <2>3 DEF Lists!LoseRole
    <3>2. /\ reader'.role = FALSE /\ reader'.cursor = reader.cursor /\ reader'.shown = reader.shown
          /\ InboxTypes'
      BY <3>1 DEF InboxInv, InboxTypes
    <3>3. WaitHolds'
      BY <3>1, <3>2, WaitKept DEF InboxInv
    <3> QED
      BY <3>1, <3>2, <3>3 DEF InboxInv, Freed
  <2>4. ASSUME NEW t \in Visits, Lists!AddNote(t) PROVE InboxInv'
    <3>1. /\ notes' = notes \cup {t} /\ refused' = refused \cup {t}
          /\ UNCHANGED <<item, reader, first, finished, trail>>
      BY <2>4 DEF Lists!AddNote
    <3>2. InboxTypes'
      BY <3>1 DEF InboxInv, InboxTypes
    <3>3. WaitHolds'
      BY <3>1, WaitKept DEF InboxInv
    <3>4. \A x \in reader'.shown \ first' : Freed(x)'
      BY <3>1 DEF InboxInv, Freed
    <3>5. \A x \in notes' : x \in refused' \/ trail'[x] # {}
      BY <3>1 DEF InboxInv
    <3> QED
      BY <3>1, <3>2, <3>3, <3>4, <3>5 DEF InboxInv
  <2>5. CASE UNCHANGED Lists!inboxVars
    <3>1. UNCHANGED <<item, reader, first, finished, notes, refused, trail>>
      BY <2>5 DEF Lists!inboxVars
    <3> QED
      BY <3>1 DEF InboxInv, InboxTypes, WaitHolds, Freed, Ahead
  <2>6. CASE Lists!InboxNext
    BY <2>1, <2>2, <2>3, <2>4, <2>6, ApplyStep, PageStep DEF Lists!InboxNext
  <2> QED
    BY <2>5, <2>6
<1>3. ASSUME InboxInv PROVE Lists!PagesRepeat
  <2>1. \A t \in Visits : Lists!Timeline(t) = {}
    BY <1>3 DEF InboxInv, InboxTypes, Lists!Timeline
  <2> QED
    BY <1>3, <2>1 DEF InboxInv, Freed, Lists!PagesRepeat
<1> QED
  BY <1>1, <1>2, <1>3
-----------------------------------------------------------------------------
(* WorkLists: the queue of the service desk *)

QueueInv ==
    /\ hour \in Nat
    /\ reported \in [Lists!Reports -> Nat]
    /\ \A c \in Faults : grade[c] \in Lists!Severities
    /\ \A c \in Asks : grade[c] \in Lists!Priorities
    /\ grade = [c \in Lists!Reports |-> grade[c]]

\* Due, of what is graded
LEMMA QueueDue ==
    ASSUME ReportsDiffer, QueueInv
    PROVE  \A c \in Lists!Reports : Lists!Due(c) \in Nat /\ Lists!Target[grade[c]] \in Nat
                                    /\ Lists!Rank[grade[c]] \in Nat /\ reported[c] \in Nat
BY DEF QueueInv, Lists!Reports, Lists!Due, Lists!Target, Lists!Rank, Lists!Severities, Lists!Priorities

\* The invariant holds at first, every step keeps it, and it has what is to hold in it.
LEMMA QueueInductive ==
    ASSUME ReportsDiffer
    PROVE  /\ Lists!QueueInit => QueueInv
           /\ QueueInv /\ [Lists!QueueNext]_(Lists!queueVars) => QueueInv'
           /\ QueueInv => Lists!QueueIsInOrder
<1>a. Lists!NotOpen \in Nat
  BY DEF Lists!NotOpen, ReportsDiffer
<1>1. ASSUME Lists!QueueInit PROVE QueueInv
  BY <1>a, <1>1 DEF Lists!QueueInit, QueueInv, Lists!Reports, Lists!Unreported, Lists!Severities, Lists!Priorities,
         ReportsDiffer
<1>2. ASSUME QueueInv, [Lists!QueueNext]_(Lists!queueVars) PROVE QueueInv'
  <2> USE <1>2
  <2>1. ASSUME NEW c \in Lists!Reports, NEW g, NEW h \in Nat, c \in Faults => g \in Lists!Severities,
               c \in Asks => g \in Lists!Priorities, UNCHANGED hour,
               reported' = [reported EXCEPT ![c] = h], grade' = [grade EXCEPT ![c] = g]
        PROVE  QueueInv'
    <3>1. reported' \in [Lists!Reports -> Nat] /\ grade' = [x \in Lists!Reports |-> grade'[x]]
      BY <2>1 DEF QueueInv
    <3>2. grade'[c] = g /\ \A x \in Lists!Reports \ {c} : grade'[x] = grade[x]
      BY <2>1 DEF QueueInv
    <3> QED
      BY <2>1, <3>1, <3>2 DEF QueueInv, Lists!Reports
  <2>2. ASSUME NEW c \in Faults, NEW g \in Lists!Severities, Lists!Report(c, g) PROVE QueueInv'
    BY <2>1, <2>2 DEF Lists!Report, Lists!Reports, ReportsDiffer, QueueInv
  <2>3. ASSUME NEW c \in Asks, NEW g \in Lists!Priorities, Lists!Report(c, g) PROVE QueueInv'
    BY <2>1, <2>3 DEF Lists!Report, Lists!Reports, ReportsDiffer, QueueInv
  <2>4. ASSUME NEW c \in Lists!Reports, Lists!Close(c) PROVE QueueInv'
    <3>1. PICK g : g = Lists!Unreported(c)
      OBVIOUS
    <3>2. (c \in Faults => g \in Lists!Severities) /\ (c \in Asks => g \in Lists!Priorities)
      BY <3>1 DEF Lists!Unreported, Lists!Severities, Lists!Priorities, ReportsDiffer
    <3>3. /\ reported' = [reported EXCEPT ![c] = Lists!NotOpen] /\ grade' = [grade EXCEPT ![c] = g]
          /\ UNCHANGED hour
      BY <2>4, <3>1 DEF Lists!Close
    <3> QED
      BY <1>a, <2>1, <3>2, <3>3
  <2>5. CASE Lists!Pass
    BY <2>5 DEF Lists!Pass, QueueInv
  <2>6. CASE UNCHANGED Lists!queueVars
    BY <2>6 DEF Lists!queueVars, QueueInv
  <2> QED
    BY <2>2, <2>3, <2>4, <2>5, <2>6 DEF Lists!QueueNext
<1>3. ASSUME QueueInv, NEW f \in Lists!Selections(Faults), NEW a \in Lists!Selections(Asks)
      PROVE  LET out == Lists!Open \ (f \cup a)
             IN /\ \A items \in Lists!Listings(f \cup a) : \A i, j \in DOMAIN items : i < j =>
                       /\ Lists!Due(items[i]) <= Lists!Due(items[j])
                       /\ Lists!Breached(items[j]) => Lists!Breached(items[i])
                /\ \A c \in f \cup a : Lists!Breached(c) => c \notin Lists!DueSoon(f \cup a)
                /\ \A c \in out, d \in f \cup a :
                       /\ grade[c] = grade[d] => Lists!Due(d) <= Lists!Due(c)
                       /\ ({c, d} \subseteq Faults \/ {c, d} \subseteq Asks) =>
                              (Lists!Target[grade[c]] < Lists!Target[grade[d]] => grade[c] = "high")
  <2> USE <1>3
  <2>a. hour \in Nat
    BY DEF QueueInv
  <2>b. /\ f \subseteq Faults \cap Lists!Open /\ a \subseteq Asks \cap Lists!Open
        /\ \A c \in f, d \in (Faults \cap Lists!Open) \ f : ~Lists!Before(d, c)
        /\ \A c \in a, d \in (Asks \cap Lists!Open) \ a : ~Lists!Before(d, c)
    BY DEF Lists!Selections
  <2>c. f \cup a \subseteq Lists!Reports /\ Lists!Open \subseteq Lists!Reports
    BY <2>b DEF Lists!Open
  <2>1. ASSUME NEW items \in Lists!Listings(f \cup a), NEW i \in DOMAIN items, NEW j \in DOMAIN items, i < j
        PROVE  /\ Lists!Due(items[i]) <= Lists!Due(items[j])
               /\ Lists!Breached(items[j]) => Lists!Breached(items[i])
    <3>1. items[i] \in Lists!Reports /\ items[j] \in Lists!Reports /\ ~Lists!Sooner(items[j], items[i])
      BY <2>1, <2>c DEF Lists!Listings
    <3>2. Lists!Due(items[i]) \in Nat /\ Lists!Due(items[j]) \in Nat
      BY <3>1, QueueDue
    <3> QED
      BY <2>a, <3>1, <3>2 DEF Lists!Sooner, Lists!Breached
  <2>2. \A c \in f \cup a : Lists!Breached(c) => c \notin Lists!DueSoon(f \cup a)
    BY DEF Lists!DueSoon
  <2>3. ASSUME NEW c \in Lists!Open \ (f \cup a), NEW d \in f \cup a,
               {c, d} \subseteq Faults \/ {c, d} \subseteq Asks
        PROVE  ~Lists!Before(c, d)
    BY <2>b, <2>3 DEF ReportsDiffer
  <2>4. ASSUME NEW c \in Lists!Open \ (f \cup a), NEW d \in f \cup a, grade[c] = grade[d]
        PROVE  Lists!Due(d) <= Lists!Due(c)
    <3>1. {c, d} \subseteq Faults \/ {c, d} \subseteq Asks
      <4>1. c \in Lists!Reports /\ d \in Lists!Reports
        BY <2>c
      <4> QED
        BY <2>4, <4>1 DEF Lists!Reports, QueueInv, Lists!Severities, Lists!Priorities
    <3>2. ~Lists!Before(c, d)
      BY <2>3, <3>1
    <3>3. reported[c] \in Nat /\ reported[d] \in Nat /\ Lists!Target[grade[c]] \in Nat /\ Lists!Rank[grade[c]] \in Nat
      BY <2>c, QueueDue
    <3> QED
      BY <2>4, <3>2, <3>3 DEF Lists!Before, Lists!Due
  <2>5. ASSUME NEW c \in Lists!Open \ (f \cup a), NEW d \in f \cup a,
               {c, d} \subseteq Faults \/ {c, d} \subseteq Asks,
               Lists!Target[grade[c]] < Lists!Target[grade[d]]
        PROVE  grade[c] = "high"
    <3>1. ~(Lists!Rank[grade[c]] < Lists!Rank[grade[d]])
      BY <2>3, <2>5 DEF Lists!Before
    <3>2. CASE {c, d} \subseteq Faults
      <4>1. grade[c] \in Lists!Severities /\ grade[d] \in Lists!Severities
        BY <3>2 DEF QueueInv
      <4> QED
        BY <2>5, <3>1, <4>1 DEF Lists!Severities, Lists!Target, Lists!Rank
    <3>3. CASE {c, d} \subseteq Asks
      <4>1. grade[c] \in Lists!Priorities /\ grade[d] \in Lists!Priorities
        BY <3>3 DEF QueueInv
      <4> QED
        BY <2>5, <3>1, <4>1 DEF Lists!Priorities, Lists!Target, Lists!Rank
    <3> QED
      BY <2>5, <3>2, <3>3
  <2> QED
    BY <2>1, <2>2, <2>4, <2>5
<1>4. QueueInv => Lists!QueueIsInOrder
  BY <1>3 DEF Lists!QueueIsInOrder
<1> QED
  BY <1>1, <1>2, <1>4
-----------------------------------------------------------------------------
(* Reports: the trail of what was done *)

EntryRows == [entity : Entities, resource : Entities \cup {"none"}, text : Texts]

\* A search under way: what it was shown matches, and what it is still to be shown of the
\* rows that were there has as many newer ones as it has read past.
SearchHolds ==
    /\ search \in [entity : Entities \cup {"none"}, text : Texts \cup {"none"}, skip : Nat,
                   began : 0 .. Len(entries), shown : SUBSET (DOMAIN entries), ended : BOOLEAN, open : BOOLEAN]
    /\ \A i \in search.shown : Report!Matches(search, entries[i])
    /\ \A i \in 1 .. search.began : Report!Matches(search, entries[i]) =>
           i \in search.shown \/ (~search.ended /\ Cardinality(Report!Newer(search, i)) >= search.skip)

TrailInv ==
    /\ entries \in Seq(EntryRows)
    /\ \A i \in DOMAIN entries : entries[i].resource \in {"none", entries[i].entity}
    /\ SearchHolds

LEMMA CardinalityOfReports == \A S : Report!Cardinality(S) = Cardinality(S)
BY DEF Report!Cardinality, Cardinality

\* The rows that match are finitely many numbers, and the newer ones are those above.
LEMMA FoundFacts ==
    ASSUME entries \in Seq(EntryRows)
    PROVE  /\ DOMAIN entries = 1 .. Len(entries) /\ Len(entries) \in Nat
           /\ \A filter : /\ Report!Found(filter) \in SUBSET Nat /\ IsFiniteSet(Report!Found(filter))
                          /\ \A i : Report!Newer(filter, i) = Above(Report!Found(filter), i)
                          /\ \A i : /\ IsFiniteSet(Report!Newer(filter, i))
                                    /\ Cardinality(Report!Newer(filter, i)) \in Nat
<1>1. DOMAIN entries = 1 .. Len(entries) /\ Len(entries) \in Nat
  BY LenProperties
<1>2. IsFiniteSet(1 .. Len(entries))
  BY <1>1, FS_Interval
<1>3. \A filter : Report!Found(filter) \subseteq 1 .. Len(entries)
  BY <1>1 DEF Report!Found
<1>4. \A filter, i : Report!Newer(filter, i) = Above(Report!Found(filter), i)
  BY DEF Report!Newer, Above
<1>5. \A filter : Report!Found(filter) \in SUBSET Nat /\ IsFiniteSet(Report!Found(filter))
  BY <1>1, <1>2, <1>3, FS_Subset
<1>6. \A filter, i : Report!Newer(filter, i) \subseteq Report!Found(filter)
  BY DEF Report!Newer
<1>7. \A filter, i : IsFiniteSet(Report!Newer(filter, i)) /\ Cardinality(Report!Newer(filter, i)) \in Nat
  BY <1>5, <1>6, FS_Subset, FS_CardinalityType
<1> QED
  BY <1>1, <1>4, <1>5, <1>7

\* A page before which there is a row that was not reached is full.
LEMMA PageIsFull ==
    ASSUME entries \in Seq(EntryRows), NEW filter, filter.skip \in Nat, NEW take \in Nat,
           NEW i, Cardinality(Report!Newer(filter, i)) >= filter.skip + take
    PROVE  Cardinality(Report!Page(filter, take)) = take
<1>1. PICK S : S = Report!Found(filter)
  OBVIOUS
<1>2. PICK skip \in Nat : skip = filter.skip
  OBVIOUS
<1>3. S \in SUBSET Nat /\ IsFiniteSet(S) /\ Cardinality(S) \in Nat
  BY <1>1, FoundFacts, FS_CardinalityType
<1>4. \A j \in S : /\ Cardinality(Report!Newer(filter, j)) = Cardinality(Above(S, j))
                   /\ Cardinality(Above(S, j)) \in Nat
  BY <1>1, FoundFacts
<1>5. skip + take <= Cardinality(S)
  <2>1. Report!Newer(filter, i) \subseteq S
    BY <1>1 DEF Report!Newer
  <2>2. Cardinality(Report!Newer(filter, i)) <= Cardinality(S) /\ Cardinality(Report!Newer(filter, i)) \in Nat
    BY <1>3, <2>1, FS_Subset, FoundFacts
  <2> QED
    BY <1>2, <1>3, <2>2
<1> DEFINE Top(n) == {x \in S : Cardinality(Above(S, x)) < n}
<1>6. Cardinality(Top(skip + take)) = skip + take
  <2>1. skip + take \in 0 .. Cardinality(S)
    BY <1>2, <1>3, <1>5
  <2> QED
    BY <1>3, <2>1, RanksFilled
<1>7. Cardinality(Top(skip)) = skip
  <2>1. skip \in 0 .. Cardinality(S)
    BY <1>2, <1>3, <1>5
  <2> QED
    BY <1>3, <2>1, RanksFilled
<1>8. Report!Page(filter, take) = Top(skip + take) \ Top(skip)
  <2>1. Report!Page(filter, take) = {j \in S : Cardinality(Above(S, j)) \in skip .. skip + take - 1}
    BY <1>1, <1>2, <1>4, CardinalityOfReports DEF Report!Page
  <2>2. ASSUME NEW j \in S
        PROVE  Cardinality(Above(S, j)) \in skip .. skip + take - 1
                   <=> Cardinality(Above(S, j)) < skip + take /\ ~(Cardinality(Above(S, j)) < skip)
    <3>1. PICK c \in Nat : c = Cardinality(Above(S, j))
      BY <1>4
    <3> QED
      BY <1>2, <3>1
  <2> QED
    BY <2>1, <2>2
<1>9. Top(skip) \subseteq Top(skip + take)
  <2>1. ASSUME NEW x \in S, Cardinality(Above(S, x)) < skip PROVE Cardinality(Above(S, x)) < skip + take
    BY <1>2, <1>4, <2>1
  <2> QED
    BY <2>1
<1>10. PICK A : A = Top(skip + take)
  OBVIOUS
<1>11. PICK B : B = Top(skip)
  OBVIOUS
<1>12. IsFiniteSet(A) /\ IsFiniteSet(B)
  <2>1. A \subseteq S /\ B \subseteq S
    BY <1>10, <1>11
  <2> QED
    BY <1>3, <2>1, FS_Subset
<1>13. A \cap B = B
  BY <1>9, <1>10, <1>11
<1>14. Cardinality(A \ B) = Cardinality(A) - Cardinality(A \cap B)
  BY <1>12, FS_Difference
<1>15. Cardinality(A) = skip + take /\ Cardinality(B) = skip
  <2>1. Cardinality(A) = skip + take
    BY <1>6, <1>10
  <2>2. Cardinality(B) = skip
    BY <1>7, <1>11
  <2> QED
    BY <2>1, <2>2
<1>16. Cardinality(A \ B) = take
  <2>1. Cardinality(A \ B) = Cardinality(A) - Cardinality(B)
    BY <1>13, <1>14
  <2>2. Cardinality(A \ B) = (skip + take) - skip
    BY <1>15, <2>1
  <2>3. (skip + take) - skip = take
    BY <1>2
  <2> QED
    BY <2>2, <2>3
<1> QED
  BY <1>8, <1>10, <1>11, <1>16

\* A row more: what was there is there, and has no fewer newer ones.
LEMMA InsertStep ==
    ASSUME TrailInv, NEW row \in EntryRows, row.resource \in {"none", row.entity}, Report!Insert(row)
    PROVE  TrailInv'
<1>1. PICK n \in Nat : n = Len(entries)
  BY LenProperties DEF TrailInv
<1>2. entries' = Append(entries, row) /\ UNCHANGED search
  BY DEF Report!Insert
<1>3. /\ entries' \in Seq(EntryRows) /\ Len(entries') = n + 1 /\ entries'[n + 1] = row
      /\ \A i \in 1 .. n : entries'[i] = entries[i]
  BY <1>1, <1>2, AppendProperties DEF TrailInv
<1>4. DOMAIN entries = 1 .. n /\ DOMAIN entries' = 1 .. n + 1
  BY <1>1, <1>3, LenProperties DEF TrailInv
<1>5. \A i \in DOMAIN entries' : entries'[i].resource \in {"none", entries'[i].entity}
  <2>1. \A i \in 1 .. n + 1 : i \in 1 .. n \/ i = n + 1
    BY <1>1
  <2> QED
    BY <1>3, <1>4, <2>1 DEF TrailInv
<1>6. \A i \in 1 .. n : Report!Matches(search, entries[i]) <=> Report!Matches(search', entries'[i])
  BY <1>2, <1>3 DEF Report!Matches
<1>7. ASSUME NEW i, Cardinality(Report!Newer(search, i)) >= search.skip
      PROVE  Cardinality(Report!Newer(search, i)') >= search'.skip
  <2>1. Report!Newer(search, i) \subseteq Report!Newer(search, i)'
    <3>1. \A j \in 1 .. n : j \in 1 .. n + 1
      BY <1>1
    <3>2. Report!Found(search) \subseteq Report!Found(search)'
      BY <1>4, <1>6, <3>1 DEF Report!Found
    <3> QED
      BY <3>2 DEF Report!Newer
  <2>2. entries \in Seq(EntryRows)
    BY DEF TrailInv
  <2>3. Cardinality(Report!Newer(search, i)) \in Nat
    BY <2>2, FoundFacts
  <2>4. IsFiniteSet(Report!Newer(search, i)') /\ Cardinality(Report!Newer(search, i)') \in Nat
    <3>1. Report!Newer(search, i)' \subseteq 1 .. n + 1
      BY <1>4 DEF Report!Newer, Report!Found
    <3>2. IsFiniteSet(1 .. n + 1)
      BY <1>1, FS_Interval
    <3> QED
      BY <3>1, <3>2, FS_Subset, FS_CardinalityType
  <2>5. Cardinality(Report!Newer(search, i)) <= Cardinality(Report!Newer(search, i)')
    BY <2>1, <2>4, FS_Subset
  <2>6. search.skip \in Nat
    BY DEF TrailInv, SearchHolds
  <2> QED
    BY <1>2, <1>7, <2>3, <2>4, <2>5, <2>6
<1>8. SearchHolds'
  <2>1. search' \in [entity : Entities \cup {"none"}, text : Texts \cup {"none"}, skip : Nat,
                     began : 0 .. Len(entries'), shown : SUBSET (DOMAIN entries'), ended : BOOLEAN, open : BOOLEAN]
    <3>1. 0 .. n \subseteq 0 .. n + 1 /\ 1 .. n \subseteq 1 .. n + 1
      BY <1>1
    <3> QED
      BY <1>1, <1>2, <1>3, <1>4, <3>1 DEF TrailInv, SearchHolds
  <2>2. \A i \in search'.shown : Report!Matches(search', entries'[i])
    BY <1>2, <1>4, <1>6 DEF TrailInv, SearchHolds
  <2>3. \A i \in 1 .. search'.began : i \in 1 .. n
    BY <1>1, <1>2 DEF TrailInv, SearchHolds
  <2>4. \A i \in 1 .. search'.began : Report!Matches(search', entries'[i]) =>
            i \in search'.shown \/ (~search'.ended /\ Cardinality(Report!Newer(search, i)') >= search'.skip)
    BY <1>2, <1>6, <1>7, <2>3 DEF TrailInv, SearchHolds
  <2> QED
    BY <2>1, <2>2, <2>4 DEF SearchHolds
<1> QED
  BY <1>3, <1>5, <1>8 DEF TrailInv

LEMMA NextPageStep ==
    ASSUME PagesAreNumbers, TrailInv, Report!NextPage
    PROVE  TrailInv'
<1>1. PICK page : page = Report!Page(search, PageLength)
  OBVIOUS
<1>2. PICK full \in BOOLEAN : full <=> ~(Cardinality(page) < PageLength)
  <2>1. CASE Cardinality(page) < PageLength
    BY <2>1
  <2>2. CASE ~(Cardinality(page) < PageLength)
    BY <2>2
  <2> QED
    BY <2>1, <2>2
<1>3. /\ search \in [entity : Entities \cup {"none"}, text : Texts \cup {"none"}, skip : Nat,
                     began : 0 .. Len(entries), shown : SUBSET (DOMAIN entries), ended : BOOLEAN, open : BOOLEAN]
      /\ PageLength \in Nat /\ ~search.ended /\ UNCHANGED entries /\ entries \in Seq(EntryRows)
      /\ search' = [search EXCEPT !.shown = @ \cup page, !.skip = @ + PageLength,
                                  !.ended = Cardinality(page) < PageLength]
  BY <1>1, CardinalityOfReports DEF Report!NextPage, TrailInv, SearchHolds, PagesAreNumbers
<1>4. page \subseteq DOMAIN entries /\ \A i \in page : Report!Matches(search, entries[i])
  BY <1>1 DEF Report!Page, Report!Found
<1>a. search' \in [entity : Entities \cup {"none"}, text : Texts \cup {"none"}, skip : Nat,
                    began : 0 .. Len(entries), shown : SUBSET (DOMAIN entries), ended : BOOLEAN, open : BOOLEAN]
  <2>1. PICK shown \in SUBSET (DOMAIN entries) : shown = search.shown \cup page
    BY <1>3, <1>4
  <2>2. PICK skip \in Nat : skip = search.skip + PageLength
    BY <1>3
  <2>3. CASE full
    <3>a. (Cardinality(page) < PageLength) = FALSE
      BY <1>2, <2>3
    <3>1. search' = [search EXCEPT !.shown = shown, !.skip = skip, !.ended = FALSE]
      BY <1>3, <2>1, <2>2, <3>a
    <3> QED
      BY <1>3, <3>1
  <2>4. CASE ~full
    <3>1. search' = [search EXCEPT !.shown = shown, !.skip = skip, !.ended = TRUE]
      BY <1>2, <1>3, <2>1, <2>2, <2>4
    <3> QED
      BY <1>3, <3>1
  <2> QED
    BY <1>2, <2>3, <2>4
<1>b. /\ search'.entity = search.entity /\ search'.text = search.text /\ search'.began = search.began
      /\ search'.shown = search.shown \cup page /\ search'.skip = search.skip + PageLength
      /\ search'.ended = (Cardinality(page) < PageLength)
  BY <1>3
<1>c. search'.ended <=> ~full
  BY <1>2, <1>b
<1>5. /\ search' \in [entity : Entities \cup {"none"}, text : Texts \cup {"none"}, skip : Nat,
                      began : 0 .. Len(entries), shown : SUBSET (DOMAIN entries), ended : BOOLEAN, open : BOOLEAN]
      /\ search'.entity = search.entity /\ search'.text = search.text /\ search'.began = search.began
      /\ search'.shown = search.shown \cup page /\ search'.skip = search.skip + PageLength
      /\ search'.ended <=> ~full
  BY <1>a, <1>b, <1>c
<1>6. /\ \A i : Report!Matches(search', entries'[i]) <=> Report!Matches(search, entries[i])
      /\ \A i : Report!Newer(search, i)' = Report!Newer(search, i)
  <2>1. \A i : Report!Matches(search', entries'[i]) <=> Report!Matches(search, entries[i])
    BY <1>3, <1>5 DEF Report!Matches
  <2>2. Report!Found(search)' = Report!Found(search)
    BY <1>3, <2>1 DEF Report!Found
  <2> QED
    BY <2>1, <2>2 DEF Report!Newer
<1>7. ASSUME NEW i \in 1 .. search.began, Report!Matches(search, entries[i]), i \notin search.shown \cup page
      PROVE  full /\ Cardinality(Report!Newer(search, i)) >= search.skip + PageLength
  <2>1. Cardinality(Report!Newer(search, i)) >= search.skip /\ Cardinality(Report!Newer(search, i)) \in Nat
    BY <1>3, <1>7, FoundFacts DEF TrailInv, SearchHolds
  <2>2. i \in Report!Found(search)
    <3>1. DOMAIN entries = 1 .. Len(entries) /\ Len(entries) \in Nat
      BY <1>3, FoundFacts
    <3>2. i \in 1 .. Len(entries)
      BY <1>3, <3>1
    <3> QED
      BY <1>7, <3>1, <3>2 DEF Report!Found
  <2>3. Cardinality(Report!Newer(search, i)) \notin search.skip .. search.skip + PageLength - 1
    BY <1>1, <1>7, <2>2, CardinalityOfReports DEF Report!Page
  <2>4. Cardinality(Report!Newer(search, i)) >= search.skip + PageLength
    <3>1. PICK c \in Nat : c = Cardinality(Report!Newer(search, i))
      BY <2>1
    <3>2. PICK s \in Nat : s = search.skip
      BY <1>3
    <3> QED
      BY <1>3, <2>1, <2>3, <3>1, <3>2
  <2>5. Cardinality(page) = PageLength
    <3>1. search.skip \in Nat
      BY <1>3
    <3> QED
      BY <1>1, <1>3, <2>4, <3>1, PageIsFull
  <2> QED
    BY <1>2, <1>3, <2>4, <2>5
<1>8. SearchHolds'
  <2>1. \A i \in search'.shown : Report!Matches(search', entries'[i])
    BY <1>4, <1>5, <1>6 DEF TrailInv, SearchHolds
  <2>2. \A i \in 1 .. search'.began : Report!Matches(search', entries'[i]) =>
            i \in search'.shown \/ (~search'.ended /\ Cardinality(Report!Newer(search, i)') >= search'.skip)
    BY <1>5, <1>6, <1>7
  <2> QED
    BY <1>3, <1>5, <2>1, <2>2 DEF SearchHolds
<1> QED
  BY <1>3, <1>8 DEF TrailInv

\* The invariant holds at first, every step keeps it, and it has what is to hold in it.
LEMMA TrailInductive ==
    ASSUME PagesAreNumbers
    PROVE  /\ Report!TrailInit => TrailInv
           /\ TrailInv /\ [Report!TrailNext]_(Report!trailVars) => TrailInv'
           /\ TrailInv => Report!SearchesAreComplete
<1>1. ASSUME Report!TrailInit PROVE TrailInv
  BY <1>1 DEF Report!TrailInit, Report!NoSearch, TrailInv, SearchHolds
<1>2. ASSUME TrailInv, [Report!TrailNext]_(Report!trailVars) PROVE TrailInv'
  <2> USE <1>2
  <2>1. CASE UNCHANGED Report!trailVars
    <3>1. UNCHANGED <<entries, search>>
      BY <2>1 DEF Report!trailVars
    <3>2. \A i : Report!Newer(search, i)' = Report!Newer(search, i)
      BY <3>1 DEF Report!Newer, Report!Found, Report!Matches
    <3> QED
      BY <3>1, <3>2 DEF TrailInv, SearchHolds, Report!Matches
  <2>2. ASSUME NEW e \in Entities, NEW t \in Texts, Report!Write(e, t) PROVE TrailInv'
    <3>1. PICK row : row = [entity |-> e, resource |-> "none", text |-> t]
      OBVIOUS
    <3>2. row \in EntryRows /\ row.resource \in {"none", row.entity} /\ Report!Insert(row)
      BY <2>2, <3>1 DEF EntryRows, Report!Write
    <3> QED
      BY <3>2, InsertStep
  <2>3. ASSUME NEW e \in Entities, NEW t \in Texts, Report!Transition(e, t) PROVE TrailInv'
    <3>1. PICK row : row = [entity |-> e, resource |-> e, text |-> t]
      OBVIOUS
    <3>2. row \in EntryRows /\ row.resource \in {"none", row.entity} /\ Report!Insert(row)
      BY <2>3, <3>1 DEF EntryRows, Report!Transition
    <3> QED
      BY <3>2, InsertStep
  <2>4. ASSUME NEW e \in Entities \cup {"none"}, NEW t \in Texts \cup {"none"}, Report!Search(e, t) PROVE TrailInv'
    <3>1. search' = [entity |-> e, text |-> t, skip |-> 0, began |-> Len(entries), shown |-> {},
                     ended |-> FALSE, open |-> TRUE] /\ UNCHANGED entries
      BY <2>4 DEF Report!Search, Report!NoSearch
    <3>2. /\ search'.skip = 0 /\ search'.shown = {} /\ ~search'.ended /\ search'.began = Len(entries)
          /\ search' \in [entity : Entities \cup {"none"}, text : Texts \cup {"none"}, skip : Nat,
                          began : 0 .. Len(entries), shown : SUBSET (DOMAIN entries), ended : BOOLEAN, open : BOOLEAN]
      <4>1. Len(entries) \in 0 .. Len(entries)
        BY LenProperties DEF TrailInv
      <4> QED
        BY <3>1, <4>1
    <3>3. entries' \in Seq(EntryRows)
      BY <3>1 DEF TrailInv
    <3>4. \A i : Cardinality(Report!Newer(search, i)') >= 0
      <4>1. DOMAIN entries = 1 .. Len(entries) /\ Len(entries) \in Nat
        BY FoundFacts DEF TrailInv
      <4>2. \A i : Report!Newer(search, i)' \subseteq 1 .. Len(entries)
        BY <3>1, <4>1 DEF Report!Newer, Report!Found
      <4>3. IsFiniteSet(1 .. Len(entries))
        BY <4>1, FS_Interval
      <4>4. \A i : Cardinality(Report!Newer(search, i)') \in Nat
        BY <4>2, <4>3, FS_Subset, FS_CardinalityType
      <4> QED
        BY <4>4
    <3> QED
      BY <3>1, <3>2, <3>3, <3>4 DEF TrailInv, SearchHolds
  <2>5. CASE Report!NextPage
    BY <2>5, NextPageStep
  <2>6. CASE Report!Close
    <3>1. search' = Report!NoSearch /\ UNCHANGED entries
      BY <2>6 DEF Report!Close
    <3> QED
      BY <3>1 DEF Report!NoSearch, TrailInv, SearchHolds
  <2> QED
    BY <2>1, <2>2, <2>3, <2>4, <2>5, <2>6 DEF Report!TrailNext
<1>3. ASSUME TrailInv PROVE Report!SearchesAreComplete
  <2> USE <1>3
  <2>1. PICK old : old = {i \in 1 .. search.began : Report!Matches(search, entries[i])}
    OBVIOUS
  <2>2. PICK filter : filter = [search EXCEPT !.skip = 0]
    OBVIOUS
  <2>3. PICK file : file = Report!ExportCsv(filter)
    OBVIOUS
  <2>4. /\ filter.skip = 0 /\ filter.text = search.text /\ filter.entity = search.entity
    BY <2>2 DEF TrailInv, SearchHolds
  <2>5. ASSUME search.ended, NEW i \in 1 .. search.began, entries[i].entity = search.entity, search.text = "none"
        PROVE  i \in search.shown
    BY <2>5 DEF TrailInv, SearchHolds, Report!Matches
  <2>6. search.ended => old \subseteq search.shown
    BY <2>1 DEF TrailInv, SearchHolds
  <2>7. ASSUME search.text = "none", search.entity # "none", NEW i \in search.shown
        PROVE  entries[i].entity = search.entity
    <3>1. Report!Matches(search, entries[i]) /\ entries[i].resource \in {"none", entries[i].entity}
      BY DEF TrailInv, SearchHolds
    <3> QED
      BY <2>7, <3>1 DEF Report!Matches
  <2>8. ASSUME NEW i \in file, NEW j \in DOMAIN entries \ file, Report!Matches(search, entries[j])
        PROVE  j < i
    <3>1. i \in Report!Found(filter) /\ Cardinality(Report!Newer(filter, i)) \in 0 .. 0 + FileLength - 1
      BY <2>3, <2>4, CardinalityOfReports DEF Report!ExportCsv, Report!Page
    <3>2. j \in Report!Found(filter) /\ i # j
      BY <2>4, <2>8 DEF Report!Found, Report!Matches
    <3>3. Cardinality(Report!Newer(filter, j)) \notin 0 .. 0 + FileLength - 1
      BY <2>3, <2>4, <2>8, <3>2, CardinalityOfReports DEF Report!ExportCsv, Report!Page
    <3>4. /\ Report!Found(filter) \in SUBSET Nat
          /\ IsFiniteSet(Report!Newer(filter, i)) /\ Cardinality(Report!Newer(filter, i)) \in Nat
          /\ Cardinality(Report!Newer(filter, j)) \in Nat
      BY FoundFacts DEF TrailInv
    <3>5. i \in Nat /\ j \in Nat
      BY <3>1, <3>2, <3>4
    <3>6. SUFFICES ASSUME i < j PROVE FALSE
      BY <3>2, <3>5
    <3>7. Report!Newer(filter, j) \subseteq Report!Newer(filter, i)
      <4>1. \A x \in Nat : x > j => x > i
        BY <3>5, <3>6
      <4> QED
        BY <3>4, <4>1 DEF Report!Newer
    <3>8. Cardinality(Report!Newer(filter, j)) <= Cardinality(Report!Newer(filter, i))
      BY <3>4, <3>7, FS_Subset
    <3>9. PICK c \in Nat : c = Cardinality(Report!Newer(filter, i))
      BY <3>4
    <3>10. PICK d \in Nat : d = Cardinality(Report!Newer(filter, j))
      BY <3>4
    <3>11. FileLength \in Nat
      BY DEF PagesAreNumbers
    <3> QED
      BY <3>1, <3>3, <3>8, <3>9, <3>10, <3>11
  <2> QED
    BY <2>1, <2>2, <2>3, <2>5, <2>6, <2>7, <2>8 DEF Report!SearchesAreComplete
<1> QED
  BY <1>1, <1>2, <1>3
-----------------------------------------------------------------------------
(* Projects: the book *)

\* The conversions read lead from one class to the next, and end in a class.
Chained(turns, class) ==
    /\ turns \in Seq([from : Project!Classes, to : Project!Classes])
    /\ \A i \in 1 .. Len(turns) - 1 : turns[i].to = turns[i + 1].from
    /\ turns # <<>> => turns[Len(turns)].to = class

\* The stages read end in a stage.
EndsIn(stages, stage) ==
    stage \in Stages /\ stages \in Seq(Stages) /\ stages # <<>> /\ stage = stages[Len(stages)]

ProjectHolds(r) ==
    /\ r \in [class : Project!Classes, stage : Stages, closed : BOOLEAN, stages : Seq(Stages),
              turns : Seq([from : Project!Classes, to : Project!Classes])]
    /\ EndsIn(r.stages, r.stage)
    /\ r.closed <=> r.stage = "closed" /\ Len(r.stages) > 1
    /\ Chained(r.turns, r.class)

\* What a call read and is about to write
EntryHolds(e) ==
    /\ e.kind = "class" => e.on \in Projects /\ e.to \in Project!Classes /\ Chained(e.history, e.to) /\ e.history # <<>>
    /\ e.kind = "stage" => e.on \in Projects /\ EndsIn(e.history, e.to) /\ Len(e.history) > 1

RowsHold(table, owners, classes) ==
    /\ table = [i \in owners |-> table[i]]
    /\ \A i \in owners : /\ table[i] = [class |-> table[i].class, amount |-> table[i].amount]
                         /\ table[i].amount \in Int
                         /\ table[i].class \in classes \/ table[i] = Project!NoLine

BookInv ==
    /\ project = [p \in Projects |-> project[p]]
    /\ entry = [k \in Bookkeepers |-> entry[k]]
    /\ \A p \in Projects : project[p] = Project!NoProject \/ ProjectHolds(project[p])
    /\ \A k \in Bookkeepers : /\ EntryHolds(entry[k])
                              /\ entry[k].kind \in {"class", "stage"} => project[entry[k].on] # Project!NoProject
    /\ RowsHold(fund, BudgetLines, Project!LineClasses)
    /\ RowsHold(order, ChangeOrders, Project!Classes)
-----------------------------------------------------------------------------
\* The sums of a book are of the amounts of the rows.
AddsRows(g, table, S) == g = [s \in SUBSET S |-> IF s = {} THEN 0 ELSE table[Chosen(s)].amount + g[s \ {Chosen(s)}]]

LEMMA RowSums ==
    ASSUME NEW table, NEW owners, IsFiniteSet(owners), \A i \in owners : table[i].amount \in Int,
           NEW f, f = [i \in owners |-> table[i].amount], NEW S \in SUBSET owners
    PROVE  (CHOOSE g : AddsRows(g, table, S))[S] = Tally(f, S)
<1>1. IsFiniteSet(S)
  BY FS_Subset
<1>2. \A i \in S : f[i] \in Int /\ f[i] = table[i].amount
  OBVIOUS
<1>3. ASSUME NEW g PROVE AddsRows(g, table, S) <=> Adds(g, f, S)
  <2>1. \A s \in SUBSET S : s # {} => f[Chosen(s)] = table[Chosen(s)].amount
    BY <1>2, ChosenIsElement
  <2>2. [s \in SUBSET S |-> IF s = {} THEN 0 ELSE table[Chosen(s)].amount + g[s \ {Chosen(s)}]]
          = [s \in SUBSET S |-> IF s = {} THEN 0 ELSE f[Chosen(s)] + g[s \ {Chosen(s)}]]
    BY <2>1
  <2> QED
    BY <2>2 DEF AddsRows, Adds
<1>4. PICK g : Adds(g, f, S)
  <2>1. \A i \in S : f[i] \in Int
    BY <1>2
  <2> QED
    BY <1>1, <2>1, AddsExists
<1>5. PICK h : h = CHOOSE i : AddsRows(i, table, S)
  OBVIOUS
<1>6. AddsRows(h, table, S)
  BY <1>3, <1>4, <1>5
<1>7. PICK k : k = CHOOSE i : Adds(i, f, S)
  OBVIOUS
<1>8. Adds(k, f, S)
  BY <1>4, <1>7
<1>9. h[S] = k[S]
  <2>1. Adds(h, f, S) /\ S \in SUBSET S
    BY <1>3, <1>6
  <2>2. \A s \in SUBSET S : h[s] = k[s]
    BY <1>1, <1>8, <2>1, AddsUnique
  <2> QED
    BY <2>1, <2>2
<1> QED
  BY <1>5, <1>7, <1>9 DEF Tally

LEMMA TotalOfRows ==
    \A table, class : Project!Total(table, class) =
        (CHOOSE g : AddsRows(g, table, {r \in DOMAIN table : table[r].class = class}))[{r \in DOMAIN table : table[r].class = class}]
BY DEF Project!Total, Project!MapThenSumSet, Project!MapThenFoldSet, AddsRows, Chosen

LEMMA EverythingOfRows ==
    \A table : Project!Everything(table) = (CHOOSE g : AddsRows(g, table, DOMAIN table))[DOMAIN table]
BY DEF Project!Everything, Project!MapThenSumSet, Project!MapThenFoldSet, AddsRows, Chosen

\* The three classes, and rows that are not there and have no amount, are everything.
LEMMA ClassesAddUp ==
    ASSUME NEW table, NEW owners, IsFiniteSet(owners), RowsHold(table, owners, Project!Classes)
    PROVE  /\ Project!Total(table, "capex") \in Int /\ Project!Total(table, "opex") \in Int
           /\ Project!Total(table, "mixed") \in Int
           /\ Project!Everything(table) =
                  Project!Total(table, "capex") + Project!Total(table, "opex") + Project!Total(table, "mixed")
<1>1. PICK f : f = [i \in owners |-> table[i].amount]
  OBVIOUS
<1>2. DOMAIN table = owners /\ \A i \in owners : table[i].amount \in Int /\ f[i] \in Int
  BY <1>1 DEF RowsHold
<1>3. PICK C : C = {r \in owners : table[r].class = "capex"}
  OBVIOUS
<1>4. PICK O : O = {r \in owners : table[r].class = "opex"}
  OBVIOUS
<1>5. PICK M : M = {r \in owners : table[r].class = "mixed"}
  OBVIOUS
<1>6. PICK N : N = {r \in owners : table[r].class = "none"}
  OBVIOUS
<1>7. owners = (C \cup O) \cup (M \cup N)
  BY <1>3, <1>4, <1>5, <1>6 DEF RowsHold, Project!Classes, Project!NoLine
<1>8. C \cap O = {} /\ M \cap N = {} /\ (C \cup O) \cap (M \cup N) = {}
  BY <1>3, <1>4, <1>5, <1>6
<1>9. \A i \in N : f[i] = 0
  BY <1>1, <1>6 DEF RowsHold, Project!Classes, Project!NoLine
<1>10. /\ C \in SUBSET owners /\ O \in SUBSET owners /\ M \in SUBSET owners /\ N \in SUBSET owners
       /\ C \cup O \in SUBSET owners /\ M \cup N \in SUBSET owners /\ owners \in SUBSET owners
  BY <1>7
<1>11. /\ IsFiniteSet(C) /\ IsFiniteSet(O) /\ IsFiniteSet(M) /\ IsFiniteSet(N)
       /\ IsFiniteSet(C \cup O) /\ IsFiniteSet(M \cup N)
  BY <1>10, FS_Subset
<1>12. \A T \in SUBSET owners : Tally(f, T) \in Int
  <2>1. \A i \in owners : f[i] \in Int
    BY <1>2
  <2>2. \A T \in SUBSET owners : /\ Tally(f, T) \in Int
                                 /\ \A x \in T : Tally(f, T) = f[x] + Tally(f, T \ {x})
    BY <2>1, TallyStep
  <2> QED
    BY <2>2
<1>13. Tally(f, C \cup O) = Tally(f, C) + Tally(f, O)
  <2>1. \A i \in C \cup O : f[i] \in Int
    BY <1>2, <1>10
  <2> QED
    BY <1>8, <1>11, <2>1, TallyOfParts
<1>14. Tally(f, M \cup N) = Tally(f, M) + Tally(f, N)
  <2>1. \A i \in M \cup N : f[i] \in Int
    BY <1>2, <1>10
  <2> QED
    BY <1>8, <1>11, <2>1, TallyOfParts
<1>15. Tally(f, (C \cup O) \cup (M \cup N)) = Tally(f, C \cup O) + Tally(f, M \cup N)
  <2>1. \A i \in (C \cup O) \cup (M \cup N) : f[i] \in Int
    BY <1>2, <1>7
  <2> QED
    BY <1>8, <1>11, <2>1, TallyOfParts
<1>16. Tally(f, N) = 0
  <2>1. \A i \in N : f[i] \in Int /\ f[i] = 0 * f[i] + 0 * f[i]
    BY <1>9
  <2>2. Tally(f, N) = 0 * Tally(f, N) + 0 * Tally(f, N)
    BY <1>11, <2>1, TallyIsLinear
  <2> QED
    BY <1>10, <1>12, <2>2
<1>17. Tally(f, owners) = Tally(f, C) + Tally(f, O) + Tally(f, M)
  <2>1. PICK c \in Int : c = Tally(f, C)
    BY <1>10, <1>12
  <2>2. PICK o \in Int : o = Tally(f, O)
    BY <1>10, <1>12
  <2>3. PICK m \in Int : m = Tally(f, M)
    BY <1>10, <1>12
  <2> QED
    BY <1>7, <1>13, <1>14, <1>15, <1>16, <2>1, <2>2, <2>3
<1>18. /\ Project!Total(table, "capex") = Tally(f, C)
       /\ Project!Total(table, "opex") = Tally(f, O)
       /\ Project!Total(table, "mixed") = Tally(f, M)
       /\ Project!Everything(table) = Tally(f, owners)
  <2>1. \A S \in SUBSET owners : (CHOOSE g : AddsRows(g, table, S))[S] = Tally(f, S)
    <3> TAKE S \in SUBSET owners
    <3>1. \A i \in owners : table[i].amount \in Int
      BY <1>2
    <3> QED
      BY <1>1, <3>1, RowSums
  <2>2. \A class : Project!Total(table, class) =
            (CHOOSE g : AddsRows(g, table, {r \in owners : table[r].class = class}))[{r \in owners : table[r].class = class}]
    BY <1>2, TotalOfRows
  <2>3. Project!Everything(table) = (CHOOSE g : AddsRows(g, table, owners))[owners]
    BY <1>2, EverythingOfRows
  <2>4. Project!Total(table, "capex") = Tally(f, C)
    BY <1>3, <1>10, <2>1, <2>2
  <2>5. Project!Total(table, "opex") = Tally(f, O)
    BY <1>4, <1>10, <2>1, <2>2
  <2>6. Project!Total(table, "mixed") = Tally(f, M)
    BY <1>5, <1>10, <2>1, <2>2
  <2> QED
    BY <1>10, <2>1, <2>3, <2>4, <2>5, <2>6
<1> QED
  BY <1>10, <1>12, <1>17, <1>18

\* No line of a budget is mixed.
LEMMA NoMixedLine ==
    ASSUME LinesAreFew, RowsHold(fund, BudgetLines, Project!LineClasses)
    PROVE  RowsHold(fund, BudgetLines, Project!Classes) /\ Project!Total(fund, "mixed") = 0
<1>1. RowsHold(fund, BudgetLines, Project!Classes)
  BY DEF RowsHold, Project!Classes, Project!LineClasses
<1>2. {r \in DOMAIN fund : fund[r].class = "mixed"} = {}
  BY DEF RowsHold, Project!LineClasses, Project!NoLine
<1>3. PICK f : f = [i \in BudgetLines |-> fund[i].amount]
  OBVIOUS
<1>4. (CHOOSE g : AddsRows(g, fund, {}))[{}] = Tally(f, {})
  <2>1. \A i \in BudgetLines : fund[i].amount \in Int
    BY DEF RowsHold
  <2>2. {} \in SUBSET BudgetLines /\ IsFiniteSet(BudgetLines)
    BY DEF LinesAreFew
  <2> QED
    BY <1>3, <2>1, <2>2, RowSums
<1>5. Project!Total(fund, "mixed") = (CHOOSE g : AddsRows(g, fund, {}))[{}]
  BY <1>2, TotalOfRows
<1> QED
  BY <1>1, <1>4, <1>5, TallyOfNone
-----------------------------------------------------------------------------
\* One more conversion, or one more stage
LEMMA ChainGrows ==
    ASSUME NEW turns, NEW from \in Project!Classes, NEW to \in Project!Classes, Chained(turns, from)
    PROVE  LET more == Append(turns, [from |-> from, to |-> to])
           IN Chained(more, to) /\ more # <<>>
<1>1. PICK T : T = [from : Project!Classes, to : Project!Classes]
  OBVIOUS
<1>2. PICK turn \in T : turn = [from |-> from, to |-> to]
  BY <1>1
<1>3. PICK more : more = Append(turns, turn)
  OBVIOUS
<1>4. PICK n \in Nat : n = Len(turns)
  BY LenProperties DEF Chained
<1>5. turns \in Seq(T)
  BY <1>1 DEF Chained
<1>6. /\ more \in Seq(T) /\ Len(more) = n + 1 /\ more[n + 1] = turn
      /\ \A i \in 1 .. n : more[i] = turns[i]
  BY <1>3, <1>4, <1>5, AppendProperties
<1>7. \A i \in 1 .. n : more[i].to = more[i + 1].from
  <2> TAKE i \in 1 .. n
  <2>1. CASE i = n
    <3>1. turns # <<>>
      BY <1>4, <1>5, <2>1, EmptySeq
    <3> QED
      BY <1>2, <1>4, <1>6, <2>1, <3>1 DEF Chained
  <2>2. CASE i # n
    <3>1. i \in 1 .. n - 1 /\ i + 1 \in 1 .. n
      BY <1>4, <2>2
    <3> QED
      BY <1>4, <1>6, <3>1 DEF Chained
  <2> QED
    BY <2>1, <2>2
<1>8. more # <<>> /\ Len(more) - 1 = n /\ more[Len(more)].to = to
  BY <1>2, <1>4, <1>6, EmptySeq
<1>9. Chained(more, to)
  BY <1>1, <1>6, <1>7, <1>8 DEF Chained
<1> QED
  BY <1>2, <1>3, <1>8, <1>9

LEMMA StagesGrow ==
    ASSUME NEW stages \in Seq(Stages), stages # <<>>, NEW to \in Stages
    PROVE  EndsIn(Append(stages, to), to) /\ Len(Append(stages, to)) > 1
<1>1. PICK more : more = Append(stages, to)
  OBVIOUS
<1>2. PICK n \in Nat : n = Len(stages)
  BY LenProperties
<1>3. more \in Seq(Stages) /\ Len(more) = n + 1 /\ more[n + 1] = to
  BY <1>1, <1>2, AppendProperties
<1>4. more # <<>> /\ n > 0
  BY <1>2, <1>3, EmptySeq
<1> QED
  BY <1>1, <1>2, <1>3, <1>4 DEF EndsIn

\* A call writes what it read with one entry more.
LEMMA WriteStep ==
    ASSUME BookInv, NEW p \in Projects, NEW r, ProjectHolds(r), NEW k \in Bookkeepers,
           project' = [project EXCEPT ![p] = r], entry' = [entry EXCEPT ![k] = Project!NoEntry],
           UNCHANGED <<fund, order>>
    PROVE  BookInv'
<1>1. /\ project' = [q \in Projects |-> project'[q]] /\ project'[p] = r
      /\ \A q \in Projects \ {p} : project'[q] = project[q]
  BY DEF BookInv
<1>2. /\ entry' = [j \in Bookkeepers |-> entry'[j]] /\ entry'[k] = Project!NoEntry
      /\ \A j \in Bookkeepers \ {k} : entry'[j] = entry[j]
  BY DEF BookInv
<1>3. r # Project!NoProject
  BY DEF ProjectHolds, Project!NoProject, Project!Classes
<1>4. \A q \in Projects : project'[q] = Project!NoProject \/ ProjectHolds(project'[q])
  BY <1>1 DEF BookInv
<1>5. \A q \in Projects : project[q] # Project!NoProject => project'[q] # Project!NoProject
  BY <1>1, <1>3
<1>6. Project!NoEntry.kind = "none"
  BY DEF Project!NoEntry
<1>7. \A j \in Bookkeepers : /\ EntryHolds(entry'[j])
                             /\ entry'[j].kind \in {"class", "stage"} => project'[entry'[j].on] # Project!NoProject
  <2>1. EntryHolds(entry'[k]) /\ entry'[k].kind \notin {"class", "stage"}
    BY <1>2, <1>6 DEF EntryHolds
  <2>2. ASSUME NEW j \in Bookkeepers \ {k}, entry[j].kind \in {"class", "stage"}
        PROVE  entry[j].on \in Projects /\ project'[entry[j].on] # Project!NoProject
    BY <1>5, <2>2 DEF BookInv, EntryHolds
  <2> QED
    BY <1>2, <2>1, <2>2 DEF BookInv
<1> QED
  BY <1>1, <1>2, <1>4, <1>7 DEF BookInv

LEMMA ReadStep ==
    ASSUME BookInv, NEW p \in Projects, project[p] # Project!NoProject, NEW e, EntryHolds(e), e.on = p,
           NEW k \in Bookkeepers, entry' = [entry EXCEPT ![k] = e], UNCHANGED <<project, fund, order>>
    PROVE  BookInv'
<1>1. /\ entry' = [j \in Bookkeepers |-> entry'[j]] /\ entry'[k] = e
      /\ \A j \in Bookkeepers \ {k} : entry'[j] = entry[j]
  BY DEF BookInv
<1>2. \A j \in Bookkeepers : /\ EntryHolds(entry'[j])
                             /\ entry'[j].kind \in {"class", "stage"} => project[entry'[j].on] # Project!NoProject
  BY <1>1 DEF BookInv
<1> QED
  BY <1>1, <1>2 DEF BookInv

LEMMA RowStep ==
    ASSUME NEW table, NEW after, NEW owners, NEW classes, RowsHold(table, owners, classes), NEW i \in owners,
           NEW class \in classes, NEW amount \in Int,
           after = [table EXCEPT ![i] = [class |-> class, amount |-> amount]]
    PROVE  RowsHold(after, owners, classes)
<1>1. /\ after = [j \in owners |-> after[j]] /\ after[i] = [class |-> class, amount |-> amount]
      /\ \A j \in owners \ {i} : after[j] = table[j]
  BY DEF RowsHold
<1>2. /\ after[i] = [class |-> after[i].class, amount |-> after[i].amount]
      /\ after[i].amount \in Int /\ after[i].class \in classes
  BY <1>1
<1> QED
  BY <1>1, <1>2 DEF RowsHold

\* The invariant holds at first, every step keeps it, and it has what is to hold in it.
LEMMA BookInductive ==
    ASSUME LinesAreFew
    PROVE  /\ Project!BookInit => BookInv
           /\ BookInv /\ [Project!BookNext]_(Project!bookVars) => BookInv'
           /\ BookInv => Project!BooksBalance
<1>1. ASSUME Project!BookInit PROVE BookInv
  <2>1. /\ project = [p \in Projects |-> Project!NoProject] /\ entry = [k \in Bookkeepers |-> Project!NoEntry]
        /\ fund = [b \in BudgetLines |-> Project!NoLine] /\ order = [o \in ChangeOrders |-> Project!NoLine]
    BY <1>1 DEF Project!BookInit
  <2>2. EntryHolds(Project!NoEntry) /\ Project!NoEntry.kind = "none"
    BY DEF EntryHolds, Project!NoEntry
  <2>3. /\ RowsHold(fund, BudgetLines, Project!LineClasses)
        /\ RowsHold(order, ChangeOrders, Project!Classes)
    BY <2>1 DEF RowsHold, Project!NoLine
  <2> QED
    BY <2>1, <2>2, <2>3 DEF BookInv
<1>2. ASSUME BookInv, [Project!BookNext]_(Project!bookVars) PROVE BookInv'
  <2> USE <1>2
  <2>1. CASE UNCHANGED Project!bookVars
    <3>1. UNCHANGED <<project, fund, order, entry>>
      BY <2>1 DEF Project!bookVars
    <3> QED
      BY <3>1 DEF BookInv
  <2>2. ASSUME NEW p \in Projects, NEW class \in Project!Classes, NEW stage \in Stages,
               Project!CreateProject(p, class, stage)
        PROVE  BookInv'
    <3>1. PICK r : r = [class |-> class, stage |-> stage, closed |-> FALSE, stages |-> <<stage>>, turns |-> <<>>]
      OBVIOUS
    <3>2. project' = [project EXCEPT ![p] = r] /\ UNCHANGED <<fund, order, entry>>
      BY <2>2, <3>1 DEF Project!CreateProject
    <3>3. ProjectHolds(r)
      <4>1. EndsIn(<<stage>>, stage)
        BY DEF EndsIn
      <4>2. Chained(<<>>, class)
        BY DEF Chained
      <4>3. Len(<<stage>>) = 1
        OBVIOUS
      <4> QED
        BY <3>1, <4>1, <4>2, <4>3 DEF ProjectHolds, EndsIn, Chained
    <3>4. r # Project!NoProject
      BY <3>3 DEF ProjectHolds, Project!NoProject, Project!Classes
    <3>5. /\ project' = [q \in Projects |-> project'[q]] /\ project'[p] = r
          /\ \A q \in Projects \ {p} : project'[q] = project[q]
      BY <3>2 DEF BookInv
    <3>6. \A q \in Projects : project'[q] = Project!NoProject \/ ProjectHolds(project'[q])
      BY <3>3, <3>5 DEF BookInv
    <3>7. \A q \in Projects : project[q] # Project!NoProject => project'[q] # Project!NoProject
      BY <3>4, <3>5
    <3>8. ASSUME NEW k \in Bookkeepers, entry[k].kind \in {"class", "stage"}
          PROVE  project'[entry[k].on] # Project!NoProject
      BY <3>7, <3>8 DEF BookInv, EntryHolds
    <3> QED
      BY <3>2, <3>5, <3>6, <3>8 DEF BookInv
  <2>3. ASSUME NEW p \in Projects, NEW k \in Bookkeepers, NEW to \in Project!Classes, Project!ReadClass(k, p, to)
        PROVE  BookInv'
    <3>1. PICK e : e = [on |-> p, kind |-> "class", to |-> to,
                        history |-> Append(project[p].turns, [from |-> project[p].class, to |-> to])]
      OBVIOUS
    <3>2. /\ project[p] # Project!NoProject /\ entry' = [entry EXCEPT ![k] = e]
          /\ UNCHANGED <<project, fund, order>>
      BY <2>3, <3>1 DEF Project!ReadClass
    <3>3. ProjectHolds(project[p])
      BY <3>2 DEF BookInv
    <3>4. Chained(e.history, to) /\ e.history # <<>>
      BY <3>1, <3>3, ChainGrows DEF ProjectHolds
    <3>5. EntryHolds(e) /\ e.on = p
      BY <3>1, <3>4 DEF EntryHolds
    <3> QED
      BY <3>2, <3>5, ReadStep
  <2>4. ASSUME NEW p \in Projects, NEW k \in Bookkeepers, NEW to \in Stages, Project!ReadStage(k, p, to)
        PROVE  BookInv'
    <3>1. PICK e : e = [on |-> p, kind |-> "stage", to |-> to, history |-> Append(project[p].stages, to)]
      OBVIOUS
    <3>2. /\ project[p] # Project!NoProject /\ entry' = [entry EXCEPT ![k] = e]
          /\ UNCHANGED <<project, fund, order>>
      BY <2>4, <3>1 DEF Project!ReadStage
    <3>3. ProjectHolds(project[p])
      BY <3>2 DEF BookInv
    <3>4. EndsIn(e.history, to) /\ Len(e.history) > 1
      BY <3>1, <3>3, StagesGrow DEF ProjectHolds, EndsIn
    <3>5. EntryHolds(e) /\ e.on = p
      BY <3>1, <3>4 DEF EntryHolds
    <3> QED
      BY <3>2, <3>5, ReadStep
  <2>5. ASSUME NEW k \in Bookkeepers, Project!WriteClass(k) PROVE BookInv'
    <3>1. PICK p : p = entry[k].on
      OBVIOUS
    <3>2. entry[k].kind = "class"
      BY <2>5 DEF Project!WriteClass
    <3>3. /\ p \in Projects /\ entry[k].to \in Project!Classes /\ Chained(entry[k].history, entry[k].to)
          /\ project[p] # Project!NoProject
      BY <3>1, <3>2 DEF BookInv, EntryHolds
    <3>4. ProjectHolds(project[p])
      BY <3>3 DEF BookInv
    <3>5. PICK r : r = [project[p] EXCEPT !.class = entry[k].to, !.turns = entry[k].history]
      OBVIOUS
    <3>6. /\ r.class = entry[k].to /\ r.turns = entry[k].history /\ r.stage = project[p].stage
          /\ r.closed = project[p].closed /\ r.stages = project[p].stages
          /\ r \in [class : Project!Classes, stage : Stages, closed : BOOLEAN, stages : Seq(Stages),
                    turns : Seq([from : Project!Classes, to : Project!Classes])]
      BY <3>3, <3>4, <3>5 DEF ProjectHolds, Chained
    <3>7. ProjectHolds(r)
      BY <3>3, <3>4, <3>6 DEF ProjectHolds
    <3>8. project' = [project EXCEPT ![p] = r]
      BY <2>5, <3>1, <3>3, <3>5 DEF Project!WriteClass, BookInv
    <3>9. entry' = [entry EXCEPT ![k] = Project!NoEntry] /\ UNCHANGED <<fund, order>>
      BY <2>5 DEF Project!WriteClass
    <3> QED
      BY <3>3, <3>7, <3>8, <3>9, WriteStep
  <2>6. ASSUME NEW k \in Bookkeepers, Project!AdvanceStage(k) PROVE BookInv'
    <3>1. PICK p : p = entry[k].on
      OBVIOUS
    <3>2. entry[k].kind = "stage"
      BY <2>6 DEF Project!AdvanceStage
    <3>3. /\ p \in Projects /\ EndsIn(entry[k].history, entry[k].to) /\ Len(entry[k].history) > 1
          /\ project[p] # Project!NoProject
      BY <3>1, <3>2 DEF BookInv, EntryHolds
    <3>4. ProjectHolds(project[p])
      BY <3>3 DEF BookInv
    <3>5. PICK r : r = [project[p] EXCEPT !.stage = entry[k].to, !.stages = entry[k].history,
                                          !.closed = (entry[k].to = "closed")]
      OBVIOUS
    <3>6. /\ r.class = project[p].class /\ r.turns = project[p].turns /\ r.stage = entry[k].to
          /\ (r.closed <=> entry[k].to = "closed") /\ r.stages = entry[k].history
          /\ r \in [class : Project!Classes, stage : Stages, closed : BOOLEAN, stages : Seq(Stages),
                    turns : Seq([from : Project!Classes, to : Project!Classes])]
      BY <3>3, <3>4, <3>5 DEF ProjectHolds, EndsIn
    <3>7. ProjectHolds(r)
      BY <3>3, <3>4, <3>6 DEF ProjectHolds
    <3>8. project' = [project EXCEPT ![p] = r]
      BY <2>6, <3>1, <3>3, <3>5 DEF Project!AdvanceStage, BookInv
    <3>9. entry' = [entry EXCEPT ![k] = Project!NoEntry] /\ UNCHANGED <<fund, order>>
      BY <2>6 DEF Project!AdvanceStage
    <3> QED
      BY <3>3, <3>7, <3>8, <3>9, WriteStep
  <2>7. ASSUME NEW b \in BudgetLines, NEW class \in Project!LineClasses, Project!AddBudgetLine(b, class, 2)
        PROVE  BookInv'
    <3>1. fund' = [fund EXCEPT ![b] = [class |-> class, amount |-> 2]] /\ UNCHANGED <<project, order, entry>>
      BY <2>7 DEF Project!AddBudgetLine
    <3>2. 2 \in Int /\ RowsHold(fund, BudgetLines, Project!LineClasses)
      BY DEF BookInv
    <3>3. RowsHold(fund', BudgetLines, Project!LineClasses)
      BY <3>1, <3>2, RowStep
    <3> QED
      BY <3>1, <3>3 DEF BookInv
  <2>8. ASSUME NEW b \in BudgetLines, NEW class \in Project!LineClasses, Project!ConvertLineClassification(b, class)
        PROVE  BookInv'
    <3>1. /\ fund[b] # Project!NoLine /\ fund' = [fund EXCEPT ![b].class = class]
          /\ UNCHANGED <<project, order, entry>>
      BY <2>8 DEF Project!ConvertLineClassification
    <3>2. /\ fund[b] = [class |-> fund[b].class, amount |-> fund[b].amount] /\ fund[b].amount \in Int
          /\ fund = [i \in BudgetLines |-> fund[i]]
      BY DEF BookInv, RowsHold
    <3>3. [fund[b] EXCEPT !.class = class] = [class |-> class, amount |-> fund[b].amount]
      BY <3>2
    <3>4. fund' = [fund EXCEPT ![b] = [class |-> class, amount |-> fund[b].amount]]
      BY <3>1, <3>2, <3>3
    <3>5. RowsHold(fund', BudgetLines, Project!LineClasses)
      BY <3>2, <3>4, RowStep DEF BookInv
    <3> QED
      BY <3>1, <3>5 DEF BookInv
  <2>9. ASSUME NEW o \in ChangeOrders, NEW class \in Project!Classes, NEW amount \in {-1, 3},
               Project!ApproveOrder(o, class, amount)
        PROVE  BookInv'
    <3>1. /\ order' = [order EXCEPT ![o] = [class |-> class, amount |-> amount]]
          /\ UNCHANGED <<project, fund, entry>>
      BY <2>9 DEF Project!ApproveOrder
    <3>2. amount \in Int /\ RowsHold(order, ChangeOrders, Project!Classes)
      BY DEF BookInv
    <3>3. RowsHold(order', ChangeOrders, Project!Classes)
      BY <3>1, <3>2, RowStep
    <3> QED
      BY <3>1, <3>3 DEF BookInv
  <2> QED
    BY <2>1, <2>2, <2>3, <2>4, <2>5, <2>6, <2>7, <2>8, <2>9 DEF Project!BookNext
<1>3. ASSUME BookInv PROVE Project!BooksBalance
  <2>1. ASSUME NEW p \in Projects, project[p] # Project!NoProject
        PROVE  LET turns == project[p].turns IN
               /\ project[p].stage = project[p].stages[Len(project[p].stages)]
               /\ project[p].closed <=> project[p].stage = "closed" /\ Len(project[p].stages) > 1
               /\ \A i \in 1 .. Len(turns) - 1 : turns[i].to = turns[i + 1].from
               /\ turns # <<>> => turns[Len(turns)].to = project[p].class
    BY <1>3, <2>1 DEF BookInv, ProjectHolds, EndsIn, Chained
  <2>2. Project!TotalPlanned = Project!Everything(fund) + Project!Everything(order) - Project!Total(order, "mixed")
    <3>1. RowsHold(fund, BudgetLines, Project!Classes) /\ Project!Total(fund, "mixed") = 0
      BY <1>3, NoMixedLine DEF BookInv
    <3>2. /\ Project!Total(fund, "capex") \in Int /\ Project!Total(fund, "opex") \in Int
          /\ Project!Everything(fund) = Project!Total(fund, "capex") + Project!Total(fund, "opex") + Project!Total(fund, "mixed")
      BY <3>1, ClassesAddUp DEF LinesAreFew
    <3>3. /\ Project!Total(order, "capex") \in Int /\ Project!Total(order, "opex") \in Int
          /\ Project!Total(order, "mixed") \in Int
          /\ Project!Everything(order) = Project!Total(order, "capex") + Project!Total(order, "opex") + Project!Total(order, "mixed")
      BY <1>3, ClassesAddUp DEF LinesAreFew, BookInv
    <3>4. Project!TotalPlanned = Project!Total(fund, "capex") + Project!Total(fund, "opex")
                                     + Project!Total(order, "capex") + Project!Total(order, "opex")
      BY DEF Project!TotalPlanned
    <3>5. PICK c \in Int : c = Project!Total(fund, "capex")
      BY <3>2
    <3>6. PICK o \in Int : o = Project!Total(fund, "opex")
      BY <3>2
    <3>7. PICK d \in Int : d = Project!Total(order, "capex")
      BY <3>3
    <3>8. PICK q \in Int : q = Project!Total(order, "opex")
      BY <3>3
    <3>9. PICK m \in Int : m = Project!Total(order, "mixed")
      BY <3>3
    <3> QED
      BY <3>1, <3>2, <3>3, <3>4, <3>5, <3>6, <3>7, <3>8, <3>9
  <2> QED
    BY <2>1, <2>2 DEF Project!BooksBalance
<1> QED
  BY <1>1, <1>2, <1>3
-----------------------------------------------------------------------------
(* Reports: the state of compliance *)

BoardInv ==
    /\ plans \in [Addresses -> [Report!Days -> Nat]]
    /\ stuck \in Nat
    /\ unproven \in Nat

LEMMA CountIsTally == \A b, ds : Report!Count(b, ds) = Tally(plans[b], ds)
BY DEF Report!Count, Report!SumFunctionOnSet, Report!FoldFunctionOnSet, Report!MapThenFoldSet, Tally, Adds, Chosen

LEMMA TotalIsTally ==
    \A ds : Report!Total(ds) = Tally([b \in Addresses |-> Report!Count(b, ds)], Addresses)
BY DEF Report!Total, Report!FoldFunction, Report!FoldFunctionOnSet, Report!MapThenFoldSet, Tally, Adds, Chosen

LEMMA DaysAreFinite ==
    ASSUME BuildingsAreFew
    PROVE  /\ IsFiniteSet(Report!Days)
           /\ Report!Overdue \subseteq Report!Days /\ Report!Upcoming \subseteq Report!Days
           /\ Report!Compliant \subseteq Report!Days
           /\ Report!Days = Report!Overdue \cup (Report!Upcoming \cup Report!Compliant)
           /\ Report!Overdue \cap (Report!Upcoming \cup Report!Compliant) = {}
           /\ Report!Upcoming \cap Report!Compliant = {}
<1>1. IsFiniteSet(Report!Days)
  <2>1. /\ IsFiniteSet({}) /\ IsFiniteSet({} \cup {-1}) /\ IsFiniteSet(({} \cup {-1}) \cup {0})
        /\ IsFiniteSet((({} \cup {-1}) \cup {0}) \cup {Horizon})
        /\ IsFiniteSet(((({} \cup {-1}) \cup {0}) \cup {Horizon}) \cup {Horizon + 1})
    BY FS_EmptySet, FS_AddElement
  <2>2. Report!Days = ((({} \cup {-1}) \cup {0}) \cup {Horizon}) \cup {Horizon + 1}
    BY DEF Report!Days
  <2> QED
    BY <2>1, <2>2
<1>2. Report!Days \subseteq Int /\ Horizon \in Int
  BY DEF Report!Days, BuildingsAreFew
<1>3. ASSUME NEW d \in Report!Days
      PROVE  /\ d < 0 \/ (d >= 0 /\ d <= Horizon) \/ d > Horizon
             /\ ~(d < 0 /\ d >= 0) /\ ~(d < 0 /\ d > Horizon) /\ ~(d <= Horizon /\ d > Horizon)
  <2>1. d \in Int /\ Horizon \in Nat
    BY <1>2 DEF BuildingsAreFew
  <2> QED
    BY <2>1
<1>4. ASSUME NEW d \in Report!Days
      PROVE  /\ d \in Report!Overdue <=> d < 0
             /\ d \in Report!Upcoming <=> d >= 0 /\ d <= Horizon
             /\ d \in Report!Compliant <=> d > Horizon
  BY DEF Report!Overdue, Report!Upcoming, Report!Compliant
<1>5. /\ Report!Overdue \subseteq Report!Days /\ Report!Upcoming \subseteq Report!Days
      /\ Report!Compliant \subseteq Report!Days
  BY DEF Report!Overdue, Report!Upcoming, Report!Compliant
<1>6. ASSUME NEW d \in Report!Days
      PROVE  /\ d \in Report!Overdue \/ d \in Report!Upcoming \/ d \in Report!Compliant
             /\ d \in Report!Overdue => d \notin Report!Upcoming /\ d \notin Report!Compliant
             /\ d \in Report!Upcoming => d \notin Report!Compliant
  BY <1>3, <1>4
<1> QED
  BY <1>1, <1>5, <1>6

\* What is due in a building, of each sort, adds up to what there is.
LEMMA CountParts ==
    ASSUME BuildingsAreFew, BoardInv, NEW b \in Addresses
    PROVE  /\ Report!Count(b, Report!Overdue) \in Nat /\ Report!Count(b, Report!Upcoming) \in Nat
           /\ Report!Count(b, Report!Compliant) \in Nat
           /\ Report!Count(b, Report!Days) =
                  Report!Count(b, Report!Overdue) + Report!Count(b, Report!Upcoming) + Report!Count(b, Report!Compliant)
<1>1. PICK f : f = plans[b]
  OBVIOUS
<1>2. PICK D : D = Report!Days
  OBVIOUS
<1>3. PICK O : O = Report!Overdue
  OBVIOUS
<1>4. PICK U : U = Report!Upcoming
  OBVIOUS
<1>5. PICK C : C = Report!Compliant
  OBVIOUS
<1>6. /\ IsFiniteSet(D) /\ O \subseteq D /\ U \subseteq D /\ C \subseteq D
      /\ D = O \cup (U \cup C) /\ O \cap (U \cup C) = {} /\ U \cap C = {}
  BY <1>2, <1>3, <1>4, <1>5, DaysAreFinite
<1>7. \A d \in D : f[d] \in Nat
  BY <1>1, <1>2 DEF BoardInv
<1>8. IsFiniteSet(O) /\ IsFiniteSet(U) /\ IsFiniteSet(C) /\ IsFiniteSet(U \cup C)
  <2>1. U \cup C \subseteq D
    BY <1>6
  <2> QED
    BY <1>6, <2>1, FS_Subset
<1>9. Tally(f, O) \in Nat /\ Tally(f, U) \in Nat /\ Tally(f, C) \in Nat
  <2>1. /\ \A d \in O : f[d] \in Nat
        /\ \A d \in U : f[d] \in Nat
        /\ \A d \in C : f[d] \in Nat
    BY <1>6, <1>7
  <2> QED
    BY <1>8, <2>1, TallyIsPositive
<1>10. Tally(f, U \cup C) = Tally(f, U) + Tally(f, C)
  <2>1. \A d \in U \cup C : f[d] \in Int
    BY <1>6, <1>7
  <2> QED
    BY <1>6, <1>8, <2>1, TallyOfParts
<1>11. Tally(f, O \cup (U \cup C)) = Tally(f, O) + Tally(f, U \cup C)
  <2>1. \A d \in O \cup (U \cup C) : f[d] \in Int
    BY <1>6, <1>7
  <2> QED
    BY <1>6, <1>8, <2>1, TallyOfParts
<1>12. Tally(f, D) = Tally(f, O) + Tally(f, U) + Tally(f, C)
  BY <1>6, <1>9, <1>10, <1>11
<1> QED
  BY <1>1, <1>2, <1>3, <1>4, <1>5, <1>9, <1>12, CountIsTally

\* And so do the totals of a tenant.
LEMMA TotalParts ==
    ASSUME BuildingsAreFew, BoardInv
    PROVE  /\ Report!Total(Report!Overdue) \in Nat /\ Report!Total(Report!Upcoming) \in Nat
           /\ Report!Total(Report!Compliant) \in Nat
           /\ Report!Total(Report!Days) =
                  Report!Total(Report!Overdue) + Report!Total(Report!Upcoming) + Report!Total(Report!Compliant)
<1>1. PICK o : o = [b \in Addresses |-> Report!Count(b, Report!Overdue)]
  OBVIOUS
<1>2. PICK u : u = [b \in Addresses |-> Report!Count(b, Report!Upcoming)]
  OBVIOUS
<1>3. PICK c : c = [b \in Addresses |-> Report!Count(b, Report!Compliant)]
  OBVIOUS
<1>4. PICK d : d = [b \in Addresses |-> Report!Count(b, Report!Days)]
  OBVIOUS
<1>5. PICK l : l = [b \in Addresses |-> u[b] + c[b]]
  OBVIOUS
<1>6. \A b \in Addresses : /\ o[b] \in Nat /\ u[b] \in Nat /\ c[b] \in Nat
                           /\ l[b] = u[b] + c[b] /\ d[b] = o[b] + l[b] /\ l[b] \in Nat
  <2> TAKE b \in Addresses
  <2>1. PICK x \in Nat : x = Report!Count(b, Report!Overdue)
    BY CountParts
  <2>2. PICK y \in Nat : y = Report!Count(b, Report!Upcoming)
    BY CountParts
  <2>3. PICK z \in Nat : z = Report!Count(b, Report!Compliant)
    BY CountParts
  <2>4. Report!Count(b, Report!Days) = x + y + z
    BY <2>1, <2>2, <2>3, CountParts
  <2>5. o[b] = x /\ u[b] = y /\ c[b] = z /\ l[b] = y + z /\ d[b] = x + y + z
    BY <1>1, <1>2, <1>3, <1>4, <1>5, <2>1, <2>2, <2>3, <2>4
  <2> QED
    BY <2>5
<1>7. IsFiniteSet(Addresses)
  BY DEF BuildingsAreFew
<1>8. Tally(o, Addresses) \in Nat /\ Tally(u, Addresses) \in Nat /\ Tally(c, Addresses) \in Nat
  <2>1. /\ \A b \in Addresses : o[b] \in Nat
        /\ \A b \in Addresses : u[b] \in Nat
        /\ \A b \in Addresses : c[b] \in Nat
    BY <1>6
  <2> QED
    BY <1>7, <2>1, TallyIsPositive
<1>9. Tally(l, Addresses) = 1 * Tally(u, Addresses) + 1 * Tally(c, Addresses)
  <2>1. \A b \in Addresses : u[b] \in Int /\ c[b] \in Int /\ l[b] = 1 * u[b] + 1 * c[b]
    BY <1>6
  <2>2. 1 \in Int
    OBVIOUS
  <2> QED
    BY <1>7, <2>1, <2>2, TallyIsLinear
<1>10. Tally(d, Addresses) = 1 * Tally(o, Addresses) + 1 * Tally(l, Addresses)
  <2>1. \A b \in Addresses : o[b] \in Int /\ l[b] \in Int /\ d[b] = 1 * o[b] + 1 * l[b]
    BY <1>6
  <2>2. 1 \in Int
    OBVIOUS
  <2> QED
    BY <1>7, <2>1, <2>2, TallyIsLinear
<1>11. Tally(d, Addresses) = Tally(o, Addresses) + Tally(u, Addresses) + Tally(c, Addresses)
  BY <1>8, <1>9, <1>10
<1> QED
  BY <1>1, <1>2, <1>3, <1>4, <1>8, <1>11, TotalIsTally

\* A quotient, as the number that is between two products
LEMMA Quotient ==
    ASSUME NEW x \in Nat, NEW y \in Nat, y > 0
    PROVE  /\ x \div y \in Nat /\ y * (x \div y) <= x /\ x < y * (x \div y) + y
           /\ \A q \in Nat : y * q <= x => q <= x \div y
<1>1. x \div y \in Nat /\ y * (x \div y) <= x /\ x < y * (x \div y) + y
  BY SMT
<1>2. PICK r \in Nat : r = x \div y
  BY <1>1
<1>3. ASSUME NEW q \in Nat, y * q <= x PROVE q <= r
  <2>1. x < y * r + y
    BY <1>1, <1>2
  <2>2. SUFFICES ASSUME q >= r + 1 PROVE FALSE
    BY <1>2
  <2>3. PICK e \in Nat : q = r + 1 + e
    <3>1. q - r - 1 \in Nat /\ q = r + 1 + (q - r - 1)
      BY <2>2
    <3> QED
      BY <3>1
  <2>4. y * q = y * r + y + y * e /\ y * e >= 0
    BY <2>3
  <2> QED
    BY <1>3, <2>1, <2>4
<1> QED
  BY <1>1, <1>2, <1>3

\* A share is rounded to the nearest.
LEMMA Rounded ==
    ASSUME NEW n \in Nat, NEW t \in Nat, t > 0
    PROVE  /\ Report!Percent(n, t) \in Nat
           /\ (2 * t) * Report!Percent(n, t) <= 200 * n + t
           /\ 200 * n + t < (2 * t) * Report!Percent(n, t) + 2 * t
           /\ \A q \in Nat : (2 * t) * q <= 200 * n + t => q <= Report!Percent(n, t)
<1>1. PICK y \in Nat : y = 2 * t
  OBVIOUS
<1>2. PICK x \in Nat : x = 200 * n + t
  OBVIOUS
<1>3. Report!Percent(n, t) = x \div y /\ y > 0
  BY <1>1, <1>2 DEF Report!Percent
<1> QED
  BY <1>1, <1>2, <1>3, Quotient

\* A greater share is not rounded to less.
LEMMA RoundedInOrder ==
    ASSUME NEW n \in Nat, NEW t \in Nat, t > 0, NEW m \in Nat, NEW u \in Nat, u > 0, n * u >= m * t
    PROVE  Report!Percent(n, t) >= Report!Percent(m, u)
<1>1. PICK p \in Nat : p = Report!Percent(m, u) /\ (2 * u) * p <= 200 * m + u
  BY Rounded
<1>2. u * ((2 * t) * p) <= u * (200 * n + t)
  <2>1. t * ((2 * u) * p) <= t * (200 * m + u)
    <3>1. PICK x \in Nat : x = (2 * u) * p
      OBVIOUS
    <3>2. PICK y \in Nat : y = 200 * m + u
      OBVIOUS
    <3>3. x <= y
      BY <1>1, <3>1, <3>2
    <3>4. PICK e \in Nat : y = x + e
      <4>1. y - x \in Nat /\ y = x + (y - x)
        BY <3>3
      <4> QED
        BY <4>1
    <3>5. t * y = t * x + t * e /\ t * e >= 0
      BY <3>4
    <3> QED
      BY <3>1, <3>2, <3>5
  <2>2. u * ((2 * t) * p) = t * ((2 * u) * p)
    OBVIOUS
  <2>3. t * (200 * m + u) = 200 * (m * t) + t * u
    OBVIOUS
  <2>4. u * (200 * n + t) = 200 * (n * u) + t * u
    OBVIOUS
  <2>5. 200 * (m * t) <= 200 * (n * u)
    OBVIOUS
  <2> QED
    BY <2>1, <2>2, <2>3, <2>4, <2>5
<1>3. (2 * t) * p <= 200 * n + t
  <2>1. PICK x \in Nat : x = (2 * t) * p
    OBVIOUS
  <2>2. PICK y \in Nat : y = 200 * n + t
    OBVIOUS
  <2>3. SUFFICES ASSUME x > y PROVE FALSE
    BY <2>1, <2>2
  <2>4. PICK e \in Nat : x = y + 1 + e
    <3>1. x - y - 1 \in Nat /\ x = y + 1 + (x - y - 1)
      BY <2>3
    <3> QED
      BY <3>1
  <2>5. u * x = u * y + u + u * e /\ u * e >= 0
    BY <2>4
  <2> QED
    BY <1>2, <2>1, <2>2, <2>5
<1> QED
  BY <1>1, <1>3, Rounded

\* The shares of a tenant: three roundings are one off at most.
LEMMA SharesOfTenant ==
    ASSUME BuildingsAreFew, BoardInv
    PROVE  LET d == Report!Distribution
           IN /\ Report!Total(Report!Days) = 0 => d.pending = 100
              /\ Report!Total(Report!Days) > 0 =>
                     d.compliant + d.warning + d.overdue \in 99..101 /\ d.pending \in {0, 1}
<1>1. PICK o \in Nat : o = Report!Total(Report!Overdue)
  BY TotalParts
<1>2. PICK u \in Nat : u = Report!Total(Report!Upcoming)
  BY TotalParts
<1>3. PICK c \in Nat : c = Report!Total(Report!Compliant)
  BY TotalParts
<1>4. PICK t \in Nat : t = Report!Total(Report!Days) /\ t = o + u + c
  BY <1>1, <1>2, <1>3, TotalParts
<1>5. PICK d : d = Report!Distribution
  OBVIOUS
<1>6. /\ d.compliant = Report!Percent(c, t) /\ d.warning = Report!Percent(u, t)
      /\ d.overdue = Report!Percent(o, t)
      /\ d.pending = LET rest == 100 - d.compliant - d.warning - d.overdue IN IF rest < 0 THEN 0 ELSE rest
  BY <1>1, <1>2, <1>3, <1>4, <1>5 DEF Report!Distribution
<1>7. ASSUME t = 0 PROVE d.pending = 100
  <2>1. Report!Percent(0, 0) = 0
    BY DEF Report!Percent
  <2>2. o = 0 /\ u = 0 /\ c = 0
    BY <1>4, <1>7
  <2> QED
    BY <1>6, <1>7, <2>1, <2>2
<1>8. ASSUME t > 0 PROVE d.compliant + d.warning + d.overdue \in 99..101 /\ d.pending \in {0, 1}
  <2>1. PICK x \in Nat : x = d.compliant /\ (2 * t) * x <= 200 * c + t /\ 200 * c + t < (2 * t) * x + 2 * t
    BY <1>6, <1>8, Rounded
  <2>2. PICK y \in Nat : y = d.warning /\ (2 * t) * y <= 200 * u + t /\ 200 * u + t < (2 * t) * y + 2 * t
    BY <1>6, <1>8, Rounded
  <2>3. PICK z \in Nat : z = d.overdue /\ (2 * t) * z <= 200 * o + t /\ 200 * o + t < (2 * t) * z + 2 * t
    BY <1>6, <1>8, Rounded
  <2>4. PICK s \in Nat : s = x + y + z
    OBVIOUS
  <2>5. (2 * t) * s = (2 * t) * x + (2 * t) * y + (2 * t) * z
    BY <2>4
  <2>6. PICK w \in Nat : w = (2 * t) * s
    OBVIOUS
  <2>7. w <= 203 * t /\ 197 * t < w
    BY <1>4, <2>1, <2>2, <2>3, <2>5, <2>6
  <2>8. ~(s >= 102)
    <3>1. SUFFICES ASSUME s >= 102 PROVE FALSE
      OBVIOUS
    <3>2. PICK e \in Nat : s = 102 + e
      <4>1. s - 102 \in Nat /\ s = 102 + (s - 102)
        BY <3>1
      <4> QED
        BY <4>1
    <3>3. w = 204 * t + (2 * t) * e /\ (2 * t) * e >= 0
      BY <2>6, <3>2
    <3> QED
      BY <1>8, <2>7, <3>3
  <2>9. ~(s <= 98)
    <3>1. SUFFICES ASSUME s <= 98 PROVE FALSE
      OBVIOUS
    <3>2. PICK e \in Nat : 98 = s + e
      <4>1. 98 - s \in Nat /\ 98 = s + (98 - s)
        BY <3>1
      <4> QED
        BY <4>1
    <3>3. 196 * t = w + (2 * t) * e /\ (2 * t) * e >= 0
      <4>1. (2 * t) * 98 = (2 * t) * s + (2 * t) * e
        BY <3>2
      <4> QED
        BY <2>6, <4>1
    <3> QED
      BY <1>8, <2>7, <3>3
  <2>10. s \in 99..101
    BY <2>8, <2>9
  <2> QED
    BY <1>6, <2>1, <2>2, <2>3, <2>4, <2>10
<1> QED
  BY <1>4, <1>5, <1>7, <1>8

\* If each building had a smaller share than the tenant, the differences would not add up to
\* nothing; the same with greater shares.
LEMMA Mediant ==
    ASSUME NEW S, IsFiniteSet(S), NEW f, NEW g, \A b \in S : f[b] \in Nat /\ g[b] \in Nat /\ f[b] <= g[b],
           Tally(g, S) > 0
    PROVE  /\ Tally(f, S) \in Nat /\ Tally(g, S) \in Nat
           /\ \E b \in S : g[b] > 0 /\ f[b] * Tally(g, S) >= Tally(f, S) * g[b]
           /\ \E b \in S : g[b] > 0 /\ Tally(f, S) * g[b] >= f[b] * Tally(g, S)
<1>1. PICK n \in Nat : n = Tally(f, S)
  <2>1. \A b \in S : f[b] \in Nat
    OBVIOUS
  <2> QED
    BY <2>1, TallyIsPositive
<1>2. PICK m \in Nat : m = Tally(g, S) /\ m > 0
  <2>1. \A b \in S : g[b] \in Nat
    OBVIOUS
  <2> QED
    BY <2>1, TallyIsPositive
<1>3. PICK c \in S : g[c] > 0
  <2>1. SUFFICES ASSUME \A b \in S : ~(g[b] > 0) PROVE FALSE
    OBVIOUS
  <2>2. \A b \in S : g[b] \in Int /\ g[b] = 0 * g[b] + 0 * g[b] /\ 0 \in Int
    BY <2>1
  <2>3. Tally(g, S) = 0 * Tally(g, S) + 0 * Tally(g, S)
    BY <2>2, TallyIsLinear
  <2> QED
    BY <1>2, <2>3
<1>4. ASSUME NEW h, NEW i \in Int, NEW j \in Int, \A b \in S : h[b] = i * f[b] + j * g[b],
             i * n + j * m = 0, \A b \in S : h[b] \in Nat /\ (g[b] > 0 => h[b] > 0)
      PROVE  FALSE
  <2>1. \A b \in S : f[b] \in Int /\ g[b] \in Int /\ h[b] = i * f[b] + j * g[b]
    BY <1>4
  <2>2. Tally(h, S) = i * Tally(f, S) + j * Tally(g, S)
    BY <2>1, TallyIsLinear
  <2>3. Tally(h, S) = 0
    BY <1>1, <1>2, <1>4, <2>2
  <2>4. \A b \in S : h[b] \in Nat
    BY <1>4
  <2>5. Tally(h, S) >= h[c]
    BY <2>4, TallyIsPositive
  <2> QED
    BY <1>3, <1>4, <2>3, <2>5
<1>5. \E b \in S : g[b] > 0 /\ f[b] * m >= n * g[b]
  <2>1. SUFFICES ASSUME \A b \in S : g[b] > 0 => ~(f[b] * m >= n * g[b]) PROVE FALSE
    OBVIOUS
  <2>a. PICK i \in Int : i = -m
    OBVIOUS
  <2>2. PICK h : h = [b \in S |-> i * f[b] + n * g[b]]
    OBVIOUS
  <2>3. \A b \in S : h[b] \in Nat /\ (g[b] > 0 => h[b] > 0)
    <3> TAKE b \in S
    <3>1. PICK x \in Nat : x = f[b]
      OBVIOUS
    <3>2. PICK y \in Nat : y = g[b]
      OBVIOUS
    <3>3. h[b] = n * y - x * m /\ x <= y
      <4>1. h[b] = i * x + n * y /\ x <= y
        BY <2>2, <3>1, <3>2
      <4>2. i * x + n * y = n * y - x * m
        BY <2>a
      <4> QED
        BY <4>1, <4>2
    <3>4. CASE y = 0
      BY <3>2, <3>3, <3>4
    <3>5. CASE y > 0
      <4>1. ~(x * m >= n * y)
        BY <2>1, <3>1, <3>2, <3>5
      <4>2. PICK v \in Nat : v = x * m
        OBVIOUS
      <4>3. PICK w \in Nat : w = n * y
        OBVIOUS
      <4> QED
        BY <3>2, <3>3, <4>1, <4>2, <4>3
    <3> QED
      BY <3>4, <3>5
  <2>4. \A b \in S : h[b] = i * f[b] + n * g[b]
    BY <2>2
  <2>5. i * n + n * m = 0
    BY <2>a
  <2>6. i \in Int /\ n \in Int
    BY <2>a
  <2> QED
    BY <1>4, <2>3, <2>4, <2>5, <2>6
<1>6. \E b \in S : g[b] > 0 /\ n * g[b] >= f[b] * m
  <2>1. SUFFICES ASSUME \A b \in S : g[b] > 0 => ~(n * g[b] >= f[b] * m) PROVE FALSE
    OBVIOUS
  <2>a. PICK i \in Int : i = -n
    OBVIOUS
  <2>2. PICK h : h = [b \in S |-> m * f[b] + i * g[b]]
    OBVIOUS
  <2>3. \A b \in S : h[b] \in Nat /\ (g[b] > 0 => h[b] > 0)
    <3> TAKE b \in S
    <3>1. PICK x \in Nat : x = f[b]
      OBVIOUS
    <3>2. PICK y \in Nat : y = g[b]
      OBVIOUS
    <3>3. h[b] = x * m - n * y /\ x <= y
      <4>1. h[b] = m * x + i * y /\ x <= y
        BY <2>2, <3>1, <3>2
      <4>2. m * x + i * y = x * m - n * y
        BY <2>a
      <4> QED
        BY <4>1, <4>2
    <3>4. CASE y = 0
      BY <3>2, <3>3, <3>4
    <3>5. CASE y > 0
      <4>1. ~(n * y >= x * m)
        BY <2>1, <3>1, <3>2, <3>5
      <4>2. PICK v \in Nat : v = x * m
        OBVIOUS
      <4>3. PICK w \in Nat : w = n * y
        OBVIOUS
      <4> QED
        BY <3>2, <3>3, <4>1, <4>2, <4>3
    <3> QED
      BY <3>4, <3>5
  <2>4. \A b \in S : h[b] = m * f[b] + i * g[b]
    BY <2>2
  <2>5. m * n + i * m = 0
    BY <2>a
  <2>6. i \in Int /\ m \in Int
    BY <2>a
  <2> QED
    BY <1>4, <2>3, <2>4, <2>5, <2>6
<1> QED
  BY <1>1, <1>2, <1>5, <1>6

LEMMA SharesOfBuildings ==
    ASSUME BuildingsAreFew, BoardInv, Report!Total(Report!Days) > 0
    PROVE  LET full == {b \in Addresses : Report!Count(b, Report!Days) > 0}
               d == Report!Distribution
           IN /\ \E b \in full : Report!ByBuilding(b, Report!Overdue) >= d.overdue
              /\ \E b \in full : Report!ByBuilding(b, Report!Overdue) <= d.overdue
<1>1. PICK f : f = [b \in Addresses |-> Report!Count(b, Report!Overdue)]
  OBVIOUS
<1>2. PICK g : g = [b \in Addresses |-> Report!Count(b, Report!Days)]
  OBVIOUS
<1>3. ASSUME NEW b \in Addresses
      PROVE  /\ f[b] \in Nat /\ g[b] \in Nat /\ f[b] <= g[b]
             /\ f[b] = Report!Count(b, Report!Overdue) /\ g[b] = Report!Count(b, Report!Days)
  <2>1. PICK x \in Nat : x = Report!Count(b, Report!Overdue)
    BY CountParts
  <2>2. PICK y \in Nat : y = Report!Count(b, Report!Upcoming)
    BY CountParts
  <2>3. PICK z \in Nat : z = Report!Count(b, Report!Compliant)
    BY CountParts
  <2>4. Report!Count(b, Report!Days) = x + y + z
    BY <2>1, <2>2, <2>3, CountParts
  <2> QED
    BY <1>1, <1>2, <2>1, <2>4
<1>4. PICK n : n = Tally(f, Addresses) /\ n = Report!Total(Report!Overdue)
  BY <1>1, TotalIsTally
<1>5. PICK m : m = Tally(g, Addresses) /\ m = Report!Total(Report!Days)
  BY <1>2, TotalIsTally
<1>6. /\ n \in Nat /\ m \in Nat /\ m > 0
      /\ \E b \in Addresses : g[b] > 0 /\ f[b] * m >= n * g[b]
      /\ \E b \in Addresses : g[b] > 0 /\ n * g[b] >= f[b] * m
  <2>1. IsFiniteSet(Addresses)
    BY DEF BuildingsAreFew
  <2>2. \A b \in Addresses : f[b] \in Nat /\ g[b] \in Nat /\ f[b] <= g[b]
    BY <1>3
  <2>3. Tally(g, Addresses) > 0
    BY <1>5
  <2> QED
    BY <1>4, <1>5, <2>1, <2>2, <2>3, Mediant
<1>7. Report!Distribution.overdue = Report!Percent(n, m)
  BY <1>4, <1>5 DEF Report!Distribution
<1>8. \A b \in Addresses : Report!ByBuilding(b, Report!Overdue) = Report!Percent(f[b], g[b])
  BY <1>3 DEF Report!ByBuilding
<1>9. PICK b \in Addresses : g[b] > 0 /\ f[b] * m >= n * g[b]
  BY <1>6
<1>10. Report!Percent(f[b], g[b]) >= Report!Percent(n, m)
  BY <1>3, <1>6, <1>9, RoundedInOrder
<1>11. PICK c \in Addresses : g[c] > 0 /\ n * g[c] >= f[c] * m
  BY <1>6
<1>12. Report!Percent(f[c], g[c]) <= Report!Percent(n, m)
  <2>1. Report!Percent(n, m) >= Report!Percent(f[c], g[c])
    BY <1>3, <1>6, <1>11, RoundedInOrder
  <2>2. Report!Percent(n, m) \in Nat /\ Report!Percent(f[c], g[c]) \in Nat
    BY <1>3, <1>6, <1>11, Rounded
  <2> QED
    BY <2>1, <2>2
<1> QED
  BY <1>3, <1>7, <1>8, <1>9, <1>10, <1>11, <1>12

\* The invariant holds at first, every step keeps it, and it has what is to hold in it.
LEMMA BoardInductive ==
    ASSUME BuildingsAreFew
    PROVE  /\ Report!BoardInit => BoardInv
           /\ BoardInv /\ [Report!BoardNext]_(Report!boardVars) => BoardInv'
           /\ BoardInv => Report!SharesAddUp
<1>1. Report!BoardInit => BoardInv
  BY DEF Report!BoardInit, BoardInv
<1>2. ASSUME BoardInv, [Report!BoardNext]_(Report!boardVars) PROVE BoardInv'
  <2> USE <1>2
  <2>1. CASE UNCHANGED Report!boardVars
    BY <2>1 DEF Report!boardVars, BoardInv
  <2>2. ASSUME NEW n \in {-1, 1}, NEW b \in Addresses, NEW d \in Report!Days, Report!Plan(b, d, n) PROVE BoardInv'
    <3>1. /\ plans[b][d] + n \in Nat /\ UNCHANGED <<stuck, unproven>>
          /\ plans' = [plans EXCEPT ![b][d] = plans[b][d] + n]
      BY <2>2 DEF Report!Plan
    <3>2. PICK row : row = [plans[b] EXCEPT ![d] = plans[b][d] + n]
      OBVIOUS
    <3>3. row \in [Report!Days -> Nat]
      BY <3>1, <3>2 DEF BoardInv
    <3>4. plans' = [plans EXCEPT ![b] = row]
      BY <3>1, <3>2
    <3>5. plans' \in [Addresses -> [Report!Days -> Nat]]
      BY <3>3, <3>4 DEF BoardInv
    <3> QED
      BY <3>1, <3>5 DEF BoardInv
  <2>3. ASSUME NEW n \in {-1, 1}, Report!Block(n) PROVE BoardInv'
    BY <2>3 DEF Report!Block, BoardInv
  <2>4. ASSUME NEW n \in {-1, 1}, Report!CloseBare(n) PROVE BoardInv'
    BY <2>4 DEF Report!CloseBare, BoardInv
  <2> QED
    BY <2>1, <2>2, <2>3, <2>4 DEF Report!BoardNext
<1>3. ASSUME BoardInv PROVE Report!SharesAddUp
  <2>1. PICK o \in Nat : o = Report!Total(Report!Overdue)
    BY <1>3, TotalParts
  <2>2. ASSUME Report!RiskScore = "A" PROVE o < 2 /\ stuck + unproven < 4 /\ (o = 1 => stuck + unproven < 2)
    <3>1. stuck \in Nat /\ unproven \in Nat
      BY <1>3 DEF BoardInv
    <3>2. PICK v : v = Report!ScoreValue
      OBVIOUS
    <3>3. v = LET s == 100 - 6 * o - 4 * stuck - 3 * unproven IN IF s < 0 THEN 0 ELSE s
      BY <2>1, <3>2 DEF Report!ScoreValue
    <3>4. v >= 90
      BY <2>2, <3>2 DEF Report!RiskScore
    <3> QED
      BY <3>1, <3>3, <3>4
  <2> QED
    BY <1>3, <2>1, <2>2, SharesOfTenant, SharesOfBuildings DEF Report!SharesAddUp
<1> QED
  BY <1>1, <1>2, <1>3
-----------------------------------------------------------------------------
(* Operations: the parts together *)

\* A step of the operations is one of the part in focus.
LEMMA OperationSteps ==
    ASSUME [MCNext]_mcVars
    PROVE  /\ focus' = focus
           /\ focus = "cleaning" => [Clean!Next]_(Clean!vars)
           /\ focus = "structure" => [Structure!Next]_(Structure!vars)
           /\ focus = "inbox" => [Lists!InboxNext]_(Lists!inboxVars)
           /\ focus = "queue" => [Lists!QueueNext]_(Lists!queueVars)
           /\ focus = "book" => [Project!BookNext]_(Project!bookVars)
           /\ focus = "export" => [Connector!ExportNext]_(Connector!exportVars)
           /\ focus = "trail" => [Report!TrailNext]_(Report!trailVars)
           /\ focus = "board" => [Report!BoardNext]_(Report!boardVars)
<1>1. CASE UNCHANGED mcVars
  BY <1>1 DEF mcVars, cleaningVars, structureVars, inboxVars, queueVars, bookVars, exportVars, trailVars, boardVars,
         Clean!vars, Structure!vars, Lists!inboxVars, Lists!queueVars, Project!bookVars, Connector!exportVars,
         Report!trailVars, Report!boardVars
<1>2. CASE MCNext
  <2>1. focus' = focus
    BY <1>2 DEF MCNext
  <2>2. focus = "cleaning" => Clean!Next
    BY <1>2 DEF MCNext
  <2>3. focus = "structure" => Structure!Next
    BY <1>2 DEF MCNext
  <2>4. focus = "inbox" => Lists!InboxNext
    BY <1>2 DEF MCNext
  <2>5. focus = "queue" => Lists!QueueNext
    BY <1>2 DEF MCNext
  <2>6. focus = "book" => Project!BookNext
    BY <1>2 DEF MCNext
  <2>7. focus = "export" => Connector!ExportNext
    BY <1>2 DEF MCNext
  <2>8. focus = "trail" => Report!TrailNext
    BY <1>2 DEF MCNext
  <2>9. focus = "board" => Report!BoardNext
    BY <1>2 DEF MCNext
  <2> QED
    BY <2>1, <2>2, <2>3, <2>4, <2>5, <2>6, <2>7, <2>8, <2>9
<1> QED
  BY <1>1, <1>2

\* cleaning.access.ts:78-88, in the operations: a request that is done, rejected or cancelled stays so,
\* unless a call wrote on a status that another had changed.
THEOREM OperationsClosed == MCSpec => []ClosedStaysClosed
<1> DEFINE Inv == focus = "cleaning" => CleanInv
<1>1. MCInit => Inv
  BY CleanInductive DEF MCInit
<1>2. Inv /\ [MCNext]_mcVars => Inv'
  BY CleanInductive, OperationSteps
<1>3. Inv => ClosedStaysClosed
  BY CleanInductive DEF ClosedStaysClosed
<1> QED
  BY <1>1, <1>2, <1>3, PTL DEF MCSpec

\* building-core.service.ts, in the operations: what a row of a checked table names was made in
\* its building, unless a patch of a unit is behind it, and what a foreign key names is there.
THEOREM OperationsStays == MCSpec => []StaysInBuilding
<1> DEFINE Inv == focus = "structure" => StructInv
<1>1. MCInit => Inv
  BY StructInductive DEF MCInit
<1>2. Inv /\ [MCNext]_mcVars => Inv'
  BY StructInductive, OperationSteps
<1>3. Inv => StaysInBuilding
  BY StructInductive DEF StaysInBuilding
<1> QED
  BY <1>1, <1>2, <1>3, PTL DEF MCSpec

\* tasks.service.ts:66-340, projects.service.ts:46-302, connectors.service.ts:30-78, reactive.service.ts:810-945,
\* audit.service.ts:137-232, compliance.service.ts:42-152: what a reader is shown page by page, in a file or as
\* a figure, and what the histories and totals of a project say, agrees with the rows.
THEOREM OperationsViews == MCSpec => []ViewsAgree
<1> DEFINE Inv == /\ focus = "inbox" => InboxInv
                  /\ focus = "queue" => QueueInv
                  /\ focus = "book" => BookInv
                  /\ focus = "export" => FileInv
                  /\ focus = "trail" => TrailInv
                  /\ focus = "board" => BoardInv
<1>a. BillsAreDated /\ VisitsAreDated /\ ReportsDiffer /\ PagesAreNumbers /\ LinesAreFew /\ BuildingsAreFew
  BY OperationsAssumption
<1>1. MCInit => Inv
  <2>1. ASSUME MCInit
        PROVE  /\ focus = "inbox" => Lists!InboxInit
               /\ focus = "queue" => Lists!QueueInit
               /\ focus = "book" => Project!BookInit
               /\ focus = "export" => Connector!ExportInit
               /\ focus = "trail" => Report!TrailInit
               /\ focus = "board" => Report!BoardInit
    BY <2>1 DEF MCInit
  <2> QED
    BY <1>a, <2>1, InboxInductive, QueueInductive, BookInductive, FileInductive, TrailInductive, BoardInductive
<1>2. Inv /\ [MCNext]_mcVars => Inv'
  BY <1>a, OperationSteps, InboxInductive, QueueInductive, BookInductive, FileInductive, TrailInductive, BoardInductive
<1>3. Inv => ViewsAgree
  BY <1>a, InboxInductive, QueueInductive, BookInductive, FileInductive, TrailInductive, BoardInductive
     DEF ViewsAgree
<1> QED
  BY <1>1, <1>2, <1>3, PTL DEF MCSpec
=============================================================================
