---------------------------- MODULE Procurement ----------------------------
(***************************************************************************)
(* From a purchase order to a paid invoice: ReactiveService issues a       *)
(* purchase order and records completions; VendorInvoicesService matches   *)
(* the vendor's invoice against both and approves it.                      *)
(*                                                                         *)
(* One purchase order, one invoice.  The order and a completion name a     *)
(* work order that nobody looks up.  A call reads, checks and then writes  *)
(* by id; a slot is one server-side call at a time.                        *)
(***************************************************************************)
EXTENDS Integers, FiniteSets

CONSTANTS
    Slots,          \* calls that can be in progress at the same time
    Users,          \* managers of the building
    Amounts,        \* amounts of purchase orders and invoices
    Costs,          \* labour and materials of one completion
    MaxOrders,      \* bound of the model: work orders that are named
    MaxCompletions, \* bound of the model: completion records
    MaxFaults       \* bound of the model: calls cut short by a throw or a crash

ASSUME ProcurementAssumption ==
    /\ Amounts \subseteq Nat \ {0}
    /\ Costs \subseteq Nat
    /\ MaxOrders \in Nat /\ MaxCompletions \in Nat /\ MaxFaults \in Nat
    /\ "nobody" \notin Users
    /\ IsFiniteSet(Slots)

VARIABLES
    po,          \* the purchase order: its amount (0: not issued) and its work order (0: none)
    done,        \* done[o]: completion records of order o
    cost,        \* cost[o]: their labour and materials
    invoice,     \* amount (0: none yet), matchStatus, matcher, approver
    paid,        \* invoice.paid events published
    calls,       \* calls[s]: what slot s is doing, for whom, and what it has read
    matches,     \* history: the results of match ever written, and by whom
    bare,        \* history: completions without evidence recorded on the order of the PO
    faults

vars == <<po, done, cost, invoice, paid, calls, matches, bare, faults>>

Orders == 1 .. MaxOrders

NoCall ==
    [op |-> "none", user |-> "nobody", at |-> "idle",
     order |-> 0, evidence |-> FALSE, verdict |-> "unmatched"]

Init ==
    /\ po = [amount |-> 0, order |-> 0]
    /\ done = [o \in Orders |-> 0]
    /\ cost = [o \in Orders |-> 0]
    /\ invoice = [amount |-> 0, match |-> "unmatched", matcher |-> "nobody", approver |-> "nobody"]
    /\ paid = 0
    /\ calls = [s \in Slots |-> NoCall]
    /\ matches = {}
    /\ bare = 0
    /\ faults = 0

\* A call that has read and checked: what a completion reports, what a match has
\* worked out.
Call(op, u, o, e, v) ==
    [op |-> op, user |-> u, at |-> "write", order |-> o, evidence |-> e, verdict |-> v]

Enter(s, call) ==
    /\ calls[s].at = "idle"
    /\ calls' = [calls EXCEPT ![s] = call]
    /\ UNCHANGED <<po, done, cost, invoice, paid, matches, bare, faults>>

Writing(s, op) == calls[s].op = op /\ calls[s].at = "write"
GoTo(s, where) == calls' = [calls EXCEPT ![s].at = where]
Return(s) == calls' = [calls EXCEPT ![s] = NoCall]
-----------------------------------------------------------------------------
(* Purchase order and completion *)

\* One insert; the quote it may cite is never in the status it must have.
IssuePurchaseOrder ==
    /\ po.amount = 0
    /\ \E a \in Amounts, o \in 0 .. MaxOrders : po' = [amount |-> a, order |-> o]
    /\ UNCHANGED <<done, cost, invoice, paid, calls, matches, bare, faults>>

\* The hard stop: no completion without evidence once the order has a PO.
EvidenceNeeded(o) == po.amount # 0 /\ po.order = o

\* mutant: a photo is asked for but not insisted on
RecordCompletionAnyhow(s, u, o, evidence) ==
    Enter(s, Call("complete", u, o, evidence, "unmatched"))

RecordCompletion(s, u, o, evidence) ==
    /\ EvidenceNeeded(o) => evidence
    /\ Enter(s, Call("complete", u, o, evidence, "unmatched"))

WriteCompletion(s) ==
    /\ Writing(s, "complete")
    /\ LET o == calls[s].order
       IN  /\ done[o] < MaxCompletions
           /\ done' = [done EXCEPT ![o] = @ + 1]
           /\ \E c \in Costs : cost' = [cost EXCEPT ![o] = @ + c]
           /\ bare' = IF EvidenceNeeded(o) /\ ~calls[s].evidence THEN bare + 1 ELSE bare
    /\ Return(s)
    /\ UNCHANGED <<po, invoice, paid, matches, faults>>
-----------------------------------------------------------------------------
(* The invoice *)

CreateInvoice ==
    /\ po.amount # 0
    /\ invoice.amount = 0
    /\ \E a \in Amounts : invoice' = [invoice EXCEPT !.amount = a]
    /\ UNCHANGED <<po, done, cost, paid, calls, matches, bare, faults>>

\* Within two per cent of b.
Near(a, b) == 50 * (IF a < b THEN b - a ELSE a - b) <= (IF b < 1 THEN 1 ELSE b)

\* mutant: the completion is compared before the order
VerdictCompletionFirst ==
    IF po.order = 0 \/ done[po.order] = 0 THEN "no_completion"
    ELSE IF ~Near(invoice.amount, cost[po.order]) THEN "price_mismatch"
    ELSE IF 50 * invoice.amount < 49 * po.amount THEN "under_amount"
    ELSE "matched"

\* A purchase order is never deleted, so match never sees `no_po`.
Verdict ==
    IF po.order = 0 \/ done[po.order] = 0 THEN "no_completion"
    ELSE IF 50 * invoice.amount > 51 * po.amount THEN "over_amount"
    ELSE IF 50 * invoice.amount < 49 * po.amount THEN "under_amount"
    ELSE IF ~Near(invoice.amount, cost[po.order]) THEN "price_mismatch"
    ELSE "matched"

Match(s, u) == invoice.amount # 0 /\ Enter(s, Call("match", u, 0, FALSE, Verdict))

WriteMatch(s) ==
    /\ Writing(s, "match")
    /\ invoice' = [invoice EXCEPT !.match = calls[s].verdict, !.matcher = calls[s].user]
    /\ matches' = matches \cup {[verdict |-> calls[s].verdict, by |-> calls[s].user]}
    /\ Return(s)
    /\ UNCHANGED <<po, done, cost, paid, bare, faults>>

Blocked == {"unmatched", "over_amount", "no_po", "price_mismatch"}

\* mutant: the matcher may approve
ApproveAlone(s, u) ==
    /\ invoice.amount # 0 /\ invoice.approver = "nobody"
    /\ invoice.match \notin Blocked
    /\ Enter(s, Call("approve", u, 0, FALSE, "unmatched"))

Approve(s, u) ==
    /\ invoice.amount # 0 /\ invoice.approver = "nobody"
    /\ invoice.match \notin Blocked
    /\ invoice.matcher # u
    /\ Enter(s, Call("approve", u, 0, FALSE, "unmatched"))

WriteApproval(s) ==
    /\ Writing(s, "approve")
    /\ invoice' = [invoice EXCEPT !.approver = calls[s].user]
    /\ GoTo(s, "publish")
    /\ UNCHANGED <<po, done, cost, paid, matches, bare, faults>>

Publish(s) ==
    /\ calls[s].at = "publish"
    /\ paid' = paid + 1
    /\ Return(s)
    /\ UNCHANGED <<po, done, cost, invoice, matches, bare, faults>>
-----------------------------------------------------------------------------
\* A statement of the call throws, or the process dies; what it wrote stays.
Stop(s) ==
    /\ calls[s].at # "idle"
    /\ faults < MaxFaults
    /\ faults' = faults + 1
    /\ Return(s)
    /\ UNCHANGED <<po, done, cost, invoice, paid, matches, bare>>

Begin(s, u) ==
    \/ \E o \in Orders, e \in BOOLEAN : RecordCompletion(s, u, o, e)
    \/ Match(s, u)
    \/ Approve(s, u)

Step(s) ==
    \/ WriteCompletion(s)
    \/ WriteMatch(s)
    \/ WriteApproval(s)
    \/ Publish(s)
    \/ Stop(s)

Next ==
    \/ \E s \in Slots : Step(s) \/ \E u \in Users : Begin(s, u)
    \/ IssuePurchaseOrder
    \/ CreateInvoice

Spec == Init /\ [][Next]_vars
-----------------------------------------------------------------------------
(* Properties *)

Verdicts == {"no_completion", "over_amount", "under_amount", "price_mismatch", "matched"}

TypeOK ==
    /\ calls \in [Slots -> [op : {"none", "complete", "match", "approve"},
                            user : Users \cup {"nobody"}, at : {"idle", "write", "publish"},
                            order : 0 .. MaxOrders, evidence : BOOLEAN,
                            verdict : Verdicts \cup {"unmatched"}]]
    /\ po \in [amount : Amounts \cup {0}, order : 0 .. MaxOrders]
    /\ done \in [Orders -> 0 .. MaxCompletions]
    /\ cost \in [Orders -> Nat]
    /\ invoice \in [amount : Amounts \cup {0}, match : Verdicts \cup {"unmatched"},
                    matcher : Users \cup {"nobody"}, approver : Users \cup {"nobody"}]
    /\ paid \in Nat
    /\ matches \subseteq [verdict : Verdicts, by : Users]
    /\ bare \in Nat
    /\ faults \in 0 .. MaxFaults

\* reactive.service.ts:740: external work with a purchase order is not closed
\* without documents; only calls that had looked before it was issued are not held.
EvidenceBound == bare <= Cardinality(Slots)

\* vendor-invoices.service.ts:132-142: whoever approved an invoice did so on a match that
\* allowed it and that somebody else had run, whatever matches came in between.
ApprovedOnOthersMatch ==
    invoice.approver # "nobody" =>
        \E m \in matches : m.verdict \notin Blocked /\ m.by # invoice.approver

\* An invoice above its order is approved only if it was matched before any
\* work on the order had been recorded.
OverAmountIsUnworked ==
    invoice.approver # "nobody" /\ 50 * invoice.amount > 51 * po.amount =>
        \E m \in matches : m.verdict = "no_completion"
=============================================================================
