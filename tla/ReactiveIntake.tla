--------------------------- MODULE ReactiveIntake ---------------------------
(***************************************************************************)
(* How a case comes to the service desk and what becomes of it: incidents, *)
(* requests and quotes, and the mails that open tickets.                   *)
(***************************************************************************)
EXTENDS Naturals, FiniteSets

CONSTANTS
    Incidents, \* case ids reported through createIncident
    Requests,  \* case ids reported as service requests, by a user or from a QR code
    Orders,    \* work order rows
    Quotes,    \* quote rows
    Desk,      \* calls that can be in progress
    Mails,     \* provider event ids
    Posts,     \* posts that can be handled at once
    Rows       \* row ids

VARIABLES
    case,     \* case[c]: status, ackedAt and workOrderId of a case; status "none": no such row
    orders,   \* work order rows that exist
    quote,    \* quote[q]: status and revisionOf; status "none": no such row
    desk,     \* desk[s]: the statement call s is at, with what it has read
    cut,      \* history: orders and quotes whose call did not finish
    mail,     \* mail[r]: event id, signature and status of row r; event "none": no such row
    posting,  \* posting[p]: the step post p is at
    abandoned \* history: rows whose post did not finish

-----------------------------------------------------------------------------
(***************************************************************************)
(* Incidents, service requests and the quotes that follow (ReactiveService *)
(* and PublicQrService): what is reported, triaged, turned into a work     *)
(* order and resolved.  The handlers read the case, then write it without  *)
(* asking what it has become.                                              *)
(***************************************************************************)

intakeVars == <<case, orders, quote>>
caseVars == <<intakeVars, desk, cut>>

Cases == Incidents \cup Requests
Nothing == [op |-> "idle", x |-> "none", new |-> "none"]

CaseInit ==
    /\ case = [c \in Cases |-> [status |-> "none", acked |-> FALSE, order |-> "none"]]
    /\ orders = {}
    /\ quote = [q \in Quotes |-> [status |-> "none", revisionOf |-> "none"]]
    /\ desk = [s \in Desk |-> Nothing]
    /\ cut = {}

Reported(c) == case[c].status # "none"
Free(s) == desk[s].op = "idle"
Return(s) == desk' = [desk EXCEPT ![s] = Nothing]
-----------------------------------------------------------------------------
(* Intake *)

Report(c) ==
    /\ ~Reported(c)
    /\ case' = [case EXCEPT ![c].status = "new"]
    /\ UNCHANGED <<orders, quote, desk, cut>>

CreateIncident(c) == c \in Incidents /\ Report(c)
CreateServiceRequest(c) == c \in Requests /\ Report(c)

\* A scanned QR code
Submit(c) == c \in Requests /\ Report(c)

\* ackIncident returns at once for an incident that has its ackedAt.
ReadToAck(s, c) ==
    /\ Free(s)
    /\ c \in Incidents /\ Reported(c) /\ ~case[c].acked
    /\ desk' = [desk EXCEPT ![s] = [Nothing EXCEPT !.op = "ack", !.x = c]]
    /\ UNCHANGED <<intakeVars, cut>>

\* Whatever the case has become since: a resolved one is open again.
Ack(s) ==
    /\ desk[s].op = "ack"
    /\ case' = [case EXCEPT ![desk[s].x].status = "triaged", ![desk[s].x].acked = TRUE]
    /\ Return(s)
    /\ UNCHANGED <<orders, quote, cut>>

\* From any status
Resolve(c) ==
    /\ Reported(c)
    /\ case' = [case EXCEPT ![c].status = "resolved"]
    /\ UNCHANGED <<orders, quote, desk, cut>>

ResolveIncident(c) == c \in Incidents /\ Resolve(c)
ResolveServiceRequest(c) == c \in Requests /\ Resolve(c)
-----------------------------------------------------------------------------
(* convertToWorkOrder: from any status, and again for a case that has an order *)

\* mutant: the case is marked before its order is written
CreateOrderAfterCase(s, c) ==
    /\ Free(s)
    /\ Reported(c)
    /\ \E w \in Orders \ orders :
           /\ \A r \in Desk : desk[r].new # w
           /\ case' = [case EXCEPT ![c].status = "dispatched", ![c].order = w]
           /\ desk' = [desk EXCEPT ![s] = [op |-> "dispatch", x |-> c, new |-> w]]
    /\ UNCHANGED <<orders, quote, cut>>

CreateOrder(s, c) ==
    /\ Free(s)
    /\ Reported(c)
    /\ \E w \in Orders \ orders :
           /\ orders' = orders \cup {w}
           /\ desk' = [desk EXCEPT ![s] = [op |-> "dispatch", x |-> c, new |-> w]]
    /\ UNCHANGED <<case, quote, cut>>

DispatchCase(s) ==
    /\ desk[s].op = "dispatch"
    /\ case' = [case EXCEPT ![desk[s].x].status = "dispatched", ![desk[s].x].order = desk[s].new]
    /\ Return(s)
    /\ UNCHANGED <<orders, quote, cut>>
-----------------------------------------------------------------------------
(* createQuote: the quote it revises, in whatever status, is superseded first *)

CreateQuote(q) ==
    /\ quote[q].status = "none"
    /\ \A r \in Desk : desk[r].new # q
    /\ quote' = [quote EXCEPT ![q].status = "received"]
    /\ UNCHANGED <<case, orders, desk, cut>>

SupersedeQuote(s, prev, q) ==
    /\ Free(s)
    /\ quote[prev].status # "none" /\ quote[q].status = "none"
    /\ \A r \in Desk : desk[r].new # q
    /\ quote' = [quote EXCEPT ![prev].status = "superseded"]
    /\ desk' = [desk EXCEPT ![s] = [op |-> "revise", x |-> prev, new |-> q]]
    /\ UNCHANGED <<case, orders, cut>>

ReviseQuote(s) ==
    /\ desk[s].op = "revise"
    /\ quote' = [quote EXCEPT ![desk[s].new] = [status |-> "received", revisionOf |-> desk[s].x]]
    /\ Return(s)
    /\ UNCHANGED <<case, orders, cut>>

\* A statement throws, or the process dies: what was written stays.
Throw(s) ==
    /\ ~Free(s)
    /\ cut' = cut \cup ({desk[s].x, desk[s].new} \cap (Quotes \cup orders))
    /\ Return(s)
    /\ UNCHANGED intakeVars

CaseNext ==
    \/ \E c \in Cases :
           \/ CreateIncident(c) \/ CreateServiceRequest(c) \/ Submit(c)
           \/ ResolveIncident(c) \/ ResolveServiceRequest(c)
    \/ \E s \in Desk :
           \/ \E c \in Cases : ReadToAck(s, c) \/ CreateOrder(s, c)
           \/ Ack(s)
           \/ DispatchCase(s)
           \/ \E prev, q \in Quotes : SupersedeQuote(s, prev, q)
           \/ ReviseQuote(s)
           \/ Throw(s)
    \/ \E q \in Quotes : CreateQuote(q)
-----------------------------------------------------------------------------
(***************************************************************************)
(* Mail that providers post to the application (InboundEmailService): a    *)
(* provider repeats a post it had no answer to, the service looks for the  *)
(* provider's event id before it writes a row, and no unique key backs it. *)
(***************************************************************************)

mailVars == <<mail, posting, abandoned>>

Idle == [op |-> "idle", event |-> "none", signed |-> FALSE, row |-> "none"]

MailInit ==
    /\ mail = [r \in Rows |-> [event |-> "none", signed |-> FALSE, status |-> "none"]]
    /\ posting = [p \in Posts |-> Idle]
    /\ abandoned = {}

RowsOf(e) == {r \in Rows : mail[r].event = e}

\* mutant: only a row that has been parsed answers for the event
LookupParsed(p, e, signed) ==
    /\ posting[p] = Idle
    /\ \A r \in RowsOf(e) : mail[r].status \notin {"linked", "parsed"}
    /\ posting' = [posting EXCEPT ![p] = [Idle EXCEPT !.op = "create", !.event = e, !.signed = signed]]
    /\ UNCHANGED <<mail, abandoned>>

\* A row for the event, whatever its status or signature, ends the post with that status.
Lookup(p, e, signed) ==
    /\ posting[p] = Idle
    /\ RowsOf(e) = {}
    /\ posting' = [posting EXCEPT ![p] = [Idle EXCEPT !.op = "create", !.event = e, !.signed = signed]]
    /\ UNCHANGED <<mail, abandoned>>

\* A mail whose signature does not hold is kept as received and goes no further.
CreateRow(p) ==
    /\ posting[p].op = "create"
    /\ \E r \in RowsOf("none") :
           /\ mail' = [mail EXCEPT ![r] = [event |-> posting[p].event,
                                           signed |-> posting[p].signed, status |-> "received"]]
           /\ posting' = [posting EXCEPT ![p] =
                  IF posting[p].signed THEN [posting[p] EXCEPT !.op = "settle", !.row = r] ELSE Idle]
    /\ UNCHANGED <<abandoned>>

\* The tag in the subject names nothing (orphan), a row of the tenant (linked) or one that
\* is not (parsed); an attachment that is too large overrides the three.
Settle(p) ==
    /\ posting[p].op = "settle"
    /\ \E status \in {"orphan", "linked", "parsed", "virus_blocked"} :
           mail' = [mail EXCEPT ![posting[p].row].status = status]
    /\ posting' = [posting EXCEPT ![p] = Idle]
    /\ UNCHANGED <<abandoned>>

\* A statement throws, or the process dies: the provider may post again.
PostThrows(p) ==
    /\ posting[p] # Idle
    /\ abandoned' = abandoned \cup ({posting[p].row} \cap Rows)
    /\ posting' = [posting EXCEPT ![p] = Idle]
    /\ UNCHANGED mail

MailNext ==
    \E p \in Posts :
        \/ \E e \in Mails, signed \in BOOLEAN : Lookup(p, e, signed)
        \/ CreateRow(p)
        \/ Settle(p)
        \/ PostThrows(p)
-----------------------------------------------------------------------------
vars == <<caseVars, mailVars>>

Init == CaseInit /\ MailInit

\* The parts share no rows; a step is one of either.
Next ==
    \/ CaseNext /\ UNCHANGED mailVars
    \/ MailNext /\ UNCHANGED caseVars

Spec == Init /\ [][Next]_vars
-----------------------------------------------------------------------------
CaseTypeOK ==
    /\ case \in [Cases -> [status : {"none", "new", "triaged", "dispatched", "resolved"},
                           acked : BOOLEAN, order : Orders \cup {"none"}]]
    /\ orders \subseteq Orders
    /\ quote \in [Quotes -> [status : {"none", "received", "superseded"}, revisionOf : Quotes \cup {"none"}]]
    /\ \A s \in Desk : desk[s].op \in {"idle", "ack", "dispatch", "revise"}
    /\ cut \subseteq Quotes \cup Orders

\* reactive.service.ts:275-295, :518-580 and :632: whatever calls overlap or are cut
\* short, a triaged incident has its ackedAt, a dispatched case has a work order that
\* exists, and a superseded quote has a revision unless the call that would write it
\* is in progress or was cut.
StatusIsEarned ==
    /\ \A c \in Cases :
           /\ case[c].status = "triaged" => case[c].acked
           /\ case[c].status = "dispatched" => case[c].order \in orders
    /\ \A q \in Quotes : quote[q].status = "superseded" =>
           \/ \E r \in Quotes : quote[r].revisionOf = q
           \/ q \in cut
           \/ \E s \in Desk : desk[s].op = "revise" /\ desk[s].x = q

MailTypeOK ==
    /\ mail \in [Rows -> [event : Mails \cup {"none"}, signed : BOOLEAN,
                          status : {"none", "received", "orphan", "linked", "parsed", "virus_blocked"}]]
    /\ posting \in [Posts -> [op : {"idle", "create", "settle"}, event : Mails \cup {"none"},
                              signed : BOOLEAN, row : Rows \cup {"none"}]]
    /\ abandoned \subseteq Rows

\* inbound-email.service.ts:70-80: however often a provider repeats a mail, it has no
\* more rows than posts that were handled at once, and a signed one is left unparsed
\* only by a post that did not finish; the row then answers every later repetition.
RepeatsAreFolded ==
    /\ \A e \in Mails : Cardinality(RowsOf(e)) <= Cardinality(Posts)
    /\ \A r \in Rows : (mail[r].status = "received" /\ mail[r].signed) =>
           r \in abandoned \/ \E p \in Posts : posting[p].row = r

TypeOK == CaseTypeOK /\ MailTypeOK
=============================================================================
