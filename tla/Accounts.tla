------------------------------ MODULE Accounts ------------------------------
(***************************************************************************)
(* Users and their sessions, and the door that lets their requests in.     *)
(***************************************************************************)
EXTENDS Naturals, Sequences

CONSTANTS
    Users,      \* ids
    Emails,
    Tokens,     \* ids of session rows
    Requests,   \* requests of data subjects
    Desks,      \* calls that can be in progress
    Visits,     \* requests that can be in progress
    Routes,     \* what a request asks, in order: with a header the membership, without one the
                \* tenant at home, a superadmin with one neither; a write asks for the status too
    Lifetime,   \* how long an answer about the session or the status is kept, in ticks
    Slow,       \* how long an answer of the database is under way at most
    LastMoment, \* bound: the time
    MaxTurns    \* bound: changes of what is asked about

VARIABLES
    account,     \* account[u]: email ("none": no row), password, status
    linked,      \* linked[e]: user the federated identity of the person with email e points to
    session,     \* session[k]: user ("none": no row), live, how it was opened, late
    request,     \* request[r]: kind, status, the email and the user it names
    desk,        \* desk[d]: operation, user, step, token or request of a call
    interrupted, \* history: users an erasure of whom was cut before it revoked the sessions
    rewritten,   \* history: erased users whose status was written afterwards
    now,
    row,         \* what is in the database: [session, membership, grant, open]
    turned,      \* turned[f]: the last moment at which f was not what it is now, or -1
    turns,
    memo,        \* memo[f]: the answer kept and until when; until 0: none
    visit        \* visit[v]: where the request is, what is left to ask and what it has heard

-----------------------------------------------------------------------------
(***************************************************************************)
(* Users and their sessions (AuthService, SsoService, ScimService), and    *)
(* the requests of a data subject that erase or restrict a user            *)
(* (PrivacyService.processDsar).  A user's rows are written statement by   *)
(* statement, so an erasure overlaps with calls that open sessions.        *)
(***************************************************************************)

accountVars == <<account, linked, session, request, desk, interrupted, rewritten>>

NoAccount == [email |-> "none", password |-> FALSE, status |-> "none"]
NoSession == [user |-> "none", live |-> FALSE, via |-> "none", late |-> FALSE]
Closed == [op |-> "none", user |-> "none", at |-> "idle", on |-> "none", via |-> "none", late |-> FALSE]

AccountInit ==
    /\ account = [u \in Users |-> NoAccount]
    /\ linked = [e \in Emails |-> "none"]
    /\ session = [k \in Tokens |-> NoSession]
    /\ request = [r \in Requests |-> [kind |-> "none", status |-> "none", email |-> "none", user |-> "none"]]
    /\ desk = [d \in Desks |-> Closed]
    /\ interrupted = {} /\ rewritten = {}

Exists(u) == account[u].email # "none"
Holder(e) == {u \in Users : account[u].email = e}

\* A call that is about to open a session for u
ToSession(d, op, u, via, late) ==
    desk' = [desk EXCEPT ![d] =
                [op |-> op, user |-> u, at |-> "session", on |-> "none", via |-> via, late |-> late]]

\* register: username and email are free; the user is created
Register(d, u, e) ==
    /\ desk[d] = Closed
    /\ ~Exists(u) /\ Holder(e) = {}
    /\ account' = [account EXCEPT ![u] = [email |-> e, password |-> TRUE, status |-> "active"]]
    /\ ToSession(d, "register", u, "password", FALSE)
    /\ UNCHANGED <<linked, session, request, interrupted, rewritten>>

\* login: the user is read and its password compared
Login(d, u) ==
    /\ desk[d] = Closed
    /\ account[u].password
    /\ ToSession(d, "login", u, "password", FALSE)
    /\ UNCHANGED <<account, linked, session, request, interrupted, rewritten>>

\* handleCallback of SSO: the user the identity points to, or else the holder of the
\* email, or else a new one; the identity is unique.
Callback(d, e, new) ==
    LET u == IF linked[e] # "none" THEN linked[e]
             ELSE IF Holder(e) # {} THEN CHOOSE h \in Holder(e) : TRUE ELSE new
    IN /\ desk[d] = Closed
       /\ ~Exists(u) => u = new
       /\ account' = IF Exists(u) THEN account
                     ELSE [account EXCEPT ![u] = [email |-> e, password |-> FALSE, status |-> "active"]]
       /\ linked' = [linked EXCEPT ![e] = u]
       /\ ToSession(d, "sso", u, "sso", FALSE)
       /\ UNCHANGED <<session, request, interrupted, rewritten>>

\* switchWorkspace: the session is verified, then revoked, and another one opened
BeginSwitch(d, k) ==
    /\ desk[d] = Closed
    /\ session[k].live
    /\ desk' = [desk EXCEPT ![d] = [op |-> "switch", user |-> session[k].user, at |-> "revoke",
                                    on |-> k, via |-> session[k].via, late |-> session[k].late]]
    /\ UNCHANGED <<account, linked, session, request, interrupted, rewritten>>

RevokeSwitched(d) ==
    /\ desk[d].op = "switch" /\ desk[d].at = "revoke"
    /\ session' = [k \in Tokens |-> IF k = desk[d].on THEN [session[k] EXCEPT !.live = FALSE] ELSE session[k]]
    /\ ToSession(d, "switch", desk[d].user, desk[d].via, desk[d].late)
    /\ UNCHANGED <<account, linked, request, interrupted, rewritten>>

\* createSession
OpenSession(d, k) ==
    /\ desk[d].at = "session"
    /\ session[k] = NoSession
    /\ session' = [session EXCEPT ![k] =
           [user |-> desk[d].user, live |-> TRUE, via |-> desk[d].via, late |-> desk[d].late]]
    /\ desk' = [desk EXCEPT ![d] = Closed]
    /\ UNCHANGED <<account, linked, request, interrupted, rewritten>>

Logout(k) ==
    /\ session[k].live
    /\ session' = [session EXCEPT ![k].live = FALSE]
    /\ UNCHANGED <<account, linked, request, desk, interrupted, rewritten>>

Revoked(u) == [k \in Tokens |-> IF session[k].user = u THEN [session[k] EXCEPT !.live = FALSE] ELSE session[k]]

\* logoutAll, and deleteUser of SCIM, which also removes the membership
LogoutAll(u) ==
    /\ Exists(u)
    /\ session' = Revoked(u)
    /\ UNCHANGED <<account, linked, request, desk, interrupted, rewritten>>

\* prune deletes expired and long revoked rows; switchWorkspace then finds no row to revoke.
Prune(gone) ==
    /\ session' = [k \in Tokens |-> IF k \in gone THEN NoSession ELSE session[k]]
    /\ desk' = [d \in Desks |-> IF desk[d].op = "switch" /\ desk[d].on \in gone
                                THEN [desk[d] EXCEPT !.on = "none"] ELSE desk[d]]
    /\ UNCHANGED <<account, linked, request, interrupted, rewritten>>

\* createUser of SCIM; an existing user only becomes a member
Provision(u, e, status) ==
    /\ ~Exists(u) /\ Holder(e) = {}
    /\ account' = [account EXCEPT ![u] = [email |-> e, password |-> FALSE, status |-> status]]
    /\ UNCHANGED <<linked, session, request, desk, interrupted, rewritten>>

\* patchUser of SCIM
Patch(u, status) ==
    /\ Exists(u)
    /\ account' = [account EXCEPT ![u].status = status]
    /\ rewritten' = IF account[u].status = "deleted" THEN rewritten \cup {u} ELSE rewritten
    /\ UNCHANGED <<linked, session, request, desk, interrupted>>

CreateDsar(r, kind, e, u) ==
    /\ request[r].status = "none"
    /\ u # "none" => Exists(u)
    /\ request' = [request EXCEPT ![r] = [kind |-> kind, status |-> "received", email |-> e, user |-> u]]
    /\ UNCHANGED <<account, linked, session, desk, interrupted, rewritten>>

\* mutant: the sessions are revoked before the password goes
RevokeFirst == <<"revoke", "clear", "complete">>

\* The steps of anonymizeUser, and the update of the request
ErasureSteps == <<"clear", "revoke", "complete">>

After(step) == ErasureSteps[1 + CHOOSE n \in DOMAIN ErasureSteps : ErasureSteps[n] = step]

\* processDsar: the user is found by the id when the request has one and erases, else by
\* the email; nobody found is nothing to do.
BeginDsar(d, r) ==
    LET kind == request[r].kind
        found == IF kind = "delete" /\ request[r].user # "none"
                 THEN {u \in Users : u = request[r].user /\ Exists(u)}
                 ELSE Holder(request[r].email)
    IN /\ desk[d] = Closed
       /\ request[r].status = "received"
       /\ desk' = [desk EXCEPT ![d] =
              [op |-> kind, on |-> r, via |-> "none", late |-> FALSE,
               user |-> IF found = {} THEN "none" ELSE CHOOSE u \in found : TRUE,
               at |-> IF found = {} THEN "complete"
                      ELSE IF kind = "delete" THEN ErasureSteps[1] ELSE "suspend"]]
       /\ UNCHANGED <<account, linked, session, request, interrupted, rewritten>>

ClearIdentity(d) ==
    LET u == desk[d].user IN
    /\ desk[d].at = "clear"
    /\ account' = [account EXCEPT ![u] = [email |-> "redacted", password |-> FALSE, status |-> "deleted"]]
    /\ desk' = [desk EXCEPT ![d].at = After("clear")]
    /\ rewritten' = rewritten \ {u}
    /\ UNCHANGED <<linked, session, request, interrupted>>

\* Calls that began before this statement may open a session after it.
RevokeSessions(d) ==
    LET u == desk[d].user IN
    /\ desk[d].op = "delete" /\ desk[d].at = "revoke"
    /\ session' = Revoked(u)
    /\ desk' = [c \in Desks |-> IF c = d THEN [desk[d] EXCEPT !.at = After("revoke")]
                                ELSE [desk[c] EXCEPT !.late = @ \/ desk[c].user = u]]
    /\ interrupted' = interrupted \ {u}
    /\ UNCHANGED <<account, linked, request, rewritten>>

SuspendUser(d) ==
    LET u == desk[d].user IN
    /\ desk[d].at = "suspend"
    /\ account' = [account EXCEPT ![u].status = "suspended"]
    /\ rewritten' = IF account[u].status = "deleted" THEN rewritten \cup {u} ELSE rewritten
    /\ desk' = [desk EXCEPT ![d].at = "complete"]
    /\ UNCHANGED <<linked, session, request, interrupted>>

CompleteDsar(d) ==
    /\ desk[d].at = "complete"
    /\ request' = [request EXCEPT ![desk[d].on].status = "completed"]
    /\ desk' = [desk EXCEPT ![d] = Closed]
    /\ UNCHANGED <<account, linked, session, interrupted, rewritten>>

\* A statement throws.  A request stays received and can be processed again, but a user
\* whose email is gone is found again only by id.
Throw(d) ==
    /\ desk[d] # Closed
    /\ interrupted' = IF desk[d].op = "delete" /\ desk[d].at = "revoke"
                      THEN interrupted \cup {desk[d].user} ELSE interrupted
    /\ desk' = [desk EXCEPT ![d] = Closed]
    /\ UNCHANGED <<account, linked, session, request, rewritten>>

AccountNext ==
    \/ \E d \in Desks :
           \/ \E u \in Users : Login(d, u) \/ \E e \in Emails : Register(d, u, e) \/ Callback(d, e, u)
           \/ \E k \in Tokens : BeginSwitch(d, k) \/ OpenSession(d, k)
           \/ \E r \in Requests : BeginDsar(d, r)
           \/ RevokeSwitched(d) \/ ClearIdentity(d) \/ RevokeSessions(d) \/ SuspendUser(d)
           \/ CompleteDsar(d) \/ Throw(d)
    \/ \E k \in Tokens : Logout(k)
    \/ \E u \in Users, status \in {"active", "suspended"} :
           Patch(u, status) \/ \E e \in Emails : Provision(u, e, status)
    \/ \E u \in Users : LogoutAll(u)
    \/ \E gone \in SUBSET {k \in Tokens : session[k] # NoSession} : Prune(gone)
    \/ \E r \in Requests, kind \in {"delete", "restrict"}, e \in Emails, u \in Users \cup {"none"} :
           CreateDsar(r, kind, e, u)
-----------------------------------------------------------------------------
(***************************************************************************)
(* The door of the service (TenantMiddleware): each request is checked     *)
(* against the session, the membership and the status of the tenant, and   *)
(* each answer is kept for a while in a map of the process.  The process   *)
(* runs one request until it waits for the database, so what is answered   *)
(* from the maps takes no time and what is looked up takes some.  One user *)
(* and one tenant; the maps' sizes are left out.                           *)
(***************************************************************************)

gateVars == <<now, row, turned, turns, memo, visit>>

Questions == {"session", "member", "home", "open"}

\* A membership row, or a grant in a building; and without a header, the membership alone.
True(f, r) ==
    CASE f = "member" -> r.membership \/ r.grant
      [] f = "home" -> r.membership
      [] OTHER -> r[f]

\* mutant: an answer about the session is kept as long as one about the membership
KeepAlike(f) == 2 * Lifetime

\* CACHE_TTL_MS is twice SESSION_CACHE_TTL_MS and TENANT_STATUS_CACHE_TTL_MS.
Keep(f) == IF f \in {"member", "home"} THEN 2 * Lifetime ELSE Lifetime

Away == [at |-> "away", left |-> <<>>, heard |-> <<>>, answer |-> FALSE, since |-> 0]
Unknown == [answer |-> FALSE, until |-> 0]

GateInit ==
    /\ now = 1
    /\ row = [session |-> TRUE, membership |-> TRUE, grant |-> FALSE, open |-> TRUE]
    /\ turned = [f \in Questions |-> 0]
    /\ turns = 0
    /\ memo = [f \in Questions |-> Unknown]
    /\ visit = [v \in Visits |-> Away]
-----------------------------------------------------------------------------
(* What is asked about *)

Turn(r) ==
    /\ turns < MaxTurns
    /\ turns' = turns + 1
    /\ row' = r
    /\ turned' = [f \in Questions |-> IF True(f, r) = True(f, row) THEN turned[f] ELSE now]
    /\ UNCHANGED <<now, memo, visit>>

\* A session that is revoked stays so.
SessionEnds == row.session /\ Turn([row EXCEPT !.session = FALSE])

Leave == row.membership /\ Turn([row EXCEPT !.membership = FALSE])
Join == ~row.membership /\ Turn([row EXCEPT !.membership = TRUE])
SetGrant == Turn([row EXCEPT !.grant = ~row.grant])

Suspend == row.open /\ Turn([row EXCEPT !.open = FALSE])
Reactivate == ~row.open /\ Turn([row EXCEPT !.open = TRUE])
-----------------------------------------------------------------------------
(* use *)

\* A request that has heard b about f
Heard(call, f, b) ==
    LET rest == Tail(call.left) IN
    [call EXCEPT
        !.heard = Append(@, f),
        !.left = IF b THEN rest ELSE <<>>,
        !.at = IF ~b THEN (IF f = "home" THEN "nowhere" ELSE "refused")
               ELSE IF rest = <<>> THEN "admitted" ELSE "asking",
        !.answer = FALSE,
        !.since = 0]

\* Two maps are left at the moment an entry ends, the other two just before.
Valid(f) ==
    /\ memo[f].until > 0
    /\ IF f \in {"session", "member"} THEN memo[f].until >= now ELSE memo[f].until > now

\* The next question of a request: the map answers it, or the database is asked.
Ask(call) ==
    LET f == Head(call.left) IN
    IF call.at # "asking" THEN call
    ELSE IF Valid(f) THEN Heard(call, f, memo[f].answer)
    ELSE [call EXCEPT !.at = "waiting", !.answer = True(f, row), !.since = now]

\* A request has three questions at most, and asks until it has to wait.
Proceed(call) == Ask(Ask(Ask(call)))

Arrive(v, route) ==
    /\ visit[v].at = "away"
    /\ visit' = [visit EXCEPT ![v] = Proceed([Away EXCEPT !.at = "asking", !.left = route])]
    /\ UNCHANGED <<now, row, turned, turns, memo>>

\* It is kept from its arrival on; that there is no membership to fall back on is not.
Put(v) ==
    LET f == Head(visit[v].left)
        b == visit[v].answer
    IN /\ visit[v].at = "waiting"
       /\ memo' = IF f = "home" /\ ~b THEN memo
                  ELSE [memo EXCEPT ![f] = [answer |-> b, until |-> now + Keep(f)]]
       /\ visit' = [visit EXCEPT ![v] = Proceed(Heard(@, f, b))]
       /\ UNCHANGED <<now, row, turned, turns>>

\* The request goes to its controller or is answered with a refusal.
Done(v) ==
    /\ visit[v].at \in {"admitted", "nowhere", "refused"}
    /\ visit' = [visit EXCEPT ![v] = Away]
    /\ UNCHANGED <<now, row, turned, turns, memo>>

\* An entry that has ended is never used again: it may as well be gone.
Tick ==
    /\ now < LastMoment
    /\ \A v \in Visits :
           \/ visit[v].at = "away"
           \/ visit[v].at = "waiting" /\ now - visit[v].since < Slow
    /\ now' = now + 1
    /\ memo' = [f \in Questions |-> IF memo[f].until > now THEN memo[f] ELSE Unknown]
    /\ UNCHANGED <<row, turned, turns, visit>>

GateNext ==
    \/ \E v \in Visits :
           \/ \E route \in Routes : Arrive(v, route)
           \/ Put(v)
           \/ Done(v)
    \/ SessionEnds \/ Leave \/ Join \/ SetGrant \/ Suspend \/ Reactivate
    \/ Tick
-----------------------------------------------------------------------------
vars == <<accountVars, gateVars>>

Init == AccountInit /\ GateInit

\* The parts share no rows; a step is one of either.
Next ==
    \/ AccountNext /\ UNCHANGED gateVars
    \/ GateNext /\ UNCHANGED accountVars

Spec == Init /\ [][Next]_vars
-----------------------------------------------------------------------------
AccountTypeOK ==
    /\ \A u \in Users : /\ account[u].email \in Emails \cup {"none", "redacted"}
                        /\ account[u].status \in {"none", "active", "suspended", "deleted"}
    /\ \A e \in Emails : linked[e] \in Users \cup {"none"}
    /\ \A k \in Tokens : session[k].user \in Users \cup {"none"}
    /\ interrupted \cup rewritten \subseteq Users

Erased(u) == account[u].email = "redacted"
Erasing(u) == \E d \in Desks : desk[d].op = "delete" /\ desk[d].user = u

\* auth.service.ts:405-424 and privacy.service.ts:501-527: once nobody is at work on the
\* erasure of a user and none was cut, the only live sessions are those of calls that
\* began before the sessions were revoked and those of the identity provider; the user
\* is deleted unless its status was written again; a completed request that names a user
\* has erased it.
ErasureHolds ==
    /\ \A u \in Users : Erased(u) =>
           /\ ~account[u].password
           /\ account[u].status = "deleted" \/ u \in rewritten
           /\ ~Erasing(u) /\ u \notin interrupted =>
                  \A k \in Tokens : session[k].user = u /\ session[k].live =>
                      session[k].late \/ session[k].via = "sso"
    /\ \A r \in Requests :
           request[r].status = "completed" /\ request[r].kind = "delete" /\ request[r].user # "none"
               => Erased(request[r].user)

GateTypeOK ==
    /\ now \in 1..LastMoment
    /\ row \in [session : BOOLEAN, membership : BOOLEAN, grant : BOOLEAN, open : BOOLEAN]
    /\ turned \in [Questions -> 0..LastMoment]
    /\ \A v \in Visits : visit[v].at \in {"away", "waiting", "admitted", "nowhere", "refused"}

\* f was b no longer than age ago
WasLately(f, b, age) == True(f, row) = b \/ (turned[f] > 0 /\ turned[f] + age >= now)

\* tenant.middleware.ts:133-285: what a request is let through, or turned away, on was so
\* no longer ago than an answer is kept, and the time the lookups of this request and of the
\* one that left the answer can take: a slow lookup can bring an older answer back.
VerdictsAreFresh ==
    \A v \in Visits :
        LET heard == visit[v].heard
            kept(f) == IF f \in {"session", "open"} THEN Lifetime ELSE 2 * Lifetime
            age(i) == kept(heard[i]) + Slow * (1 + Len(heard) - i)
            last == Len(heard)
        IN /\ visit[v].at = "admitted" => \A i \in DOMAIN heard : WasLately(heard[i], TRUE, age(i))
           /\ visit[v].at \in {"refused", "nowhere"} => WasLately(heard[last], FALSE, age(last))

TypeOK == AccountTypeOK /\ GateTypeOK
=============================================================================
