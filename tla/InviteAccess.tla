---------------------------- MODULE InviteAccess ----------------------------
(***************************************************************************)
(* From an invite to a membership: InvitesService creates, revokes and     *)
(* accepts the invites of one e-mail address in one workspace; an accepted *)
(* invite is published, and the subscriber of IamService makes the user    *)
(* and the membership from the event.  The subscriber catches its own      *)
(* errors, so the dispatcher only repeats an event whose tick was cut      *)
(* short.                                                                  *)
(***************************************************************************)
EXTENDS Integers, FiniteSets

CONSTANTS
    Slots,       \* calls of the invites API in progress at the same time
    Roles,       \* role keys an invite can grant
    MaxInvites,  \* bound of the model: invites created
    MaxEvents,   \* bound of the model: invite.accepted events
    MaxFaults    \* bound of the model: throwing statements and crashes

ASSUME InviteAssumption ==
    MaxInvites \in Nat /\ MaxEvents \in Nat /\ MaxFaults \in Nat /\ IsFiniteSet(Slots)

VARIABLES
    role,      \* role[i]: the role invite i grants
    status,    \* status[i]: its status; "none": no such row yet
    old,       \* invites whose 72 hours are over
    calls,     \* calls[s]: what slot s is doing, and to which invite
    subject,   \* subject[e]: the invite of the e-th invite.accepted row of the outbox
    delivery,  \* delivery[e]: the status of that row; "none": no such row yet
    handler,   \* the subscriber: where it is
    current,   \* the event it is handling, 0 for none
    user,      \* a User row has the address
    members,   \* role keys of the address's Membership rows
    swallowed, \* history: events whose handler caught an error
    faults

inviteVars == <<role, status, old>>
eventVars == <<subject, delivery>>
apiVars == <<inviteVars, calls>>
iamVars == <<handler, current, user, members, swallowed>>
vars == <<apiVars, eventVars, iamVars, faults>>

NoCall == [op |-> "none", invite |-> 0, at |-> "idle"]

Invites == 1 .. MaxInvites
Rows == 1 .. MaxEvents

Init ==
    /\ role \in [Invites -> Roles]
    /\ status = [i \in Invites |-> "none"]
    /\ old = {}
    /\ calls = [s \in Slots |-> NoCall]
    /\ subject = [e \in Rows |-> 0]
    /\ delivery = [e \in Rows |-> "none"]
    /\ handler = "idle"
    /\ current = 0
    /\ user = FALSE
    /\ members = {}
    /\ swallowed = {}
    /\ faults = 0

Fault == faults < MaxFaults /\ faults' = faults + 1

Events == {e \in Rows : delivery[e] # "none"}
Pending == {i \in Invites : status[i] = "pending"}
-----------------------------------------------------------------------------
(* InvitesService *)

Call(s, op, i, where) ==
    /\ calls[s].at = "idle"
    /\ calls' = [calls EXCEPT ![s] = [op |-> op, invite |-> i, at |-> where]]
    /\ UNCHANGED <<inviteVars, eventVars, iamVars, faults>>

GoTo(s, where) == calls' = [calls EXCEPT ![s].at = where]
Return(s) == calls' = [calls EXCEPT ![s] = NoCall]

\* The first check is create's own; the partial unique index has the last word.
Create(s) == Pending = {} /\ Call(s, "create", 0, "write")

WriteInvite(s) ==
    /\ calls[s].op = "create" /\ calls[s].at = "write"
    /\ \/ /\ Pending # {}
          /\ UNCHANGED status
       \/ /\ Pending = {}
          /\ \E i \in Invites :
                 /\ status[i] = "none"
                 /\ \A j \in 1 .. i - 1 : status[j] # "none"
                 /\ status' = [status EXCEPT ![i] = "pending"]
    /\ Return(s)
    /\ UNCHANGED <<role, old, eventVars, iamVars, faults>>

Revoke(s, i) ==
    /\ status[i] = "pending"
    /\ Call(s, "revoke", i, "write")

\* mutant: an accepted invite can be accepted again
AcceptAgain(s, i) ==
    /\ status[i] \in {"pending", "expired", "accepted"}
    /\ Call(s, IF i \in old THEN "expire" ELSE "accept", i, "write")

Accept(s, i) ==
    /\ status[i] \in {"pending", "expired"}
    /\ Call(s, IF i \in old THEN "expire" ELSE "accept", i, "write")

StatusOf(op) ==
    CASE op = "revoke" -> "revoked"
      [] op = "expire" -> "expired"
      [] op = "accept" -> "accepted"

\* The write is by id: it does not look at the status again.
WriteStatus(s) ==
    /\ calls[s].op \in {"revoke", "expire", "accept"} /\ calls[s].at = "write"
    /\ status' = [status EXCEPT ![calls[s].invite] = StatusOf(calls[s].op)]
    /\ IF calls[s].op = "accept" THEN GoTo(s, "publish") ELSE Return(s)
    /\ UNCHANGED <<role, old, eventVars, iamVars, faults>>

Publish(s) ==
    /\ calls[s].at = "publish"
    /\ \E e \in Rows \ Events :
           /\ 1 .. e - 1 \subseteq Events
           /\ subject' = [subject EXCEPT ![e] = calls[s].invite]
           /\ delivery' = [delivery EXCEPT ![e] = "pending"]
    /\ Return(s)
    /\ UNCHANGED <<inviteVars, iamVars, faults>>

\* A statement of the call throws; what it wrote stays.
CallThrows(s) ==
    /\ calls[s].at # "idle"
    /\ Fault
    /\ Return(s)
    /\ UNCHANGED <<inviteVars, eventVars, iamVars>>

\* The 72 hours of invite i are over.
Age(i) ==
    /\ status[i] # "none"
    /\ i \notin old
    /\ old' = old \cup {i}
    /\ UNCHANGED <<role, status, calls, eventVars, iamVars, faults>>
-----------------------------------------------------------------------------
(* The subscriber of IamService, and the tick that runs it *)

Role(e) == role[subject[e]]
Handling(where) == handler = where /\ UNCHANGED <<apiVars, faults>>

Take(e) ==
    /\ Handling("idle")
    /\ delivery[e] = "pending"
    /\ \A d \in 1 .. e - 1 : delivery[d] # "pending"
    /\ current' = e
    /\ handler' = "findUser"
    /\ UNCHANGED <<eventVars, user, members, swallowed>>

FindUser ==
    /\ Handling("findUser")
    /\ handler' = IF user THEN "findMembership" ELSE "createUser"
    /\ UNCHANGED <<current, eventVars, user, members, swallowed>>

Swallow == swallowed' = swallowed \cup {current} /\ handler' = "mark"

\* emailNormalized is unique: somebody else may have made the user meanwhile.
CreateUser ==
    /\ Handling("createUser")
    /\ user' = TRUE
    /\ IF user THEN Swallow ELSE handler' = "findMembership" /\ UNCHANGED swallowed
    /\ UNCHANGED <<current, eventVars, members>>

\* mutant: the membership is looked up by user only
FindMembershipAnyRole ==
    /\ Handling("findMembership")
    /\ handler' = IF members # {} THEN "enrich" ELSE "createMembership"
    /\ UNCHANGED <<current, eventVars, user, members, swallowed>>

FindMembership ==
    /\ Handling("findMembership")
    /\ handler' = IF Role(current) \in members THEN "enrich" ELSE "createMembership"
    /\ UNCHANGED <<current, eventVars, user, members, swallowed>>

CreateMembership ==
    /\ Handling("createMembership")
    /\ members' = members \cup {Role(current)}
    /\ handler' = "enrich"
    /\ UNCHANGED <<current, eventVars, user, swallowed>>

\* acceptedByUserId and the audit entry
Enrich ==
    /\ Handling("enrich")
    /\ handler' = "mark"
    /\ UNCHANGED <<current, eventVars, user, members, swallowed>>

HandlerThrows ==
    /\ handler \notin {"idle", "mark"}
    /\ Fault
    /\ Swallow
    /\ UNCHANGED <<apiVars, current, eventVars, user, members>>

MarkDelivered ==
    /\ Handling("mark")
    /\ delivery' = [delivery EXCEPT ![current] = "delivered"]
    /\ handler' = "idle"
    /\ current' = 0
    /\ UNCHANGED <<subject, user, members, swallowed>>

\* mutant: the row was marked before its handler ran
CrashAfterMark ==
    /\ handler # "idle"
    /\ Fault
    /\ delivery' = [delivery EXCEPT ![current] = "delivered"]
    /\ handler' = "idle"
    /\ current' = 0
    /\ UNCHANGED <<apiVars, subject, user, members, swallowed>>

\* The process dies, or the mark throws: the row is fetched again.
Crash ==
    /\ handler # "idle"
    /\ Fault
    /\ handler' = "idle"
    /\ current' = 0
    /\ UNCHANGED <<apiVars, eventVars, user, members, swallowed>>

\* AuthService.register or IamService.createStaff makes a user of the address.
OthersCreateUser ==
    /\ ~user
    /\ user' = TRUE
    /\ UNCHANGED <<apiVars, eventVars, handler, current, members, swallowed, faults>>

Api(s) ==
    \/ Create(s)
    \/ WriteInvite(s)
    \/ \E i \in Invites : Revoke(s, i) \/ Accept(s, i)
    \/ WriteStatus(s)
    \/ Publish(s)

Handle ==
    \/ \E e \in Rows : Take(e)
    \/ FindUser
    \/ CreateUser
    \/ FindMembership
    \/ CreateMembership
    \/ Enrich
    \/ MarkDelivered

Next ==
    \/ \E s \in Slots : Api(s) \/ CallThrows(s)
    \/ \E i \in Invites : Age(i)
    \/ Handle
    \/ HandlerThrows
    \/ Crash
    \/ OthersCreateUser

Spec == Init /\ [][Next]_vars

\* The dispatcher polls for ever; a call of the API need not go on.
Fairness == WF_vars(Handle)

FairSpec == Spec /\ Fairness
-----------------------------------------------------------------------------
(* Properties *)

TypeOK ==
    /\ role \in [Invites -> Roles]
    /\ status \in [Invites -> {"none", "pending", "accepted", "revoked", "expired"}]
    /\ old \subseteq Invites
    /\ calls \in [Slots -> [op : {"none", "create", "revoke", "expire", "accept"},
                            invite : Invites \cup {0},
                            at : {"idle", "write", "publish"}]]
    /\ subject \in [Rows -> Invites \cup {0}]
    /\ delivery \in [Rows -> {"none", "pending", "delivered"}]
    /\ \A e \in Events : subject[e] \in Invites
    /\ handler \in {"idle", "findUser", "createUser", "findMembership", "createMembership",
                    "enrich", "mark"}
    /\ current \in Events \cup {0}
    /\ user \in BOOLEAN
    /\ members \subseteq Roles
    /\ swallowed \subseteq Events
    /\ faults \in 0 .. MaxFaults

\* invites.service.ts:237-239, a token is not spent twice: an accepted invite is
\* published once for each call that had read it before the first of them wrote,
\* so once when calls do not overlap, whatever revocations, expiries and retries
\* come between.
SpendBound ==
    \A i \in Invites : Cardinality({e \in Events : subject[e] = i}) <= Cardinality(Slots)

\* A delivered event has made its membership, unless its handler caught an error.
DeliveredMeansMember ==
    \A e \in Events :
        delivery[e] = "delivered" => Role(e) \in members \/ e \in swallowed

\* iam.service.ts:36-38: the address of a published acceptance ends as a member
\* with the granted role, unless the handler caught an error for it.
PublishedIsSettled ==
    \A e \in Rows :
        e \in Events ~> (e \in swallowed \/ (e \in Events /\ Role(e) \in members))
=============================================================================
