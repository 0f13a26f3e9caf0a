----------------------------- MODULE Authority -----------------------------
(***************************************************************************)
(* Who may do what in a building: the roles people hold there and hand on, *)
(* and what a user may do who holds them.                                  *)
(***************************************************************************)
EXTENDS Integers, FiniteSets

CONSTANTS
    Founder,     \* the first manager of the building
    Residents,   \* the other people
    Ranks,       \* Ranks[r]: rank of the scope of role r
    Delegation,  \* Delegation[r]: rank of its maxDelegatableScope, 0 when null
    FounderRole,
    Calls,       \* calls that can be in progress
    Titles,      \* role keys
    Permissions,
    FirstRights, \* the permissions of each role at the start
    GrantRows    \* grants the user can be given, as records

VARIABLES
    granted,   \* granted[u][r]: is there a grant, has it expired, did u make it himself
    staff,     \* people with an account
    doing,     \* doing[c]: what call c has checked and has yet to write
    chartered, \* history: roles handed out by a workspace administrator
    deprived,  \* history: people whose grants were revoked or never written
    enrolled,  \* roles of the active memberships of the user
    grants,    \* grants in force
    rights     \* rights[r]: permissions of role r

-----------------------------------------------------------------------------
(***************************************************************************)
(* The roles people hold in a building (IamService): a holder of a role    *)
(* hands roles on within the scope of his own, workspace administrators    *)
(* create staff with any role, and a grant is revoked by whoever could     *)
(* have made it.  What the actor may do is read before it is done.         *)
(***************************************************************************)

grantVars == <<granted, staff, doing, chartered, deprived>>

Everyone == Residents \cup {Founder}
Offered == DOMAIN Ranks
NoGrant == [state |-> "none", own |-> FALSE]
Idle == [kind |-> "none", user |-> "none", role |-> "none", own |-> FALSE]

GrantInit ==
    /\ granted = [u \in Everyone |-> [r \in Offered |->
           IF u = Founder /\ r = FounderRole THEN [state |-> "runs", own |-> FALSE] ELSE NoGrant]]
    /\ staff = {Founder}
    /\ doing = [c \in Calls |-> Idle]
    /\ chartered = {}
    /\ deprived = {}

\* mutant: only the scope that may be delegated is compared, one rank too high
CanDelegateAbove(u, role) ==
    \E r \in Offered :
        /\ granted[u][r].state # "none"
        /\ Delegation[r] > 0
        /\ Ranks[role] <= Delegation[r] + 1

\* canDelegate: a grant that has expired still delegates, unlike in permissions.
CanDelegate(u, role) ==
    \E r \in Offered :
        /\ granted[u][r].state # "none"
        /\ Delegation[r] > 0
        /\ Ranks[role] <= Delegation[r]
        /\ Ranks[role] <= Ranks[r]

Begin(c, kind, u, role, by) ==
    doing' = [doing EXCEPT ![c] = [kind |-> kind, user |-> u, role |-> role, own |-> u = by]]

\* Nobody gives himself more than a viewer's role.
CheckAssign(c, u, role, by) ==
    /\ doing[c] = Idle
    /\ u \in staff /\ by \in staff
    /\ u = by => role = "viewer"
    /\ CanDelegate(by, role)
    /\ Begin(c, "assign", u, role, by)
    /\ UNCHANGED <<granted, staff, chartered, deprived>>

\* A grant there already is renewed; its maker becomes the last one who assigned it.
WriteAssignment(c) ==
    LET d == doing[c] IN
    /\ d.kind = "assign"
    /\ granted' = [granted EXCEPT ![d.user][d.role] = [state |-> "runs", own |-> d.own]]
    /\ doing' = [doing EXCEPT ![c] = Idle]
    /\ UNCHANGED <<staff, chartered, deprived>>

\* createStaff, up to the insert of the user, whose e-mail address is unique.
CreateUser(c, u, role, by, administrator) ==
    /\ doing[c] = Idle
    /\ u \notin staff /\ by \in staff
    /\ CanDelegate(by, role) \/ administrator
    /\ staff' = staff \cup {u}
    /\ chartered' = IF CanDelegate(by, role) THEN chartered ELSE chartered \cup {role}
    /\ Begin(c, "staff", u, role, by)
    /\ UNCHANGED <<granted, deprived>>

\* The grant of a new member of staff, after the membership of the organization.
WriteStaffGrant(c) ==
    LET d == doing[c] IN
    /\ d.kind = "staff"
    /\ granted[d.user][d.role] = NoGrant
    /\ granted' = [granted EXCEPT ![d.user][d.role] = [state |-> "runs", own |-> d.own]]
    /\ doing' = [doing EXCEPT ![c] = Idle]
    /\ UNCHANGED <<staff, chartered, deprived>>

\* The membership fails (an unknown organization), the process stops, or somebody was
\* quicker to assign the same role; a retry finds the e-mail address taken.
CutStaff(c) ==
    LET d == doing[c] IN
    /\ d.kind = "staff"
    /\ deprived' = deprived \cup {d.user}
    /\ doing' = [doing EXCEPT ![c] = Idle]
    /\ UNCHANGED <<granted, staff, chartered>>

CheckRevoke(c, u, role, by) ==
    /\ doing[c] = Idle
    /\ by \in staff
    /\ granted[u][role] # NoGrant
    /\ CanDelegate(by, role)
    /\ Begin(c, "revoke", u, role, by)
    /\ UNCHANGED <<granted, staff, chartered, deprived>>

DeleteGrant(c) ==
    LET d == doing[c] IN
    /\ d.kind = "revoke"
    /\ granted' = [granted EXCEPT ![d.user][d.role] = NoGrant]
    /\ deprived' = deprived \cup {d.user}
    /\ doing' = [doing EXCEPT ![c] = Idle]
    /\ UNCHANGED <<staff, chartered>>

Expire(u, role) ==
    /\ granted[u][role].state = "runs"
    /\ granted' = [granted EXCEPT ![u][role].state = "expired"]
    /\ UNCHANGED <<staff, doing, chartered, deprived>>

GrantNext ==
    \/ \E c \in Calls :
           \/ \E u, by \in Everyone, role \in Offered :
                  \/ CheckAssign(c, u, role, by)
                  \/ CheckRevoke(c, u, role, by)
                  \/ \E administrator \in BOOLEAN : CreateUser(c, u, role, by, administrator)
           \/ WriteAssignment(c) \/ WriteStaffGrant(c) \/ CutStaff(c) \/ DeleteGrant(c)
    \/ \E u \in Everyone, role \in Offered : Expire(u, role)
-----------------------------------------------------------------------------
(***************************************************************************)
(* What a user may do (ActorResolver and the policy engine): the           *)
(* memberships and the building grants of one user are put together into   *)
(* one actor at each request, a single resource is compared with it        *)
(* (requireScope), and a list is narrowed to it (scopeWhere).  GrantedFloors      *)
(* stand for the three lists a grant has besides its building, and the     *)
(* contractor for the three companies and teams.                           *)
(***************************************************************************)

actorVars == <<enrolled, grants, rights>>

GrantedBuildings == {g.building : g \in GrantRows}
GrantedFloors == UNION {g.floors : g \in GrantRows}
Firms == {g.contractor : g \in GrantRows} \ {"none"}

ActorInit ==
    /\ enrolled = {}
    /\ grants = {}
    /\ rights = FirstRights
-----------------------------------------------------------------------------
(* resolve *)

\* mutant: a list that is empty adds nothing
MergeListed(lists) == UNION lists

\* A list that is empty is no restriction, alone or with others.
MergeStringArrays(lists) == IF {} \in lists THEN {} ELSE UNION lists

\* The rows come in no order: any value that is there can be the first.
FirstNonNull(values) == IF values \subseteq {"none"} THEN {"none"} ELSE values \ {"none"}

GrantsIn(b) == {g \in grants : b = "any" \/ g.building = b}

\* The actors that resolve can return for a request about building b, or about none
Resolve(b) ==
    LET rows == GrantsIn(b) IN
    {[permissions |-> UNION {rights[r] : r \in enrolled \cup {g.role : g \in rows}},
      buildings |-> IF b = "any" THEN {g.building : g \in rows} ELSE {b},
      floors |-> MergeStringArrays({g.floors : g \in rows}),
      contractor |-> c,
      createdBy |-> \E g \in rows : g.createdBy] :
         c \in FirstNonNull({g.contractor : g \in rows})}
-----------------------------------------------------------------------------
(* policy.ts; a resource has a building, a floor or none, a contractor or none, and
   whether the user made it, or nobody is said to have *)

Resources == [building : GrantedBuildings, floor : GrantedFloors \cup {"none"}, contractor : Firms \cup {"none"},
              own : BOOLEAN]

InList(list, value) == value = "none" \/ list = {} \/ value \in list

RequireScope(actor, x) ==
    /\ InList(actor.buildings, x.building)
    /\ InList(actor.floors, x.floor)
    /\ actor.contractor \in {"none", x.contractor}
    /\ actor.createdBy => x.own

Authorize(actor, p, x) == p \in actor.permissions /\ RequireScope(actor, x)

ScopeWhere(actor, x) ==
    /\ actor.buildings # {} => x.building \in actor.buildings
    /\ actor.floors # {} => x.floor \in actor.floors
    /\ actor.contractor \in {"none", x.contractor}
-----------------------------------------------------------------------------
Enrol(r) == enrolled' = enrolled \cup {r} /\ UNCHANGED <<grants, rights>>
Dismiss(r) == r \in enrolled /\ enrolled' = enrolled \ {r} /\ UNCHANGED <<grants, rights>>
Give(g) == grants' = grants \cup {g} /\ UNCHANGED <<enrolled, rights>>

\* It is taken back, or its date comes.
Lapse(g) == g \in grants /\ grants' = grants \ {g} /\ UNCHANGED <<enrolled, rights>>

\* The permissions of a custom role are replaced in a transaction.
UpdateRole(r, ps) == rights' = [rights EXCEPT ![r] = ps] /\ UNCHANGED <<enrolled, grants>>

ActorNext ==
    \/ \E r \in Titles : Enrol(r) \/ Dismiss(r)
    \/ \E g \in GrantRows : Give(g) \/ Lapse(g)
    \/ \E r \in Titles, ps \in SUBSET Permissions : UpdateRole(r, ps)
-----------------------------------------------------------------------------
vars == <<grantVars, actorVars>>

Init == GrantInit /\ ActorInit

\* The parts share no rows; a step is one of either.
Next ==
    \/ GrantNext /\ UNCHANGED actorVars
    \/ ActorNext /\ UNCHANGED grantVars

Spec == Init /\ [][Next]_vars
-----------------------------------------------------------------------------
\* permissions and list: an expired grant gives nothing.
RolesInForce(u) == {r \in Offered : granted[u][r].state = "runs"}

GrantTypeOK ==
    /\ \A u \in Everyone, r \in Offered : granted[u][r].state \in {"none", "runs", "expired"}
    /\ staff \subseteq Everyone
    /\ \A c \in Calls : doing[c].kind \in {"none", "assign", "staff", "revoke"}

\* iam.service.ts:164-244 and :256-354: along any chain of delegations and however calls
\* overlap, no role in a building is of a wider scope than the one its first manager had
\* or an administrator handed out; nobody made his own grant but a viewer's; and staff
\* have a role, unless it was revoked or the call that created them did not finish.
RanksNeverRise ==
    /\ \A u \in Everyone, r \in Offered :
           granted[u][r] # NoGrant =>
               /\ \E top \in chartered \cup {FounderRole} : Ranks[r] <= Ranks[top]
               /\ granted[u][r].own => r = "viewer"
    /\ \A u \in staff :
           \/ \E r \in Offered : granted[u][r] # NoGrant
           \/ u \in deprived
           \/ \E c \in Calls : doing[c].kind = "staff" /\ doing[c].user = u

ActorTypeOK ==
    /\ enrolled \subseteq Titles
    /\ grants \subseteq GrantRows
    /\ rights \in [Titles -> SUBSET Permissions]

\* What grant g alone is for
Covers(g, x) ==
    /\ x.building = g.building
    /\ InList(g.floors, x.floor)
    /\ g.contractor \in {"none", x.contractor}
    /\ g.createdBy => x.own

\* actor-resolver.ts:64-79 and policy.ts:33-73: what one grant gives, the actor has, and no
\* more, whether the request names a building or not; several grants together give at least
\* what each one gives, unless they name different contractors or one is limited to what the
\* user made; and a list shows what can be opened one by one, but for those limits and
\* resources without a floor.
ScopesAgree ==
    \A b \in GrantedBuildings \cup {"any"}, x \in Resources : \A actor \in Resolve(b) :
        LET rows == GrantsIn(b)
            firms == {g.contractor : g \in rows}
        IN /\ Cardinality(rows) = 1 => (RequireScope(actor, x) <=> \E g \in rows : Covers(g, x))
           /\ (Cardinality(firms) <= 1 /\ ~\E g \in rows : g.createdBy) =>
                  \A g \in rows : Covers(g, x) => RequireScope(actor, x)
           /\ (ScopeWhere(actor, x) /\ (actor.createdBy => x.own)) => RequireScope(actor, x)
           /\ (RequireScope(actor, x) /\ x.floor # "none") => ScopeWhere(actor, x)
           /\ \A p \in Permissions : Authorize(actor, p, x) =>
                  \E r \in enrolled \cup {g.role : g \in grants} : p \in rights[r]

TypeOK == GrantTypeOK /\ ActorTypeOK
=============================================================================
