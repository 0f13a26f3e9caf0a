----------------------------- MODULE TeamRoles -----------------------------
(***************************************************************************)
(* Members of a workspace, their roles, and who may hand them out          *)
(* (TeamService, RoleAssignmentsService, RolesService).  Every call checks *)
(* rows it read and then writes, statement by statement.                   *)
(***************************************************************************)
EXTENDS Naturals, FiniteSets

CONSTANTS
    Members,      \* of the team; a member is an employee and so a user
    Roles,        \* keys
    Custom,       \* those that can be edited and removed
    Delegable,    \* <<own, target>>: the scopes let a holder of own hand out target
    Offices       \* calls that can be in progress

VARIABLES
    member,       \* member[m]: "none", "active" or "inactive"
    roles,        \* roles that exist
    grant,        \* grant[m][r]: "none", "open", "dated" (it will expire) or "expired"
    office,       \* office[o]: operation, member, role and step of a call
    excused,      \* history: inactive members given or left a grant, see WriteGrant
    robbed        \* history: roles whose removal took live grants along that it had counted

vars == <<member, roles, grant, office, excused, robbed>>

Free == [op |-> "none", on |-> "none", role |-> "none", at |-> "idle"]
Live(m, r) == grant[m][r] \in {"open", "dated"}
Holds(m) == {r \in Roles : Live(m, r)}
NoGrants == [r \in Roles |-> "none"]

Init ==
    /\ member = [m \in Members |-> "none"]
    /\ roles = Roles
    /\ grant = [m \in Members |-> NoGrants]
    /\ office = [o \in Offices |-> Free]
    /\ excused = {} /\ robbed = {}

\* canDelegate of RoleAssignmentsService: an active member with a live grant that covers
\* the role, or with none while no other member is active.
CanDelegate(a, r) ==
    /\ member[a] = "active"
    /\ IF Holds(a) = {}
       THEN {m \in Members : member[m] = "active"} = {a}
       ELSE \E own \in Holds(a) : <<own, r>> \in Delegable

\* create of TeamService
CreateMember(m) ==
    /\ member[m] = "none"
    /\ member' = [member EXCEPT ![m] = "active"]
    /\ UNCHANGED <<roles, grant, office, excused, robbed>>

\* update of TeamService sets isActive and looks at no grant.
UpdateMember(m, active) ==
    /\ member[m] # "none"
    /\ member' = [member EXCEPT ![m] = IF active THEN "active" ELSE "inactive"]
    /\ excused' = IF ~active /\ Holds(m) # {} THEN excused \cup {m} ELSE excused
    /\ UNCHANGED <<roles, grant, office, robbed>>

Begin(o, op, on, r, step) ==
    /\ office[o] = Free
    /\ office' = [office EXCEPT ![o] = [op |-> op, on |-> on, role |-> r, at |-> step]]

\* deactivate: the grants go first, then the member.
BeginDeactivate(o, m) ==
    /\ member[m] # "none"
    /\ Begin(o, "deactivate", m, "none", "revoke")
    /\ UNCHANGED <<member, roles, grant, excused, robbed>>

\* mutant: only grants without a date are revoked
RevokedWhenOpen(state) == IF state = "open" THEN "expired" ELSE state

\* A grant that has no date or a later one expires now.
RevokedGrant(state) == IF state \in {"open", "dated"} THEN "expired" ELSE state

RevokeGrants(o) ==
    LET m == office[o].on IN
    /\ office[o].op = "deactivate" /\ office[o].at = "revoke"
    /\ grant' = [grant EXCEPT ![m] = [r \in Roles |-> RevokedGrant(grant[m][r])]]
    /\ office' = [office EXCEPT ![o].at = "mark"]
    /\ excused' = excused \ {m}
    /\ UNCHANGED <<member, roles, robbed>>

MarkInactive(o) ==
    LET m == office[o].on IN
    /\ office[o].op = "deactivate" /\ office[o].at = "mark"
    /\ member' = [member EXCEPT ![m] = "inactive"]
    /\ office' = [office EXCEPT ![o] = Free]
    /\ UNCHANGED <<roles, grant, excused, robbed>>

\* assign: an active member, a role that exists, no grant of it yet.
BeginAssign(o, a, m, r) ==
    /\ member[m] = "active"
    /\ r \in roles
    /\ CanDelegate(a, r)
    /\ grant[m][r] = "none"
    /\ Begin(o, "assign", m, r, "write")
    /\ UNCHANGED <<member, roles, grant, excused, robbed>>

\* update of RoleAssignmentsService looks at no member; expiresAt null revives a grant.
BeginEdit(o, a, m, r) ==
    /\ grant[m][r] # "none"
    /\ CanDelegate(a, r)
    /\ Begin(o, "edit", m, r, "write")
    /\ UNCHANGED <<member, roles, grant, excused, robbed>>

\* The insert fails on its unique key or on a missing role, the update on a missing row; a
\* removal of the role that has counted its live grants does not see this one.
WriteGrant(o, state) ==
    LET m == office[o].on r == office[o].role
        fails == \/ office[o].op = "assign" /\ (grant[m][r] # "none" \/ r \notin roles)
                 \/ office[o].op = "edit" /\ grant[m][r] = "none"
    IN /\ office[o].at = "write"
       /\ office[o].op \in {"assign", "edit"}
       /\ IF fails
          THEN UNCHANGED <<grant, excused>> /\ office' = [office EXCEPT ![o] = Free]
          ELSE /\ grant' = [grant EXCEPT ![m][r] = state]
               /\ excused' = IF \/ member[m] = "inactive"
                                \/ \E p \in Offices : office[p].on = m /\ office[p].at = "mark"
                             THEN excused \cup {m} ELSE excused
               /\ office' = [p \in Offices |->
                     IF p = o THEN Free
                     ELSE IF office[p].op = "remove" /\ office[p].role = r
                     THEN [office[p] EXCEPT !.at = "overtaken"]
                     ELSE office[p]]
       /\ UNCHANGED <<member, roles, robbed>>

\* revoke of RoleAssignmentsService deletes the row.
Revoke(a, m, r) ==
    /\ grant[m][r] # "none"
    /\ CanDelegate(a, r)
    /\ grant' = [grant EXCEPT ![m][r] = "none"]
    /\ UNCHANGED <<member, roles, office, excused, robbed>>

\* A date comes.
Expire(m, r) ==
    /\ grant[m][r] = "dated"
    /\ grant' = [grant EXCEPT ![m][r] = "expired"]
    /\ UNCHANGED <<member, roles, office, excused, robbed>>

\* create of RolesService, which clone calls; update changes what the model leaves out.
CreateRole(r) ==
    /\ r \in Custom \ roles
    /\ roles' = roles \cup {r}
    /\ UNCHANGED <<member, grant, office, excused, robbed>>

\* remove: a custom role without live grants
BeginRemove(o, r) ==
    /\ r \in Custom \cap roles
    /\ \A m \in Members : ~Live(m, r)
    /\ Begin(o, "remove", "none", r, "delete")
    /\ UNCHANGED <<member, roles, grant, excused, robbed>>

\* The grants go with the role.
DeleteRole(o) ==
    LET r == office[o].role IN
    /\ office[o].op = "remove"
    /\ roles' = roles \ {r}
    /\ robbed' = IF office[o].at = "delete" /\ \E m \in Members : Live(m, r)
                 THEN robbed \cup {r} ELSE robbed
    /\ grant' = [m \in Members |-> [grant[m] EXCEPT ![r] = "none"]]
    /\ office' = [office EXCEPT ![o] = Free]
    /\ UNCHANGED <<member, excused>>

\* A statement throws.
Throw(o) ==
    /\ office[o] # Free
    /\ office' = [office EXCEPT ![o] = Free]
    /\ UNCHANGED <<member, roles, grant, excused, robbed>>

Next ==
    \/ \E m \in Members :
           \/ CreateMember(m)
           \/ \E active \in BOOLEAN : UpdateMember(m, active)
           \/ \E o \in Offices : BeginDeactivate(o, m)
           \/ \E r \in Roles :
                  \/ Expire(m, r)
                  \/ \E a \in Members :
                         \/ Revoke(a, m, r)
                         \/ \E o \in Offices : BeginAssign(o, a, m, r) \/ BeginEdit(o, a, m, r)
    \/ \E o \in Offices :
           \/ RevokeGrants(o) \/ MarkInactive(o) \/ DeleteRole(o) \/ Throw(o)
           \/ \E state \in {"open", "dated", "expired"} : WriteGrant(o, state)
           \/ \E r \in Roles : BeginRemove(o, r)
    \/ \E r \in Roles : CreateRole(r)

Spec == Init /\ [][Next]_vars
-----------------------------------------------------------------------------
TypeOK ==
    /\ member \in [Members -> {"none", "active", "inactive"}]
    /\ roles \subseteq Roles
    /\ \A m \in Members, r \in Roles : grant[m][r] \in {"none", "open", "dated", "expired"}
    /\ excused \subseteq Members

\* team.service.ts:201-234 and roles.service.ts:255-290: an inactive member holds no live
\* grant, unless PATCH made it inactive, a grant of it was edited, or an assignment
\* overlapped the deactivation; every grant is of a role that exists, and a removal takes
\* live grants along only when one was written while it ran.
InactiveHoldsNothing ==
    /\ \A m \in Members : member[m] = "inactive" /\ Holds(m) # {} => m \in excused
    /\ \A m \in Members, r \in Roles : grant[m][r] # "none" => r \in roles
    /\ robbed = {}
=============================================================================
