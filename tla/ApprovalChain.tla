--------------------------- MODULE ApprovalChain ---------------------------
(***************************************************************************)
(* One approval request and the concurrent approve() calls made on it.     *)
(*                                                                         *)
(* ApprovalsService.approve reads the request, decides, writes the step,   *)
(* reads again, writes the status, audits twice and publishes, each an     *)
(* awaited statement of its own with no transaction around them.  A slot   *)
(* is one server-side call at a time.                                      *)
(***************************************************************************)
EXTENDS Integers, FiniteSets

CONSTANTS
    Slots,       \* calls that can be in progress at the same time
    Users,       \* actorName
    Roles,       \* actorRole
    StepRole,    \* StepRole[k]: role of the step with orderNo k
    StepCount,   \* number of steps of the request
    IsSpend,     \* the request's type is 'spend_approval'
    Amount,      \* the request's amount
    MaxFaults    \* bound of the model: calls cut short by a throw or a crash

Steps == 1 .. StepCount

ASSUME ChainAssumption ==
    /\ StepCount \in Nat \ {0}
    /\ StepRole \in [Steps -> Roles]
    /\ IsSpend \in BOOLEAN
    /\ Amount \in Nat
    /\ MaxFaults \in Nat
    /\ "none" \notin Roles

VARIABLES
    step,       \* step[k]: ApprovalStep.status
    actedAs,    \* actedAs[k]: the role step k was last approved under
    basis,      \* basis[k]: "role", "delegation" or "override"
    status,     \* ApprovalRequest.status
    delegated,  \* <<u, r>>: u holds an active ApprovalDelegation for role r
    pc,         \* pc[s]: the statement slot s is about to run
    user,       \* user[s], role[s]: the call's arguments
    role,
    mine,       \* mine[s]: pendingStep of the call
    how,        \* how[s]: on what the call may sign it
    outcome,    \* outcome[s]: nextStatus of the call
    granted,    \* history: approval.granted events published
    faults

requestVars == <<step, actedAs, basis, status>>
callVars == <<user, role, mine, how, outcome>>
vars == <<requestVars, delegated, pc, callVars, granted, faults>>

PendingSteps == {k \in Steps : step[k] = "pending"}

\* mutant: steps read without an order
IsAnyPending(k) == k \in PendingSteps

\* find() over the steps by orderNo
IsFirstPending(k) == k \in PendingSteps /\ \A j \in PendingSteps : k =< j

\* mutant: a limit inclusive of the next band
MaySpendLoosely(r, k) ==
    IsSpend =>
        /\ r # "technician"
        /\ ~(r = "building_manager" /\ Amount > 50000)
        /\ k = 3 /\ Amount > 50000 => r = "owner_representative"

\* The limits of a spend approval, by the role the caller acts in.
MaySpend(r, k) ==
    IsSpend =>
        /\ r # "technician"
        /\ ~(r = "building_manager" /\ Amount > 25000)
        /\ k = 3 /\ Amount > 50000 => r = "owner_representative"

AllApproved == \A k \in Steps : step[k] = "approved"

Init ==
    /\ step = [k \in Steps |-> "pending"]
    /\ actedAs = [k \in Steps |-> "none"]
    /\ basis = [k \in Steps |-> "none"]
    /\ status = "pending"
    /\ delegated = {}
    /\ pc = [s \in Slots |-> "idle"]
    /\ user \in [Slots -> Users]
    /\ role \in [Slots -> Roles]
    /\ mine = [s \in Slots |-> 1]
    /\ how = [s \in Slots |-> "role"]
    /\ outcome = [s \in Slots |-> "pending"]
    /\ granted = 0
    /\ faults = 0

GoTo(s, where) == pc' = [pc EXCEPT ![s] = where]
-----------------------------------------------------------------------------
(* ApprovalDelegationsService.create and .revoke; a window that opens or ends *)

Delegate(u, r) ==
    /\ delegated' = delegated \cup {<<u, r>>}
    /\ UNCHANGED <<requestVars, pc, callVars, granted, faults>>

EndDelegation(u, r) ==
    /\ delegated' = delegated \ {<<u, r>>}
    /\ UNCHANGED <<requestVars, pc, callVars, granted, faults>>
-----------------------------------------------------------------------------
(* approve() *)

\* The request is read, and the caller holds the pending step's role.  A call
\* that finds no pending step, or whose caller may not spend, changes nothing.
BeginInRole(s, u, r) ==
    /\ pc[s] = "idle"
    /\ \E k \in Steps :
        /\ IsFirstPending(k)
        /\ StepRole[k] = r
        /\ MaySpend(r, k)
        /\ mine' = [mine EXCEPT ![s] = k]
    /\ user' = [user EXCEPT ![s] = u]
    /\ role' = [role EXCEPT ![s] = r]
    /\ how' = [how EXCEPT ![s] = "role"]
    /\ GoTo(s, "sign")
    /\ UNCHANGED <<requestVars, delegated, outcome, granted, faults>>

\* Another role: the delegations are looked up first.
BeginForAnother(s, u, r) ==
    /\ pc[s] = "idle"
    /\ \E k \in Steps :
        /\ IsFirstPending(k)
        /\ StepRole[k] # r
        /\ mine' = [mine EXCEPT ![s] = k]
    /\ user' = [user EXCEPT ![s] = u]
    /\ role' = [role EXCEPT ![s] = r]
    /\ GoTo(s, "lookup")
    /\ UNCHANGED <<requestVars, delegated, how, outcome, granted, faults>>

HasDelegation(s) == <<user[s], StepRole[mine[s]]>> \in delegated

\* The owner's representative may override the last step only.
IsOverride(s) == role[s] = "owner_representative" /\ mine[s] = StepCount

LookupAllows(s) ==
    /\ pc[s] = "lookup"
    /\ HasDelegation(s) \/ IsOverride(s)
    /\ MaySpend(role[s], mine[s])
    /\ how' = [how EXCEPT ![s] = IF HasDelegation(s) THEN "delegation" ELSE "override"]
    /\ GoTo(s, "sign")
    /\ UNCHANGED <<requestVars, delegated, user, role, mine, outcome, granted, faults>>

LookupRefuses(s) ==
    /\ pc[s] = "lookup"
    /\ ~(HasDelegation(s) \/ IsOverride(s)) \/ ~MaySpend(role[s], mine[s])
    /\ GoTo(s, "idle")
    /\ UNCHANGED <<requestVars, delegated, callVars, granted, faults>>

\* The step is updated by id, whatever has become of it since it was read.
Sign(s) ==
    /\ pc[s] = "sign"
    /\ step' = [step EXCEPT ![mine[s]] = "approved"]
    /\ actedAs' = [actedAs EXCEPT ![mine[s]] = role[s]]
    /\ basis' = [basis EXCEPT ![mine[s]] = how[s]]
    /\ GoTo(s, "reread")
    /\ UNCHANGED <<status, delegated, callVars, granted, faults>>

\* mutant: `some` for `every`
RereadSome(s) ==
    /\ pc[s] = "reread"
    /\ outcome' = [outcome EXCEPT ![s] =
                     IF \E k \in Steps : step[k] = "approved" THEN "approved" ELSE "pending"]
    /\ GoTo(s, "status")
    /\ UNCHANGED <<requestVars, delegated, user, role, mine, how, granted, faults>>

\* `fresh`; no statement of the program rejects a step, so none is found.
Reread(s) ==
    /\ pc[s] = "reread"
    /\ outcome' = [outcome EXCEPT ![s] = IF AllApproved THEN "approved" ELSE "pending"]
    /\ GoTo(s, "status")
    /\ UNCHANGED <<requestVars, delegated, user, role, mine, how, granted, faults>>

WriteStatus(s) ==
    /\ pc[s] = "status"
    /\ status' = outcome[s]
    /\ GoTo(s, "audit")
    /\ UNCHANGED <<step, actedAs, basis, delegated, callVars, granted, faults>>

\* auditService.transition and .write, then publish on a terminal status.
AuditAndGoOn(s) ==
    /\ pc[s] = "audit"
    /\ GoTo(s, IF outcome[s] = "approved" THEN "publish" ELSE "idle")
    /\ UNCHANGED <<requestVars, delegated, callVars, granted, faults>>

Publish(s) ==
    /\ pc[s] = "publish"
    /\ granted' = granted + 1
    /\ GoTo(s, "idle")
    /\ UNCHANGED <<requestVars, delegated, callVars, faults>>

\* A statement of the call throws, or the process dies.
Stop(s) ==
    /\ pc[s] # "idle"
    /\ faults < MaxFaults
    /\ faults' = faults + 1
    /\ GoTo(s, "idle")
    /\ UNCHANGED <<requestVars, delegated, callVars, granted>>

Call(s) ==
    \/ \E u \in Users, r \in Roles : BeginInRole(s, u, r) \/ BeginForAnother(s, u, r)
    \/ LookupAllows(s)
    \/ LookupRefuses(s)
    \/ Sign(s)
    \/ Reread(s)
    \/ WriteStatus(s)
    \/ AuditAndGoOn(s)
    \/ Publish(s)
    \/ Stop(s)

Next ==
    \/ \E s \in Slots : Call(s)
    \/ \E u \in Users, r \in Roles : Delegate(u, r) \/ EndDelegation(u, r)

Spec == Init /\ [][Next]_vars
-----------------------------------------------------------------------------
(* Properties *)

TypeOK ==
    /\ step \in [Steps -> {"pending", "approved"}]
    /\ actedAs \in [Steps -> Roles \cup {"none"}]
    /\ basis \in [Steps -> {"none", "role", "delegation", "override"}]
    /\ status \in {"pending", "approved"}
    /\ delegated \subseteq Users \X Roles
    /\ pc \in [Slots -> {"idle", "lookup", "sign", "reread", "status", "audit", "publish"}]
    /\ user \in [Slots -> Users]
    /\ role \in [Slots -> Roles]
    /\ mine \in [Slots -> Steps]
    /\ how \in [Slots -> {"role", "delegation", "override"}]
    /\ outcome \in [Slots -> {"pending", "approved"}]
    /\ granted \in Nat
    /\ faults \in 0 .. MaxFaults

\* Neither the status nor the event ever runs ahead of the steps, however the
\* calls interleave and wherever they stop.
ApprovedMeansAllSteps ==
    (status = "approved" \/ granted > 0) => AllApproved

\* Nobody signs before the signatures below theirs are there.
SignedInOrder ==
    \A j, k \in Steps : j < k /\ step[k] = "approved" => step[j] = "approved"

\* What stands on a signed step kept its authority, overwrites included: the
\* step's role, a substitute, or the owner on the last step; and within limits.
SignedWithAuthority ==
    \A k \in Steps : step[k] = "approved" =>
        /\ \/ actedAs[k] = StepRole[k]
           \/ basis[k] = "delegation"
           \/ (actedAs[k] = "owner_representative" /\ k = StepCount)
        /\ IsSpend =>
            /\ actedAs[k] # "technician"
            /\ actedAs[k] = "building_manager" => Amount =< 25000
            /\ k = 3 /\ actedAs[k] # "owner_representative" => Amount =< 50000

Quiescent == \A s \in Slots : pc[s] = "idle"

\* Once every step is signed and no call is in progress the request is
\* approved; no later call could do it, for none finds a pending step.
CompleteChainIsApproved ==
    Quiescent /\ faults = 0 /\ AllApproved => status = "approved"
=============================================================================
