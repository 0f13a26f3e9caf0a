----------------------------- MODULE Occupancy -----------------------------
(***************************************************************************)
(* Who uses what in a building: the spots and the administrators of the    *)
(* companies that lease them, and the register of the companies            *)
(* themselves.                                                             *)
(***************************************************************************)
EXTENDS Naturals, FiniteSets

CONSTANTS
    Contracts, \* building contracts
    Spots,     \* parking spots and storage units: they have an isLeased flag
    Rooms,     \* units: allocated without a flag
    Companies, \* occupant companies of one building
    People,    \* users
    Occupiers, \* company rows
    Fields,    \* settings of a company
    Managers,  \* people who may be managers
    Hands      \* calls that can be in progress

VARIABLES
    allocations, \* <<contract, target>> rows; the pair is a unique key
    leased,      \* spots whose isLeased is true
    admin,       \* admin[c]: adminUserId of company c
    grant,       \* grant[u]: the company of u's tenant_company_admin row
    leaseCall,   \* leaseCall[h]: the statement a call is at, with what it has read; alone (history):
                 \* no other call has been on the same spot or company
    leaseCut,    \* history: spots entered as leased, and spots and companies left half-way by
                 \* a call or worked on by two at once, none of them redone since
    company,     \* company[o]: its type, "none" when there is no row, and whether it was listed
    settings,    \* settings[o]: "absent", or the fields that were ever given a value
    manager,     \* present managers of the workspace or of any building
    hand,        \* hand[h]: the call h was allowed to make and has yet to write
    recast       \* history: companies a padded, missing or edited type keeps off the lists

-----------------------------------------------------------------------------
(***************************************************************************)
(* Who uses what in a building: the allocations of a lease contract and    *)
(* the isLeased flag kept beside them (LeasesService), the administrator   *)
(* of an occupant company and the role grant that goes with it             *)
(* (TenantCompaniesService).  A call is a sequence of unprotected          *)
(* statements, of which any may throw.                                     *)
(***************************************************************************)

leasingVars == <<allocations, leased, admin, grant, leaseCall, leaseCut>>
leaseVars == <<allocations, leased>>
adminVars == <<admin, grant>>

Targets == Spots \cup Rooms
NoCall == [op |-> "none", x |-> "none", who |-> "none", before |-> "none", alone |-> TRUE]

\* createParking, createStorage: a spot is leased or not as its manager enters it, before there is
\* any allocation.
LeasingInit ==
    /\ allocations = {}
    /\ leased \in SUBSET Spots
    /\ admin = [c \in Companies |-> "none"]
    /\ grant = [u \in People |-> "none"]
    /\ leaseCall = [h \in Hands |-> NoCall]
    /\ leaseCut = leased

At(h, op) == leaseCall[h].op = op
Goto(h, op) == leaseCall' = [leaseCall EXCEPT ![h].op = op]
Leave(h) == leaseCall' = [leaseCall EXCEPT ![h] = NoCall]
Shared(h, x) == \E g \in Hands \ {h} : leaseCall[g].x = x

\* A call begins on spot or company x: from here on no call on x is alone.
Begin(h, call) ==
    /\ At(h, "none")
    /\ leaseCall' = [g \in Hands |->
           IF g = h THEN [call EXCEPT !.alone = ~Shared(h, call.x)]
           ELSE IF leaseCall[g].x = call.x THEN [leaseCall[g] EXCEPT !.alone = FALSE]
           ELSE leaseCall[g]]
    /\ leaseCut' = IF Shared(h, call.x) THEN leaseCut \cup {call.x} ELSE leaseCut

\* The last write of a call on a flag: one that was alone leaves it right.
Done(h) ==
    /\ leaseCut' = IF leaseCall[h].alone THEN leaseCut \ {leaseCall[h].x} ELSE leaseCut
    /\ Leave(h)
-----------------------------------------------------------------------------
(* LeasesService *)

AddAllocation(h, k, t) ==
    /\ <<k, t>> \notin allocations
    /\ allocations' = allocations \cup {<<k, t>>}
    /\ IF t \in Spots THEN Begin(h, [NoCall EXCEPT !.op = "flag", !.x = t])
       ELSE At(h, "none") /\ UNCHANGED <<leaseCall, leaseCut>>
    /\ UNCHANGED <<leased, adminVars>>

\* setLeasedFlag(true)
Flag(h) ==
    /\ At(h, "flag")
    /\ leased' = leased \cup {leaseCall[h].x}
    /\ Done(h)
    /\ UNCHANGED <<allocations, adminVars>>

RemoveAllocation(h, k, t) ==
    /\ <<k, t>> \in allocations
    /\ allocations' = allocations \ {<<k, t>>}
    /\ IF t \in Spots THEN Begin(h, [NoCall EXCEPT !.op = "recount", !.x = t])
       ELSE At(h, "none") /\ UNCHANGED <<leaseCall, leaseCut>>
    /\ UNCHANGED <<leased, adminVars>>

\* mutant: the flag is cleared without counting what is left
RecountNothing(h) ==
    /\ At(h, "recount")
    /\ Goto(h, "clear")
    /\ UNCHANGED <<leaseVars, adminVars, leaseCut>>

\* The allocations left are counted; with some, the flag is not written, right or wrong.
Recount(h) ==
    /\ At(h, "recount")
    /\ IF \E k \in Contracts : <<k, leaseCall[h].x>> \in allocations THEN Leave(h) ELSE Goto(h, "clear")
    /\ UNCHANGED <<leaseVars, adminVars, leaseCut>>

\* setLeasedFlag(false), on the count that was read
Clear(h) ==
    /\ At(h, "clear")
    /\ leased' = leased \ {leaseCall[h].x}
    /\ Done(h)
    /\ UNCHANGED <<allocations, adminVars>>
-----------------------------------------------------------------------------
(* TenantCompaniesService.setAdmin *)

ReadAdmin(h, c, who) ==
    /\ Begin(h, [NoCall EXCEPT !.op = "link", !.x = c, !.who = who, !.before = admin[c]])
    /\ UNCHANGED <<leaseVars, adminVars>>

SetAdmin(h) ==
    /\ At(h, "link")
    /\ admin' = [admin EXCEPT ![leaseCall[h].x] = leaseCall[h].who]
    /\ Goto(h, "revoke")
    /\ UNCHANGED <<leaseVars, grant, leaseCut>>

\* mutant: unlinking the administrator leaves the grant
RevokePriorOnReplace(h) ==
    /\ At(h, "revoke")
    /\ LET call == leaseCall[h]
       IN /\ grant' = [u \in People |->
                 IF u = call.before /\ u # call.who /\ call.who # "none" /\ grant[u] = call.x
                 THEN "none" ELSE grant[u]]
          /\ IF call.who = "none" THEN Leave(h) ELSE Goto(h, "grant")
    /\ UNCHANGED <<leaseVars, admin, leaseCut>>

\* The grant of the administrator that was read, not of the present one
RevokePrior(h) ==
    /\ At(h, "revoke")
    /\ LET call == leaseCall[h]
       IN /\ grant' = [u \in People |->
                 IF u = call.before /\ u # call.who /\ grant[u] = call.x THEN "none" ELSE grant[u]]
          /\ IF call.who = "none" THEN Leave(h) ELSE Goto(h, "grant")
    /\ UNCHANGED <<leaseVars, admin, leaseCut>>

\* The grant is unique for building, user and role: it moves from another company.
Grant(h) ==
    /\ At(h, "grant")
    /\ grant' = [grant EXCEPT ![leaseCall[h].who] = leaseCall[h].x]
    /\ Leave(h)
    /\ UNCHANGED <<leaseVars, admin, leaseCut>>

\* A statement throws, or the process dies: what was written stays.
Throw(h) ==
    /\ ~At(h, "none")
    /\ leaseCut' = leaseCut \cup {leaseCall[h].x}
    /\ Leave(h)
    /\ UNCHANGED <<leaseVars, adminVars>>

AllocationNext ==
    \E h \in Hands :
        \/ \E k \in Contracts, s \in Targets : AddAllocation(h, k, s) \/ RemoveAllocation(h, k, s)
        \/ Flag(h) \/ Recount(h) \/ Clear(h)
        \/ Throw(h)

AdminNext ==
    \E h \in Hands :
        \/ \E c \in Companies, who \in People \cup {"none"} : ReadAdmin(h, c, who)
        \/ SetAdmin(h) \/ RevokePrior(h) \/ Grant(h)
        \/ Throw(h)

LeasingNext == AllocationNext \/ AdminNext
-----------------------------------------------------------------------------
(***************************************************************************)
(* The companies that occupy a building (OccupantsService): created and    *)
(* edited by managers, each with settings that an upsert fills from        *)
(* defaults.  Companies of type vendor share the table, and every list     *)
(* leaves them out.                                                        *)
(***************************************************************************)

occupierVars == <<company, settings, manager, hand, recast>>

\* "padded" is vendor with a space; "untyped" a type left out.
Types == {"lessee", "vendor", "padded", "untyped"}
Trimmed(type) == IF type = "padded" THEN "vendor" ELSE type
Free == [on |-> "none", kind |-> "none", type |-> "none", given |-> {}]

OccupierInit ==
    /\ company = [o \in Occupiers |-> "none"]
    /\ settings = [o \in Occupiers |-> [there |-> FALSE, given |-> {}]]
    /\ manager = Managers
    /\ hand = [h \in Hands |-> Free]
    /\ recast = {}

\* Whoever manages any building of the workspace may write in this one.
RequireManager(u) == u \in manager

\* mutant: a vendor may be entered as an occupier
EnterableAny == Types

\* The type is compared before it is trimmed.
Enterable == Types \ {"vendor"}

\* createTenant, up to the insert
CheckCreate(h, u, o, type) ==
    /\ hand[h] = Free
    /\ RequireManager(u)
    /\ company[o] = "none"
    /\ type \in Enterable
    /\ \A g \in Hands : hand[g].on # o
    /\ hand' = [hand EXCEPT ![h] = [on |-> o, kind |-> "create", type |-> type, given |-> {}]]
    /\ UNCHANGED <<company, settings, manager, recast>>

\* patchProfile checks the company and the name; upsertSettings the company.
CheckEdit(h, u, o, kind, type, given) ==
    /\ hand[h] = Free
    /\ RequireManager(u)
    /\ company[o] # "none"
    /\ hand' = [hand EXCEPT ![h] = [on |-> o, kind |-> kind, type |-> type, given |-> given]]
    /\ UNCHANGED <<company, settings, manager, recast>>

CreateTenant(h) ==
    /\ hand[h].kind = "create"
    /\ company' = [company EXCEPT ![hand[h].on] = Trimmed(hand[h].type)]
    /\ recast' = IF hand[h].type \in {"padded", "untyped"} THEN recast \cup {hand[h].on} ELSE recast
    /\ hand' = [hand EXCEPT ![h] = Free]
    /\ UNCHANGED <<settings, manager>>

\* The type is taken as given.
PatchProfile(h) ==
    LET o == hand[h].on IN
    /\ hand[h].kind = "patch"
    /\ company' = [company EXCEPT ![o] = hand[h].type]
    /\ recast' = IF hand[h].type \in {"vendor", "untyped"} THEN recast \cup {o} ELSE recast \ {o}
    /\ hand' = [hand EXCEPT ![h] = Free]
    /\ UNCHANGED <<settings, manager>>

\* The upsert: defaults for what was not given when the row is new, else left alone.
UpsertSettings(h) ==
    LET o == hand[h].on IN
    /\ hand[h].kind = "settings"
    /\ settings' = [settings EXCEPT ![o] = [there |-> TRUE, given |-> @.given \cup hand[h].given]]
    /\ hand' = [hand EXCEPT ![h] = Free]
    /\ UNCHANGED <<company, manager, recast>>

\* The seed enters the vendors of service contracts.
SeedVendor(o) ==
    /\ company[o] = "none"
    /\ \A g \in Hands : hand[g].on # o
    /\ company' = [company EXCEPT ![o] = "vendor"]
    /\ recast' = recast \cup {o}
    /\ UNCHANGED <<settings, manager, hand>>

Dismiss(u) ==
    /\ manager' = manager \ {u}
    /\ UNCHANGED <<company, settings, hand, recast>>

OccupierNext ==
    \/ \E h \in Hands :
           \/ \E u \in Managers, o \in Occupiers, type \in Types :
                  \/ CheckCreate(h, u, o, type)
                  \/ CheckEdit(h, u, o, "patch", type, {})
           \/ \E u \in Managers, o \in Occupiers, given \in SUBSET Fields :
                  CheckEdit(h, u, o, "settings", "none", given)
           \/ CreateTenant(h) \/ PatchProfile(h) \/ UpsertSettings(h)
    \/ \E o \in Occupiers : SeedVendor(o)
    \/ \E u \in Managers : Dismiss(u)
-----------------------------------------------------------------------------
vars == <<leasingVars, occupierVars>>

Init == LeasingInit /\ OccupierInit

\* The parts share no rows; a step is one of either.
Next ==
    \/ LeasingNext /\ UNCHANGED occupierVars
    \/ OccupierNext /\ UNCHANGED leasingVars

Spec == Init /\ [][Next]_vars
-----------------------------------------------------------------------------
LeasingTypeOK ==
    /\ allocations \subseteq Contracts \X Targets
    /\ leased \subseteq Spots
    /\ admin \in [Companies -> People \cup {"none"}]
    /\ grant \in [People -> Companies \cup {"none"}]
    /\ leaseCall \in [Hands -> [op : {"none", "flag", "recount", "clear", "link", "revoke", "grant"},
                                x : Spots \cup Companies \cup {"none"},
                                who : People \cup {"none"}, before : People \cup {"none"},
                                alone : BOOLEAN]]
    /\ leaseCut \subseteq Spots \cup Companies

AtWork(x) == \E h \in Hands : leaseCall[h].x = x

\* leases.service.ts:118-138: isLeased says whether an allocation points at the spot, unless
\* a call on it is in progress, or the spot was entered as leased (building-core.service.ts:764,
\* :801), a call on it was cut short or two overlapped, and no later call has written the flag
\* alone.
FlagMatchesAllocations ==
    \A s \in Spots \ leaseCut :
        AtWork(s) \/ (s \in leased <=> \E k \in Contracts : <<k, s>> \in allocations)

\* tenant-companies.service.ts:108-119: a company-admin grant belongs to whoever is the
\* administrator of that company now, unless a call on the company is in progress, was cut
\* short or overlapped another: the next call revokes its own predecessor only.
GrantIsTheAdmins ==
    \A u \in People :
        \/ grant[u] \in leaseCut \cup {"none"} \/ AtWork(grant[u])
        \/ admin[grant[u]] = u

\* The rows that a lease and an administration write in two places say the same in both.
LeasesAgree == FlagMatchesAllocations /\ GrantIsTheAdmins

\* listPortfolio, listForBuilding and getOne ask for a type that is not vendor, which a
\* missing one is not.
Listed == {o \in Occupiers : company[o] \notin {"none", "vendor", "untyped"}}

OccupierTypeOK ==
    /\ \A o \in Occupiers : company[o] \in Types \cup {"none"}
    /\ manager \subseteq Managers
    /\ \A h \in Hands : hand[h].kind \in {"none", "create", "patch", "settings"}

\* occupants.service.ts:43-411: a company entered as an occupier is on the lists unless its
\* type was left out or was a padded "vendor", and until an edit of its profile takes the
\* type or makes it vendor, which nothing refuses; and settings are of a company there is,
\* and stay when the company leaves the lists.
OccupiersAreListed ==
    /\ \A o \in Occupiers : company[o] # "none" => o \in Listed \/ o \in recast
    /\ Listed \cap recast = {}
    /\ \A o \in Occupiers : settings[o].there \/ settings[o].given # {} => company[o] # "none"

TypeOK == LeasingTypeOK /\ OccupierTypeOK
=============================================================================
