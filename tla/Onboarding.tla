----------------------------- MODULE Onboarding -----------------------------
(***************************************************************************)
(* Workspaces, organizations and buildings of a new customer               *)
(* (OnboardingService).  bootstrapFirstBuilding makes all three in one     *)
(* call, statement by statement; only a building and its rows are written  *)
(* in a transaction.                                                       *)
(***************************************************************************)
EXTENDS Naturals, FiniteSets

CONSTANTS
    Newcomers,    \* users
    Tenants,      \* ids of workspaces
    Slugs,        \* of workspaces and of organizations
    Doors, Levels,   \* entrances and floors of a building, by name and number
    Openings      \* calls; each opening is one call

VARIABLES
    tenant,       \* tenant[t]: slug ("free": no such row), owners, whether bootstrap made it
    orgs,         \* organizations: workspace, slug, type, whether it has an org_admin, by
    plot,         \* plot[t]: the building of workspace t and its rows
    opening,      \* opening[o]: kind, user, step, workspace and slug of a call
    crossed,      \* history: users two of whose bootstraps overlapped
    maimed        \* history: workspaces a call stopped half-way in

vars == <<tenant, orgs, plot, opening, crossed, maimed>>

NotOpened == [kind |-> "none", user |-> "none", at |-> "idle", tenant |-> "none", slug |-> "none"]
NoPlot == [built |-> FALSE, doors |-> {}, floors |-> [n \in {} |-> "none"], unit |-> "none",
           relaid |-> FALSE]
Exists(t) == tenant[t].slug # "free"
SlugTaken(slug) == \E t \in Tenants : tenant[t].slug = slug
Move(o, step) == opening' = [opening EXCEPT ![o].at = step]

Init ==
    /\ tenant = [t \in Tenants |-> [slug |-> "free", owners |-> {}, boot |-> FALSE]]
    /\ orgs = {}
    /\ plot = [t \in Tenants |-> NoPlot]
    /\ opening = [o \in Openings |-> NotOpened]
    /\ crossed = {} /\ maimed = {}

Open(o, kind, u, step, t, slug) ==
    /\ opening[o] = NotOpened
    /\ opening' = [opening EXCEPT ![o] =
           [kind |-> kind, user |-> u, at |-> step, tenant |-> t, slug |-> slug]]

\* createWorkspace: the slug is looked up, then the row is created.
OpenWorkspace(o, u, slug) ==
    /\ ~SlugTaken(slug)
    /\ Open(o, "workspace", u, "tenant", "none", slug)
    /\ UNCHANGED <<tenant, orgs, plot, crossed, maimed>>

\* createOrganization: the caller administers the workspace and the slug is free in it.
OpenOrganization(o, u, t, slug) ==
    /\ u \in tenant[t].owners
    /\ \A g \in orgs : g.tenant # t \/ g.slug # slug
    /\ Open(o, "organization", u, "org", t, slug)
    /\ UNCHANGED <<tenant, orgs, plot, crossed, maimed>>

\* createBuilding: the checks
OpenBuilding(o, u, t) ==
    /\ u \in tenant[t].owners
    /\ ~plot[t].built
    /\ Open(o, "building", u, "build", t, "none")
    /\ UNCHANGED <<tenant, orgs, plot, crossed, maimed>>

OwnerOrgs(t) == {g \in orgs : g.tenant = t /\ g.type = "owner"}

\* mutant: the caller's workspaces are not looked for
OwnedBy(u) == {}

\* The workspaces of the caller's membership as owner
Owned(u) == {t \in Tenants : u \in tenant[t].owners}

\* bootstrapFirstBuilding takes any workspace the caller owns, and the owner
\* organization it finds there, before it makes new ones; uniqueSlug finds a free slug.
Bootstrap(o, u, slug) ==
    /\ \/ /\ Owned(u) = {}
          /\ ~SlugTaken(slug)
          /\ Open(o, "bootstrap", u, "tenant", "none", slug)
       \/ \E t \in Owned(u) :
              Open(o, IF OwnerOrgs(t) = {} THEN "retry" ELSE "bootstrap", u,
                   IF OwnerOrgs(t) = {} THEN "org" ELSE "check", t, slug)
    /\ crossed' = IF \E p \in Openings : opening[p].user = u /\ opening[p].kind \in {"bootstrap", "retry"}
                                             /\ opening[p].at # "done"
                  THEN crossed \cup {u} ELSE crossed
    /\ UNCHANGED <<tenant, orgs, plot, maimed>>

\* The slug of a workspace is unique.
InsertTenant(o, t) ==
    /\ opening[o].at = "tenant"
    /\ ~Exists(t)
    /\ ~SlugTaken(opening[o].slug)
    /\ tenant' = [tenant EXCEPT ![t] =
           [slug |-> opening[o].slug, owners |-> {}, boot |-> opening[o].kind = "bootstrap"]]
    /\ opening' = [opening EXCEPT ![o].at = "owner", ![o].tenant = t]
    /\ UNCHANGED <<orgs, plot, crossed, maimed>>

InsertOwner(o) ==
    /\ opening[o].at = "owner"
    /\ tenant' = [tenant EXCEPT ![opening[o].tenant].owners = @ \cup {opening[o].user}]
    /\ Move(o, IF opening[o].kind = "workspace" THEN "done" ELSE "org")
    /\ UNCHANGED <<orgs, plot, crossed, maimed>>

\* The slug of an organization is unique in its workspace.  The branch of bootstrap that
\* found a workspace writes no membership.
InsertOrganization(o, type) ==
    LET t == opening[o].tenant IN
    /\ opening[o].at = "org"
    /\ opening[o].kind \in {"bootstrap", "retry"} => type = "owner"
    /\ \A g \in orgs : g.tenant # t \/ g.slug # opening[o].slug
    /\ orgs' = orgs \cup {[tenant |-> t, slug |-> opening[o].slug, type |-> type,
                           admin |-> FALSE, by |-> opening[o].kind]}
    /\ Move(o, IF opening[o].kind = "retry" THEN "check" ELSE "member")
    /\ UNCHANGED <<tenant, plot, crossed, maimed>>

InsertOrgAdmin(o) ==
    /\ opening[o].at = "member"
    /\ orgs' = {IF g.tenant = opening[o].tenant /\ g.slug = opening[o].slug
                THEN [g EXCEPT !.admin = TRUE] ELSE g : g \in orgs}
    /\ Move(o, IF opening[o].kind = "bootstrap" THEN "check" ELSE "done")
    /\ UNCHANGED <<tenant, plot, crossed, maimed>>

\* The end of bootstrap is a call of createBuilding: refused when the slug is taken.
CheckBuilding(o) ==
    /\ opening[o].at = "check"
    /\ Move(o, IF plot[opening[o].tenant].built THEN "done" ELSE "build")
    /\ UNCHANGED <<tenant, orgs, plot, crossed, maimed>>

\* One transaction: the building, its entrances, floors, units, lifts, settings, mandate
\* and manager.  A second building with the slug fails on the index.  The plan items
\* are seeded afterwards and a failure to do so is swallowed (PpmProgramme).
InsertBuilding(o, doors, floors, unit) ==
    LET t == opening[o].tenant IN
    /\ opening[o].at = "build"
    /\ plot' = IF plot[t].built THEN plot
               ELSE [plot EXCEPT ![t] = [built |-> TRUE, doors |-> doors, floors |-> floors,
                                         unit |-> unit, relaid |-> FALSE]]
    /\ Move(o, "done")
    /\ UNCHANGED <<tenant, orgs, crossed, maimed>>

\* updateBuilding is a transaction that starts by writing the building's row.  Entrances
\* are matched by name, floors that lose theirs keep none; floors are deleted and
\* created anew, and units whose floor is deleted keep none.  Settings and
\* lifts are left out.
UpdateBuilding(t, doors, floors, relay) ==
    /\ plot[t].built
    /\ plot' = [plot EXCEPT ![t] =
           [built |-> TRUE,
            doors |-> doors,
            floors |-> IF relay THEN floors
                       ELSE [n \in DOMAIN @.floors |->
                                IF @.floors[n] \in doors THEN @.floors[n] ELSE "none"],
            unit |-> IF relay THEN "none" ELSE @.unit,
            relaid |-> @.relaid \/ relay]]
    /\ UNCHANGED <<tenant, orgs, opening, crossed, maimed>>

\* A statement throws: by a fault, or on a slug that was free when it was looked up.
Throw(o) ==
    /\ opening[o].at \notin {"idle", "done"}
    /\ maimed' = maimed \cup ({opening[o].tenant} \cap Tenants)
    /\ Move(o, "done")
    /\ UNCHANGED <<tenant, orgs, plot, crossed>>

\* Where the floors of a building are: an entrance of the building or none.
FloorPlans(doors) == UNION {[ns -> doors \cup {"none"}] : ns \in SUBSET Levels}

Next ==
    \/ \E o \in Openings :
           \/ \E u \in Newcomers, slug \in Slugs :
                  \/ OpenWorkspace(o, u, slug) \/ Bootstrap(o, u, slug)
                  \/ \E t \in Tenants : OpenOrganization(o, u, t, slug)
           \/ \E u \in Newcomers, t \in Tenants : OpenBuilding(o, u, t)
           \/ \E t \in Tenants : InsertTenant(o, t)
           \/ InsertOwner(o) \/ InsertOrgAdmin(o) \/ CheckBuilding(o) \/ Throw(o)
           \/ \E type \in {"owner", "vendor"} : InsertOrganization(o, type)
           \/ \E doors \in SUBSET Doors : \E floors \in FloorPlans(doors) :
                  \E unit \in DOMAIN floors \cup {"none"} : InsertBuilding(o, doors, floors, unit)
    \/ \E t \in Tenants, doors \in SUBSET Doors, relay \in BOOLEAN :
           \E floors \in FloorPlans(doors) :
               UpdateBuilding(t, doors, floors, relay)

Spec == Init /\ [][Next]_vars
-----------------------------------------------------------------------------
TypeOK ==
    /\ \A t \in Tenants :
           /\ tenant[t].slug \in Slugs \cup {"free"}
           /\ tenant[t].owners \subseteq Newcomers
    /\ \A g \in orgs : g.tenant \in Tenants /\ g.slug \in Slugs
    /\ maimed \subseteq Tenants /\ crossed \subseteq Newcomers

Busy(t) == \E o \in Openings : opening[o].tenant = t /\ opening[o].at # "done"

\* onboarding.service.ts:160-388 and 646-720: a floor's entrance is one of the building's,
\* and a unit's floor one of its floors; once floors are given again it has none.
RowsHang ==
    \A t \in Tenants :
        /\ \A n \in DOMAIN plot[t].floors : plot[t].floors[n] \in plot[t].doors \cup {"none"}
        /\ plot[t].unit \in DOMAIN plot[t].floors \cup {"none"}
        /\ plot[t].relaid => plot[t].unit = "none"

\* onboarding.service.ts:35-140 and 418-535: a workspace that no call works on and none
\* stopped in has an owner, and its organizations have an administrator, except one that
\* bootstrap made in a workspace it found; a user bootstraps one workspace, in which
\* there is one owner organization by bootstrap, unless bootstraps overlapped; a building
\* stands in a workspace with an owner, and its rows hang together.
Provisioned ==
    /\ \A t \in Tenants : Exists(t) /\ ~Busy(t) /\ t \notin maimed =>
           /\ tenant[t].owners # {}
           /\ \A g \in orgs : g.tenant = t => g.admin \/ g.by = "retry"
    /\ \A u \in Newcomers \ crossed :
           /\ Cardinality({t \in Tenants : u \in tenant[t].owners /\ tenant[t].boot}) <= 1
           /\ \A t \in Tenants : u \in tenant[t].owners => Cardinality({g \in OwnerOrgs(t) : g.by \in {"bootstrap", "retry"}}) <= 1
    /\ \A t \in Tenants : plot[t].built => tenant[t].owners # {}
    /\ RowsHang
=============================================================================
