------------------------- MODULE BuildingStructure -------------------------
(***************************************************************************)
(* The rows that describe a building (BuildingCoreService,                 *)
(* BuildingSpacesService): floors, units and their groups, companies,      *)
(* contracts, equipment, spaces.  Each handler looks up the rows its body  *)
(* names and then writes, and other calls may come between: what a lookup  *)
(* found may be long ago, so a step here is the write, of rows that are in *)
(* the building or were (Found).  A foreign key must name a row that is    *)
(* there when it is written and is cleared, or its row deleted, with the   *)
(* row it names; a plain string stays.  Only some references are looked    *)
(* up in the building at all (Checked).  Codes, names and measures are      *)
(* left out, and with them the updates that write nothing else; a request  *)
(* may always choose a code that is free.  Left out as well: the parent    *)
(* and the location of an asset (AssetsService), and a patch of a unit     *)
(* that gives its own id or the rows that name it.                         *)
(***************************************************************************)
EXTENDS Integers, FiniteSets

CONSTANTS
    Sites,      \* buildings, by id; all there at the start
    Items       \* row ids, numbers

VARIABLES
    standing,   \* buildings not destroyed yet
    kind,       \* kind[x]: the table row x was inserted into; "none": not yet
    home,       \* home[x]: its buildingId
    refs,       \* refs[x]: the rows its columns name
    removed,    \* rows that were deleted; no other row takes their id
    movedFrom   \* movedFrom[x]: where unit x was when its columns were patched

vars == <<standing, kind, home, refs, removed, movedFrom>>

Kinds == {"floor", "unit", "group", "transport", "system", "company", "occupancy", "contract",
          "location", "spot", "asset", "relation", "profile", "point", "space", "element"}

\* Tables whose buildingId is a foreign key to buildings
Bound == {"floor", "unit", "group", "system", "company", "occupancy", "contract",
          "asset", "transport"}

\* Tables whose columns that name other rows of these tables are foreign keys
Keyed == {"unit", "group", "system", "occupancy", "contract"}

There == {x \in Items : kind[x] # "none"} \ removed
Of(k, b) == {x \in There : kind[x] = k /\ home[x] = b}

\* What a lookup of a row of table k in building b has found, now or before.
Found(k, b) == {x \in Items : kind[x] = k /\ b \in {home[x]} \cup movedFrom[x]}

Init ==
    /\ standing = Sites
    /\ kind = [x \in Items |-> "none"]
    /\ home = [x \in Items |-> "none"]
    /\ refs = [x \in Items |-> {}]
    /\ removed = {}
    /\ movedFrom = [x \in Items |-> {}]

\* One insert, for the building that resolveBuildingId found
Insert(k, b, x, named) ==
    /\ kind[x] = "none"
    /\ k \in Bound => b \in standing
    /\ k \in Keyed => named \subseteq There
    /\ kind' = [kind EXCEPT ![x] = k]
    /\ home' = [home EXCEPT ![x] = b]
    /\ refs' = [refs EXCEPT ![x] = named]
    /\ UNCHANGED <<standing, removed, movedFrom>>
-----------------------------------------------------------------------------
(* Floors, units, groups of units *)

CreateFloor(b, x) == Insert("floor", b, x, {})

CreateUnit(b, x) == \E f \in Found("floor", b) : Insert("unit", b, x, {f})

\* The body is written as it came: another floor, group or building needs to be
\* there, and nobody looks where.
UpdateUnit(b, u) ==
    /\ u \in Found("unit", b) \ removed
    /\ \E b2 \in standing, f \in There, gs \in SUBSET There :
           /\ kind[f] = "floor" /\ (\A g \in gs : kind[g] = "group") /\ Cardinality(gs) <= 1
           /\ home' = [home EXCEPT ![u] = b2]
           /\ refs' = [refs EXCEPT ![u] = {f} \cup gs]
    /\ movedFrom' = [movedFrom EXCEPT ![u] = @ \cup {home[u]}]
    /\ UNCHANGED <<standing, kind, removed>>

\* refs with group g in place of any group for the units of us
Joined(us, g) == [u \in us |-> {y \in refs[u] : kind[y] # "group"} \cup {g}]

\* The units are updated where they are in the building now.  That they were in no group
\* was checked before, and may not hold any more.
CreateUnitGroup(b, x) ==
    \E us \in SUBSET Of("unit", b), named \in SUBSET (Found("company", b) \ removed) :
        /\ Cardinality(named) <= 1
        /\ b \in standing
        /\ kind[x] = "none"
        /\ kind' = [kind EXCEPT ![x] = "group"]
        /\ home' = [home EXCEPT ![x] = b]
        /\ refs' = [y \in Items |-> IF y = x THEN named
                                    ELSE IF y \in us THEN Joined(us, x)[y] ELSE refs[y]]
        /\ UNCHANGED <<standing, removed, movedFrom>>

UpdateUnitGroup(b, g) ==
    /\ g \in Of("group", b)
    /\ \E add \in SUBSET Of("unit", b), drop \in SUBSET Of("unit", b),
          named \in SUBSET (Found("company", b) \ removed) :
           /\ Cardinality(named) <= 1
           /\ refs' = [y \in Items |->
                  IF y = g THEN named
                  ELSE IF y \in drop /\ (y \in add \/ g \in refs[y])
                       THEN {z \in refs[y] : kind[z] # "group"}
                  ELSE IF y \in add THEN Joined(add, g)[y] ELSE refs[y]]
    /\ UNCHANGED <<standing, kind, home, removed, movedFrom>>

\* Row x goes; a unit that was in a group that goes is in none.
Remove(x) ==
    /\ removed' = removed \cup {x}
    /\ refs' = [y \in Items |-> IF y = x THEN {} ELSE refs[y] \ {x}]
    /\ UNCHANGED <<standing, kind, home, movedFrom>>

DeleteUnitGroup(b, g) == g \in Of("group", b) /\ Remove(g)
-----------------------------------------------------------------------------
(* Lifts, systems, companies, contracts *)

\* The floors it serves are compared with the building's and kept as numbers.
CreateTransport(b, x) == Insert("transport", b, x, {})

CreateSystem(b, x) ==
    \E named \in SUBSET Found("floor", b) : Cardinality(named) <= 1 /\ Insert("system", b, x, named)

\* The new floor is not looked up; the foreign key only asks that it exists.
UpdateSystem(b, y) ==
    /\ y \in Of("system", b)
    /\ \E named \in SUBSET {f \in There : kind[f] = "floor"} :
           Cardinality(named) <= 1 /\ refs' = [refs EXCEPT ![y] = named]
    /\ UNCHANGED <<standing, kind, home, removed, movedFrom>>

CreateOccupant(b, x) == Insert("company", b, x, {})

\* mutant: the company is looked up by id alone
AssignOccupancyAnyCompany(b, x) ==
    \E u \in Found("unit", b), c \in {y \in Items : kind[y] = "company"} :
        Insert("occupancy", b, x, {u, c})

AssignOccupancy(b, x) ==
    \E u \in Found("unit", b), c \in Found("company", b) :
        Insert("occupancy", b, x, {u, c})

CreateContract(b, x) ==
    \E c \in Found("company", b), us \in SUBSET Found("unit", b) :
        /\ Cardinality(us) <= 1
        /\ Insert("contract", b, x, {c} \cup us)
-----------------------------------------------------------------------------
(* Locations, parking, storage *)

CreateLocation(b, x) == \E f \in Found("floor", b) : Insert("location", b, x, {f})

\* The floor of a parking spot, a storage unit or a space is a string nobody looks up.
AnyFloor == {{}} \cup {{f} : f \in {y \in Items : kind[y] = "floor"}}
CreateParking(b, x) == \E named \in AnyFloor : Insert("spot", b, x, named)
CreateStorage(b, x) == \E named \in AnyFloor : Insert("spot", b, x, named)
-----------------------------------------------------------------------------
(* Equipment *)

Assets == {y \in Items : kind[y] = "asset"}

\* AssetsService.create, for the building of the path
CreateAsset(b, x) == Insert("asset", b, x, {})

\* Parent and child differ; neither is looked up.
CreateEquipmentRelation(b, x) ==
    \E p, q \in Assets : p # q /\ Insert("relation", b, x, {p, q})

\* One profile for each asset: a second call moves it to the building of its path.
UpsertElevatorProfile(b, x) ==
    \E a \in Assets :
        LET old == {y \in Items : kind[y] = "profile" /\ a \in refs[y]} IN
            IF old = {}
            THEN Insert("profile", b, x, {a})
            ELSE /\ home' = [y \in Items |-> IF y \in old THEN b ELSE home[y]]
                 /\ UNCHANGED <<standing, kind, refs, removed, movedFrom>>

CreateSensorPoint(b, x) == \E a \in Found("asset", b) : Insert("point", b, x, {a})
CreateAlarmSource(b, x) == \E a \in Found("asset", b) : Insert("point", b, x, {a})
-----------------------------------------------------------------------------
(* BuildingSpacesService *)

CreateSpace(b, x) == \E named \in AnyFloor : Insert("space", b, x, named)

UpdateSpace(b, y) ==
    /\ y \in Of("space", b)
    /\ \E named \in AnyFloor : refs' = [refs EXCEPT ![y] = named]
    /\ UNCHANGED <<standing, kind, home, removed, movedFrom>>

CreateElement(b, x) == Insert("element", b, x, {})

DeleteSpace(b, y) == y \in Of("space", b) /\ Remove(y)
DeleteElement(b, y) == y \in Of("element", b) /\ Remove(y)
-----------------------------------------------------------------------------
(* The destruction of a building *)

\* What goes with building b: its rows of the bound tables, the units on its floors and
\* the contracts of its companies wherever they are, and the occupancies of any of these.
UnitsOn(own) == {x \in There : kind[x] = "unit" /\ \E f \in refs[x] \cap own : kind[f] = "floor"}
Going(b) ==
    LET own == {x \in There : kind[x] \in Bound /\ home[x] = b}
        units == own \cup UnitsOn(own) IN
            units \cup {x \in There : \/ kind[x] = "occupancy" /\ refs[x] \cap units # {}
                                      \/ kind[x] = "contract"
                                         /\ \E c \in refs[x] \cap own : kind[c] = "company"}

\* The other tables keep the id of a building that is gone, and in their strings the
\* ids of its rows.
DeleteBuilding(b) ==
    /\ b \in standing
    /\ standing' = standing \ {b}
    /\ removed' = removed \cup Going(b)
    /\ refs' = [x \in Items |-> IF x \in Going(b) THEN {}
                                ELSE IF kind[x] \in Keyed THEN refs[x] \ Going(b) ELSE refs[x]]
    /\ UNCHANGED <<kind, home, movedFrom>>

\* The next row to be made
Fresh == {x \in Items : kind[x] = "none" /\ \A y \in Items : kind[y] = "none" => x <= y}

Next ==
    \/ \E b \in Sites, x \in Fresh :
           \/ CreateFloor(b, x) \/ CreateUnit(b, x) \/ CreateUnitGroup(b, x)
           \/ CreateTransport(b, x) \/ CreateSystem(b, x) \/ CreateOccupant(b, x)
           \/ AssignOccupancy(b, x) \/ CreateContract(b, x) \/ CreateLocation(b, x)
           \/ CreateParking(b, x) \/ CreateStorage(b, x) \/ CreateAsset(b, x)
           \/ CreateEquipmentRelation(b, x) \/ UpsertElevatorProfile(b, x)
           \/ CreateSensorPoint(b, x) \/ CreateAlarmSource(b, x)
           \/ CreateSpace(b, x) \/ CreateElement(b, x)
    \/ \E b \in Sites, y \in Items :
           \/ UpdateUnit(b, y) \/ UpdateUnitGroup(b, y) \/ DeleteUnitGroup(b, y)
           \/ UpdateSystem(b, y) \/ UpdateSpace(b, y)
           \/ DeleteSpace(b, y) \/ DeleteElement(b, y)
    \/ \E b \in Sites : DeleteBuilding(b)

Spec == Init /\ [][Next]_vars
-----------------------------------------------------------------------------
TypeOK ==
    /\ standing \subseteq Sites
    /\ kind \in [Items -> Kinds \cup {"none"}]
    /\ home \in [Items -> Sites \cup {"none"}]
    /\ refs \in [Items -> SUBSET Items]
    /\ removed \subseteq Items
    /\ movedFrom \in [Items -> SUBSET (Sites \cup {"none"})]

\* Kinds whose every reference is looked up in the building of the path when the row is
\* inserted; a unit's can be patched afterwards.
Checked == {"unit", "group", "occupancy", "contract", "location", "point"}

\* building-core.service.ts: a row of a checked table names rows that were made in its own
\* building, through every regrouping and destruction and however old a lookup was, unless it
\* is a unit whose columns were patched (updateUnit) or names one; what a foreign key names is
\* there, and a row of a bound table is in a building that stands.
StaysInBuilding ==
    \A x \in There :
        /\ kind[x] \in Checked /\ movedFrom[x] = {} =>
               \A y \in refs[x] : movedFrom[y] = {} => kind[y] # "none" /\ home[y] = home[x]
        /\ kind[x] \in Keyed => refs[x] \subseteq There
        /\ kind[x] \in Bound => home[x] \in standing
=============================================================================
