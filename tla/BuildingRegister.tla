-------------------------- MODULE BuildingRegister --------------------------
(***************************************************************************)
(* What is registered in a building: its assets, and the points and places *)
(* a scanned code leads to.                                                *)
(***************************************************************************)
EXTENDS Integers, FiniteSets

CONSTANTS
    Equipment,   \* asset rows
    AssetTypes,
    Bodies,      \* what create is asked: type, family, level ("" when left out), serial, covered, place
    Registrars,  \* calls that can be in progress
    MaxRowsLeft, \* bound of the model: rows of an import
    Sites,       \* buildings of the workspace
    Spaces,      \* locations and units
    Lettable,    \* those of them that are units: the others are never edited
    ZoneCodes,   \* codes of spaces and of zones
    SpaceSite,   \* SpaceSite[s]: building a space is made in
    SpaceCode,   \* SpaceCode[s]: code it is made with; a location and a unit may have one code
    Points,      \* cleaning points; their codes are random and never collide
    Labels,      \* codes of places as they are typed
    Upper,       \* Upper[l]: the code in capitals
    Printers     \* calls that can be in progress

VARIABLES
    assetType, \* assetType[t]: does it exist, its family, are its units serialized
    asset,     \* asset[a]: the row
    announced, \* assets whose asset.created is in the outbox
    creating,  \* creating[c]: the row call c is about to insert or to announce, what that row did
               \* not have to satisfy, and how many rows the import still has
    lax,       \* history: per asset, what it did not have to satisfy
    standing,  \* spaces that still exist
    located,   \* located[s]: the building and the code of a space
    zone,      \* zone[b][k]: space for which the zone with code k of building b was made
    point,     \* point[p]: its building, the code of its zone, the space asked for
    place,     \* place[b][l]: space of the QR location with code l of building b
    printing,  \* printing[c]: the point call c makes, and how far it is
    shared,    \* history: spaces that were given the zone of another
    relet      \* history: units whose code or building was edited

-----------------------------------------------------------------------------
(***************************************************************************)
(* The register of a building's assets (AssetsService): one asset or a     *)
(* list of them is created, each row committed before its event is         *)
(* published; rows are edited, archived and put on the maintenance plan;   *)
(* their types are upserted.                                               *)
(***************************************************************************)

assetVars == <<assetType, asset, announced, creating, lax>>

NoRow == [type |-> "none", family |-> "none", level |-> "none", serial |-> FALSE,
          covered |-> FALSE, place |-> "none", life |-> "none", active |-> FALSE]
Quiet(left) == [op |-> "idle", id |-> "none", row |-> NoRow, waived |-> {}, left |-> left]
Critical == {"Fire", "Lift"}   \* families that must state their risk and their department

AssetInit ==
    /\ assetType = [t \in AssetTypes |-> [known |-> FALSE, family |-> "none", serialized |-> FALSE]]
    /\ asset = [a \in Equipment |-> NoRow]
    /\ announced = {}
    /\ creating = [c \in Registrars |-> Quiet(0)]
    /\ lax = [a \in Equipment |-> {}]

\* The upsert of a type; the assets of the type are not looked at, nor are the calls that
\* have read it.
CreateAssetType(t, family, serialized) ==
    /\ assetType' = [assetType EXCEPT ![t] = [known |-> TRUE, family |-> family, serialized |-> serialized]]
    /\ lax' = [a \in Equipment |-> IF asset[a].type = t THEN lax[a] \cup {"retyped"} ELSE lax[a]]
    /\ creating' = [c \in Registrars |->
           IF creating[c].row.type = t THEN [creating[c] EXCEPT !.waived = @ \cup {"retyped"}] ELSE creating[c]]
    /\ UNCHANGED <<asset, announced>>

\* mutant: the risk is not asked of a lift or of fire equipment
ValidWithoutRisk(body) == TRUE

\* validateCreateBody looks at the family the caller gave, before that of the type
\* takes its place.
ValidCreateBody(body) == body.family \in Critical => body.covered

\* The serial number is asked of a level that was given as a unit.
FitsType(body) ==
    body.type # "none" =>
        /\ assetType[body.type].known
        /\ ~(assetType[body.type].serialized /\ ~body.serial /\ body.level = "unit")

Family(body) == IF body.family = "none" /\ body.type # "none" THEN assetType[body.type].family
                ELSE body.family

\* A location must be of this building.
Accepted(body) == ValidCreateBody(body) /\ FitsType(body) /\ body.place # "elsewhere"

RowOf(body) ==
    [type |-> body.type, family |-> Family(body), level |-> IF body.level = "" THEN "unit" ELSE body.level,
     serial |-> body.serial, covered |-> body.covered, place |-> body.place,
     life |-> "active", active |-> TRUE]
Waived(body) ==
    (IF body.family = "none" THEN {"inherited"} ELSE {}) \cup (IF body.level = "" THEN {"defaulted"} ELSE {})
Fewer(left) == IF left > 0 THEN left - 1 ELSE 0

\* create: what is asked is checked, against the type and the location as they are read, ...
ReadToCreate(c, body) ==
    /\ creating[c].op = "idle"
    /\ Accepted(body)
    /\ creating' = [creating EXCEPT ![c] = [op |-> "insert", id |-> "none", row |-> RowOf(body),
                                           waived |-> Waived(body), left |-> Fewer(creating[c].left)]]
    /\ UNCHANGED <<assetType, asset, announced, lax>>

\* ... and the row is written, whatever has become of them.
InsertAsset(c, a) ==
    /\ creating[c].op = "insert"
    /\ asset[a] = NoRow
    /\ asset' = [asset EXCEPT ![a] = creating[c].row]
    /\ lax' = [lax EXCEPT ![a] = creating[c].waived]
    /\ creating' = [creating EXCEPT ![c] = [Quiet(@.left) EXCEPT !.op = "announce", !.id = a]]
    /\ UNCHANGED <<assetType, announced>>

\* The event is published after the row has been committed.
PublishCreated(c) ==
    /\ creating[c].op = "announce"
    /\ announced' = announced \cup {creating[c].id}
    /\ creating' = [creating EXCEPT ![c] = Quiet(@.left)]
    /\ UNCHANGED <<assetType, asset, lax>>

\* A statement fails, of the row, of the audit entry or of the event: an import counts an
\* error and goes on, a process that stops does not.
CutCreate(c) ==
    /\ creating[c].op # "idle"
    /\ lax' = [a \in Equipment |-> IF creating[c].id = a THEN lax[a] \cup {"unannounced"} ELSE lax[a]]
    /\ \E left \in {0, creating[c].left} : creating' = [creating EXCEPT ![c] = Quiet(left)]
    /\ UNCHANGED <<assetType, asset, announced>>

BulkImport(c, rows) ==
    /\ creating[c] = Quiet(0)
    /\ creating' = [creating EXCEPT ![c] = Quiet(rows)]
    /\ UNCHANGED <<assetType, asset, announced, lax>>

\* A row create refuses is counted and passed over.
PassOver(c, body) ==
    /\ creating[c].op = "idle" /\ creating[c].left > 0
    /\ ~Accepted(body)
    /\ creating' = [creating EXCEPT ![c] = Quiet(@.left - 1)]
    /\ UNCHANGED <<assetType, asset, announced, lax>>

Editable == {"type", "family", "covered", "place", "serial", "level", "life"}

\* update checks that a status or a level is one of the list, and nothing create checks; the
\* type it is given may be any, the family stays.
Update(a, change, t) ==
    /\ asset[a] # NoRow
    /\ asset' = [asset EXCEPT ![a] =
           CASE change = "type" -> [@ EXCEPT !.type = t]
             [] change = "family" -> [@ EXCEPT !.family = "Fire"]
             [] change = "place" -> [@ EXCEPT !.place = "elsewhere"]
             [] change = "serial" -> [@ EXCEPT !.serial = FALSE]
             [] change = "level" -> [@ EXCEPT !.level = "unit"]
             [] change = "covered" -> [@ EXCEPT !.covered = FALSE]
             [] change = "life" -> [@ EXCEPT !.life = "active"]]
    /\ lax' = [lax EXCEPT ![a] = @ \cup {change}]
    /\ UNCHANGED <<assetType, announced, creating>>

\* softDelete takes the asset off the lists; its links and its plan items stay.
SoftDelete(a) ==
    /\ asset[a] # NoRow
    /\ asset' = [asset EXCEPT ![a] = [@ EXCEPT !.active = FALSE, !.life = "disposed"]]
    /\ lax' = [lax EXCEPT ![a] = @ \ {"life"}]
    /\ UNCHANGED <<assetType, announced, creating>>

AssetNext ==
    \/ \E t \in AssetTypes, family \in {"Fire", "HVAC"}, serialized \in BOOLEAN :
           CreateAssetType(t, family, serialized)
    \/ \E a \in Equipment :
           \/ \E change \in Editable, t \in AssetTypes : Update(a, change, t)
           \/ SoftDelete(a)
    \/ \E c \in Registrars :
           \/ \E body \in Bodies : ReadToCreate(c, body) \/ PassOver(c, body)
           \/ \E a \in Equipment : InsertAsset(c, a)
           \/ PublishCreated(c) \/ CutCreate(c)
           \/ \E rows \in 1 .. MaxRowsLeft : BulkImport(c, rows)
-----------------------------------------------------------------------------
(***************************************************************************)
(* What a scanned code leads to: cleaning points, made with the zone they  *)
(* need (CleaningQrService), and the codes of places (QrLocationsService), *)
(* resolved inside a building or by the scanner of the whole workspace     *)
(* (ScannerService).  A point for a zone itself has no space: it is left   *)
(* out.                                                                    *)
(***************************************************************************)

scanVars == <<standing, located, zone, point, place, printing, shared, relet>>

Blank == [site |-> "none", code |-> "none", space |-> "none"]
Off == [point |-> "none", space |-> "none", site |-> "none", code |-> "none", step |-> "idle"]

ScanInit ==
    /\ standing = Spaces
    /\ located = [s \in Spaces |-> [site |-> SpaceSite[s], code |-> SpaceCode[s]]]
    /\ zone = [b \in Sites |-> [k \in ZoneCodes |-> "none"]]
    /\ point = [p \in Points |-> Blank]
    /\ place = [b \in Sites |-> [l \in Labels |-> "none"]]
    /\ printing = [c \in Printers |-> Off]
    /\ shared = {}
    /\ relet = {}

\* ensureCleaningZoneFor: the space is read, and must be of the building; a zone with its
\* code is taken whatever it was made for.
FindZone(c, p, s) ==
    LET b == located[s].site
        k == located[s].code
        found == zone[b][k]
    IN /\ printing[c] = Off
       /\ point[p] = Blank /\ \A x \in Printers : printing[x].point # p
       /\ s \in standing
       /\ printing' = [printing EXCEPT ![c] =
              [point |-> p, space |-> s, site |-> b, code |-> k,
               step |-> IF found = "none" THEN "zone" ELSE "point"]]
       /\ shared' = IF found \in {"none", s} THEN shared ELSE shared \cup {s}
       /\ UNCHANGED <<standing, located, zone, point, place, relet>>

\* mutant: a zone that came up meanwhile is used
CreateZoneOrTake(c) ==
    LET b == printing[c].site
        k == printing[c].code
        taken == zone[b][k] # "none"
    IN /\ printing[c].step = "zone"
       /\ zone' = IF taken THEN zone ELSE [zone EXCEPT ![b][k] = printing[c].space]
       /\ printing' = [printing EXCEPT ![c].step = "point"]
       /\ UNCHANGED <<standing, located, point, place, shared, relet>>

\* The code is unique in a building: the second of two calls fails, and makes no point.
CreateZone(c) ==
    LET b == printing[c].site
        k == printing[c].code
        taken == zone[b][k] # "none"
    IN /\ printing[c].step = "zone"
       /\ zone' = IF taken THEN zone ELSE [zone EXCEPT ![b][k] = printing[c].space]
       /\ printing' = [printing EXCEPT ![c] = IF taken THEN Off ELSE [@ EXCEPT !.step = "point"]]
       /\ UNCHANGED <<standing, located, point, place, shared, relet>>

CreatePoint(c) ==
    /\ printing[c].step = "point"
    /\ point' = [point EXCEPT ![printing[c].point] =
                    [site |-> printing[c].site, code |-> printing[c].code, space |-> printing[c].space]]
    /\ printing' = [printing EXCEPT ![c] = Off]
    /\ UNCHANGED <<standing, located, zone, place, shared, relet>>

\* CleaningAdminService.createZone: a zone for no space, under a code that is free
AddZone(b, k) ==
    /\ zone[b][k] = "none"
    /\ zone' = [zone EXCEPT ![b][k] = "hand"]
    /\ UNCHANGED <<standing, located, point, place, printing, shared, relet>>

\* updateUnit writes what it is given; only two units of one building cannot have one code.
\* Zones and points are not looked at.
UpdateUnit(s, b, k) ==
    LET there == [site |-> b, code |-> k] IN
    /\ s \in standing \cap Lettable
    /\ \A u \in standing \cap Lettable : located[u] # there
    /\ located' = [located EXCEPT ![s] = there]
    /\ relet' = relet \cup {s}
    /\ UNCHANGED <<standing, zone, point, place, printing, shared>>

\* QrLocationsService.create: the code is kept in capitals, once in a building; the
\* target is of the building.
CreateLocation(b, l, s) ==
    /\ s \in standing /\ located[s].site = b
    /\ place[b][Upper[l]] = "none"
    /\ place' = [place EXCEPT ![b][Upper[l]] = s]
    /\ UNCHANGED <<standing, located, zone, point, printing, shared, relet>>

DeleteLocation(b, l) ==
    /\ place[b][Upper[l]] # "none"
    /\ place' = [place EXCEPT ![b][Upper[l]] = "none"]
    /\ UNCHANGED <<standing, located, zone, point, printing, shared, relet>>

\* A space is deleted (BuildingStructure); nothing here refers to it by a foreign key.
DeleteSpace(s) ==
    /\ standing' = standing \ {s}
    /\ UNCHANGED <<located, zone, point, place, printing, shared, relet>>

ScanNext ==
    \/ \E c \in Printers :
           \/ \E p \in Points, s \in Spaces : FindZone(c, p, s)
           \/ CreateZone(c) \/ CreatePoint(c)
    \/ \E b \in Sites, l \in Labels :
           \/ \E s \in Spaces : CreateLocation(b, l, s)
           \/ DeleteLocation(b, l)
    \/ \E b \in Sites, k \in ZoneCodes : AddZone(b, k) \/ \E s \in Spaces : UpdateUnit(s, b, k)
    \/ \E s \in Spaces : DeleteSpace(s)
-----------------------------------------------------------------------------
vars == <<assetVars, scanVars>>

Init == AssetInit /\ ScanInit

\* The parts share no rows; a step is one of either.
Next ==
    \/ AssetNext /\ UNCHANGED scanVars
    \/ ScanNext /\ UNCHANGED assetVars

Spec == Init /\ [][Next]_vars
-----------------------------------------------------------------------------
Registered == {a \in Equipment : asset[a] # NoRow}

AssetTypeOK ==
    /\ announced \subseteq Equipment
    /\ \A c \in Registrars :
           /\ creating[c].op \in {"idle", "insert", "announce"}
           /\ creating[c].id \in Equipment \cup {"none"} /\ creating[c].left \in 0 .. MaxRowsLeft
    /\ \A a \in Equipment : asset[a].life \in {"none", "active", "disposed"}

\* assets.service.ts:250-375 and :619-645: an asset of a critical family states its risk and
\* its department, unless the family came from the type or from an edit; a unit of a
\* serialized type has its serial number, unless the level was left out, its type was
\* upserted after the call had read it, or an edit changed its type, its level or the number;
\* its place is in the building unless an edit moved it; an archived asset is disposed of
\* unless an edit said otherwise; and it is announced once its call is over, unless that was
\* cut short.
AssetsAreSound ==
    \A a \in Registered :
        /\ asset[a].family \in Critical => asset[a].covered \/ lax[a] \cap {"inherited", "family", "covered"} # {}
        /\ asset[a].type # "none" /\ assetType[asset[a].type].serialized /\ asset[a].level = "unit"
               => asset[a].serial \/ lax[a] \cap {"defaulted", "type", "serial", "level", "retyped"} # {}
        /\ asset[a].place = "elsewhere" => "place" \in lax[a]
        /\ asset[a].active \/ asset[a].life = "disposed" \/ "life" \in lax[a]
        /\ a \in announced \/ (\E c \in Registrars : creating[c].id = a) \/ "unannounced" \in lax[a]

\* resolvePublic: a point leads to its zone.
Resolved(p) == zone[point[p].site][point[p].code]
\* resolveScan capitalizes what was scanned, ScannerService.resolve does not, and looks in
\* every building.
ScanIn(b, l) == place[b][Upper[l]]
ScanAnywhere(l) == {b \in Sites : place[b][l] # "none"}
\* listLocations: a space is shown with the zone that has its code now.
HasPoint(s) == zone[located[s].site][located[s].code] # "none"

ScanTypeOK ==
    /\ standing \cup relet \subseteq Spaces
    /\ \A s \in Spaces : located[s].site \in Sites /\ located[s].code \in ZoneCodes
    /\ \A p \in Points : point[p].space \in Spaces \cup {"none"}
    /\ \A c \in Printers : printing[c].step \in {"idle", "zone", "point"}

\* cleaning.qr.service.ts:81-126 and :163-296, qr-locations.service.ts:54-126,
\* scanner.service.ts:61-110, building-core.service.ts:140-161: however calls overlap, a point
\* has a zone in the building it was asked for, made for its space unless one with the same
\* code was there before; its space is shown as registered, and the place of a code is in its
\* building, unless an edit gave the unit another code or building; a code found by the
\* scanner is found in its building, and only the codes typed in capitals are found by it.
PointsLeadHome ==
    /\ \A p \in Points : point[p] # Blank =>
           /\ Resolved(p) # "none"
           /\ Resolved(p) = point[p].space \/ point[p].space \in shared
           /\ HasPoint(point[p].space) \/ point[p].space \in relet
    /\ \A l \in Labels, b \in Sites :
           /\ b \in ScanAnywhere(l) => ScanIn(b, l) # "none" /\ l = Upper[l]
           /\ ScanIn(b, l) # "none" =>
                  /\ b \in ScanAnywhere(Upper[l])
                  /\ located[ScanIn(b, l)].site = b \/ ScanIn(b, l) \in relet

TypeOK == AssetTypeOK /\ ScanTypeOK
=============================================================================
