----------------------------- MODULE Documents -----------------------------
(***************************************************************************)
(* Documents of a building, and the templates that say which ones it       *)
(* needs.                                                                  *)
(***************************************************************************)
EXTENDS Naturals, FiniteSets

CONSTANTS
    Papers,   \* document ids
    Contents, \* what a file can hold
    Clerks,   \* calls that can be in progress
    MaxUses,  \* bound of the model: redemptions of the one signed url
    Forms,    \* template rows
    FormKeys, \* their keys, unique
    Sittings  \* calls that can be in progress

VARIABLES
    document,  \* document[d]: content, hold, whether its retention is over; content "none": no row
    stored,    \* contents whose object exists
    clerk,     \* clerk[c]: the step call c is at
    usesLeft,  \* of a signed url of some document
    redeemed,  \* history: how often it was redeemed
    disturbed, \* history: contents whose object was deleted while another row, or an upload, had it
    unheld,    \* history: a document was put on hold after its deletion had read it
    halved,    \* history: documents whose deletion ended between the object and the row
    form,      \* form[f]: the key of the row; "none": no such row
    programme, \* templates that a programme refers to
    waypoint,  \* templates that a waypoint refers to
    sitting,   \* sitting[s]: the write a call is about to make
    dangling   \* history: templates that were not there when a programme took them, or that
               \* it took while a call that had counted was about to delete them

-----------------------------------------------------------------------------
(***************************************************************************)
(* Documents of a building and the objects that hold them                  *)
(* (DocumentsService).  An object is named by the hash of its content, so  *)
(* documents with one content share it; the row and the object are written *)
(* one after the other, and a deletion reads the row once.                 *)
(***************************************************************************)

paperVars == <<document, stored, clerk, usesLeft, redeemed, disturbed, unheld, halved>>

NoDocument == [content |-> "none", hold |-> FALSE, expired |-> FALSE, scan |-> "pending"]
Idle == [op |-> "idle", id |-> "none", content |-> "none"]

PaperInit ==
    /\ document = [d \in Papers |-> NoDocument]
    /\ stored = {}
    /\ clerk = [c \in Clerks |-> Idle]
    /\ usesLeft = 1
    /\ redeemed = 0
    /\ disturbed = {}
    /\ unheld = {}
    /\ halved = {}

Exists(d) == document[d].content # "none"
Goes(c, op, d, k) == clerk' = [clerk EXCEPT ![c] = [op |-> op, id |-> d, content |-> k]]
Returns(c) == clerk' = [clerk EXCEPT ![c] = Idle]

\* Rows and uploads in progress, other than those of d and c, that need the content
Sharers(k, d, c) ==
    {e \in Papers \ {d} : document[e].content = k} \cup
    {b \in Clerks \ {c} : clerk[b].op = "upload" /\ clerk[b].content = k}
-----------------------------------------------------------------------------
\* mutant: the row is written before its object
PutLater(c, d, k) ==
    /\ clerk[c] = Idle
    /\ ~Exists(d) /\ \A b \in Clerks : clerk[b].id # d
    /\ Goes(c, "upload", d, k)
    /\ UNCHANGED <<document, stored, usesLeft, redeemed, disturbed, unheld, halved>>

\* upload: the object, under the hash of the content, and then the row
Put(c, d, k) ==
    /\ clerk[c] = Idle
    /\ ~Exists(d) /\ \A b \in Clerks : clerk[b].id # d
    /\ stored' = stored \cup {k}
    /\ Goes(c, "upload", d, k)
    /\ UNCHANGED <<document, usesLeft, redeemed, disturbed, unheld, halved>>

CreateRow(c) ==
    /\ clerk[c].op = "upload"
    /\ document' = [document EXCEPT ![clerk[c].id] = [NoDocument EXCEPT !.content = clerk[c].content]]
    /\ Returns(c)
    /\ UNCHANGED <<stored, usesLeft, redeemed, disturbed, unheld, halved>>

SetLegalHold(d, on) ==
    /\ Exists(d) /\ document[d].hold # on
    /\ document' = [document EXCEPT ![d].hold = on]
    /\ unheld' = IF on /\ \E c \in Clerks : clerk[c].op \in {"delete", "drop"} /\ clerk[c].id = d
                 THEN unheld \cup {d} ELSE unheld
    /\ UNCHANGED <<stored, clerk, usesLeft, redeemed, disturbed, halved>>

RecordVirusScan(d, status) ==
    /\ Exists(d) /\ document[d].scan # status
    /\ document' = [document EXCEPT ![d].scan = status]
    /\ UNCHANGED <<stored, clerk, usesLeft, redeemed, disturbed, unheld, halved>>

Expire(d) ==
    /\ Exists(d) /\ ~document[d].expired
    /\ document' = [document EXCEPT ![d].expired = TRUE]
    /\ UNCHANGED <<stored, clerk, usesLeft, redeemed, disturbed, unheld, halved>>
-----------------------------------------------------------------------------
(* delete: the checks, the object, the row *)

ReadToDelete(c, d) ==
    /\ clerk[c] = Idle
    /\ Exists(d) /\ ~document[d].hold /\ document[d].expired
    /\ Goes(c, "delete", d, document[d].content)
    /\ UNCHANGED <<document, stored, usesLeft, redeemed, disturbed, unheld, halved>>

\* The object goes, whoever else has its content.
DeleteObject(c) ==
    LET k == clerk[c].content IN
    /\ clerk[c].op = "delete"
    /\ stored' = stored \ {k}
    /\ disturbed' = IF Sharers(k, clerk[c].id, c) = {} THEN disturbed ELSE disturbed \cup {k}
    /\ Goes(c, "drop", clerk[c].id, k)
    /\ UNCHANGED <<document, usesLeft, redeemed, unheld, halved>>

\* Another deletion may have been there first: the statement then throws.
DeleteRow(c) ==
    /\ clerk[c].op = "drop"
    /\ document' = [document EXCEPT ![clerk[c].id] = NoDocument]
    /\ unheld' = unheld \ {clerk[c].id}
    /\ halved' = halved \ {clerk[c].id}
    /\ Returns(c)
    /\ UNCHANGED <<stored, usesLeft, redeemed, disturbed>>
-----------------------------------------------------------------------------
(* redeemSignedUrl: the uses are read, and written one less *)

ReadUses(c) ==
    /\ clerk[c] = Idle
    /\ usesLeft > 0 /\ redeemed < MaxUses
    /\ Goes(c, "redeem", "none", "none")
    /\ UNCHANGED <<document, stored, usesLeft, redeemed, disturbed, unheld, halved>>

Redeem(c) ==
    /\ clerk[c].op = "redeem"
    /\ usesLeft' = 0
    /\ redeemed' = redeemed + 1
    /\ Returns(c)
    /\ UNCHANGED <<document, stored, disturbed, unheld, halved>>

\* A deletion that ends here has taken the object and left the row.
Throw(c) ==
    /\ clerk[c] # Idle
    /\ halved' = halved \cup {d \in Papers : clerk[c].op = "drop" /\ clerk[c].id = d /\ Exists(d)}
    /\ Returns(c)
    /\ UNCHANGED <<document, stored, usesLeft, redeemed, disturbed, unheld>>

PaperNext ==
    \/ \E c \in Clerks :
           \/ \E d \in Papers : ReadToDelete(c, d) \/ \E k \in Contents : Put(c, d, k)
           \/ CreateRow(c)
           \/ DeleteObject(c)
           \/ DeleteRow(c)
           \/ ReadUses(c)
           \/ Redeem(c)
           \/ Throw(c)
    \/ \E d \in Papers :
           \/ \E on \in BOOLEAN : SetLegalHold(d, on)
           \/ RecordVirusScan(d, "clean")
           \/ Expire(d)
-----------------------------------------------------------------------------
(***************************************************************************)
(* Templates of documents (DocumentTemplatesService) and what refers to    *)
(* them: programmes of maintenance (PpmService.wizardApply) and waypoints  *)
(* of rounds (RoundsService.create), which write the id they are given.    *)
(* A call looks rows up and then writes.  What a template says, and what   *)
(* its kind asks of it, is left out.                                       *)
(***************************************************************************)

formVars == <<form, programme, waypoint, sitting, dangling>>

Seated == [op |-> "idle", on |-> "none"]

FormInit ==
    /\ form = [f \in Forms |-> "none"]
    /\ programme = {}
    /\ waypoint = {}
    /\ sitting = [s \in Sittings |-> Seated]
    /\ dangling = {}

Rows == {f \in Forms : form[f] # "none"}
Taken(k) == \E f \in Rows : form[f] = k
Sit(s, op, on) == sitting' = [sitting EXCEPT ![s] = [op |-> op, on |-> on]]
-----------------------------------------------------------------------------
ReadToCreate(s, k) ==
    /\ sitting[s].op = "idle"
    /\ ~Taken(k)
    /\ Sit(s, "create", k)
    /\ UNCHANGED <<form, programme, waypoint, dangling>>

\* The unique key refuses a second row.
Create(s) ==
    LET k == sitting[s].on IN
    /\ sitting[s].op = "create"
    /\ IF Taken(k)
       THEN UNCHANGED form
       ELSE \E f \in Forms \ (Rows \cup programme \cup waypoint) : form' = [form EXCEPT ![f] = k]
    /\ Sit(s, "idle", "none")
    /\ UNCHANGED <<programme, waypoint, dangling>>

\* mutant: the programmes are not counted
ReadToDeleteAnyForm(s, f) ==
    /\ sitting[s].op = "idle"
    /\ f \in Rows
    /\ Sit(s, "delete", f)
    /\ UNCHANGED <<form, programme, waypoint, dangling>>

\* The programmes that refer to it are counted; the waypoints are not.
ReadToDeleteForm(s, f) ==
    /\ sitting[s].op = "idle"
    /\ f \in Rows \ programme
    /\ Sit(s, "delete", f)
    /\ UNCHANGED <<form, programme, waypoint, dangling>>

Delete(s) ==
    /\ sitting[s].op = "delete"
    /\ form' = [form EXCEPT ![sitting[s].on] = "none"]
    /\ Sit(s, "idle", "none")
    /\ UNCHANGED <<programme, waypoint, dangling>>

\* Both write the id without looking for its row; the reader may have an old list.
ApplyProgramme(f) ==
    /\ programme' = programme \cup {f}
    /\ dangling' = IF f \notin Rows \/ \E s \in Sittings : sitting[s] = [op |-> "delete", on |-> f]
                   THEN dangling \cup {f} ELSE dangling
    /\ UNCHANGED <<form, waypoint, sitting>>

AddWaypoint(f) ==
    /\ waypoint' = waypoint \cup {f}
    /\ UNCHANGED <<form, programme, sitting, dangling>>

\* A programme is given another template or none, or is deleted.
DropProgramme(f) ==
    /\ f \in programme
    /\ programme' = programme \ {f}
    /\ dangling' = dangling \ {f}
    /\ UNCHANGED <<form, waypoint, sitting>>

FormNext ==
    \/ \E s \in Sittings :
           \/ \E k \in FormKeys : ReadToCreate(s, k)
           \/ Create(s)
           \/ \E f \in Forms : ReadToDeleteForm(s, f)
           \/ Delete(s)
    \/ \E f \in Forms : ApplyProgramme(f) \/ AddWaypoint(f) \/ DropProgramme(f)
-----------------------------------------------------------------------------
vars == <<paperVars, formVars>>

Init == PaperInit /\ FormInit

\* The parts share no rows; a step is one of either.
Next ==
    \/ PaperNext /\ UNCHANGED formVars
    \/ FormNext /\ UNCHANGED paperVars

Spec == Init /\ [][Next]_vars
-----------------------------------------------------------------------------
PaperTypeOK ==
    /\ document \in [Papers -> [content : Contents \cup {"none"}, hold : BOOLEAN, expired : BOOLEAN,
                                scan : {"pending", "clean"}]]
    /\ stored \subseteq Contents
    /\ \A c \in Clerks : clerk[c].op \in {"idle", "upload", "delete", "drop", "redeem"}
    /\ usesLeft \in {0, 1}
    /\ disturbed \subseteq Contents

\* documents.service.ts:89-91 and :158-169: a document on legal hold can be read, with three
\* exceptions: its object was deleted for another document of the same content, it was put on
\* hold after its own deletion had checked, or a deletion of it was cut between the object and
\* the row.  Every other document can be read until its deletion begins.
HeldIsReadable ==
    \A d \in Papers : Exists(d) /\ document[d].content \notin stored \cup disturbed =>
        \/ d \in unheld \cup halved
        \/ ~document[d].hold /\ \E c \in Clerks : clerk[c].op = "drop" /\ clerk[c].id = d

FormTypeOK ==
    /\ form \in [Forms -> FormKeys \cup {"none"}]
    /\ programme \cup waypoint \cup dangling \subseteq Forms
    /\ \A s \in Sittings : sitting[s].op \in {"idle", "create", "delete"}

\* document-templates.service.ts:75-171: what a programme refers to is there, unless it was
\* not when the programme took it or its deletion had begun; what only waypoints of rounds
\* refer to can go; and two templates have not one key, whatever calls overlap.
TemplatesAreThere ==
    /\ programme \ dangling \subseteq Rows
    /\ \A f, g \in Rows : form[f] = form[g] => f = g

TypeOK == PaperTypeOK /\ FormTypeOK
=============================================================================
