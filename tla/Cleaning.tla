------------------------------ MODULE Cleaning ------------------------------
(***************************************************************************)
(* Cleaning requests of a building (CleaningRequestService), the zones and *)
(* QR points they come from (CleaningAdminService, CleaningQrService), and *)
(* who may see and move them (cleaning.access.ts).  A call reads the       *)
(* request, decides, and writes by id.                                     *)
(***************************************************************************)
EXTENDS FiniteSets

CONSTANTS
    Zones,         \* zone codes of the building, unique in it
    Contractors,
    Supervisors,   \* staff whose role is supervisor
    Cleaners,      \* staff whose role is cleaner
    Employer,      \* the contractor of each of the staff
    Jobs,          \* cleaning requests
    Shifts         \* calls that can be in progress

VARIABLES
    zone,     \* zone[z]: contractor, supervisor and whether it has an active QR point; "absent": no row
    job,      \* job[r]: the request row; status "none": no such row
    shift,    \* shift[s]: the write call s is about to make, with the status it has read
    raced     \* history: requests that a call wrote after another had moved them

vars == <<zone, job, shift, raced>>

Team == Supervisors \cup Cleaners
Actors == {"manager"} \cup Contractors \cup Team   \* a contractor's boss goes by the contractor
Terminal == {"done", "rejected", "cancelled"}
NoZone == [status |-> "absent", contractor |-> "none", supervisor |-> "none", scannable |-> FALSE]
NoJob == [status |-> "none", zone |-> "none", contractor |-> "none", staff |-> "none", resolved |-> FALSE]
Idle == [op |-> "idle", job |-> "none", read |-> "none", to |-> "none", contractor |-> "none", staff |-> "none"]

Init ==
    /\ zone = [z \in Zones |-> NoZone]
    /\ job = [r \in Jobs |-> NoJob]
    /\ shift = [s \in Shifts |-> Idle]
    /\ raced = {}
-----------------------------------------------------------------------------
(* cleaning.access.ts *)

\* filterForActor: what a request must be for the actor to find it
InScope(a, r) ==
    CASE a = "manager" -> TRUE
      [] a \in Supervisors -> /\ job[r].contractor = Employer[a]
                              /\ zone[job[r].zone].supervisor = a \/ job[r].staff = a
      [] a \in Cleaners -> job[r].contractor = Employer[a] /\ job[r].staff = a
      [] a \in Contractors -> job[r].contractor = a

\* mutant: a request that is done can be assigned again
TransitionsFromDone ==
    [s \in {"new", "assigned", "in_progress"} \cup Terminal |->
        CASE s = "new" -> {"assigned", "cancelled"}
          [] s = "assigned" -> {"in_progress", "cancelled", "assigned"}
          [] s = "in_progress" -> {"done", "assigned"}
          [] s = "done" -> {"assigned"}
          [] OTHER -> {}]

AllowedTransitions ==
    [s \in {"new", "assigned", "in_progress"} \cup Terminal |->
        CASE s = "new" -> {"assigned", "cancelled"}
          [] s = "assigned" -> {"in_progress", "cancelled", "assigned"}
          [] s = "in_progress" -> {"done", "assigned"}
          [] OTHER -> {}]

CanChangeStatus(a, from, to) ==
    /\ to \in AllowedTransitions[from]
    /\ a \in Cleaners => <<from, to>> \in {<<"assigned", "in_progress">>, <<"in_progress", "done">>}
-----------------------------------------------------------------------------
(* Zones and QR points *)

CreateZone(z, k, sup) ==
    /\ zone[z] = NoZone
    /\ zone' = [zone EXCEPT ![z] = [status |-> "active", contractor |-> k, supervisor |-> sup,
                                    scannable |-> FALSE]]
    /\ UNCHANGED <<job, shift, raced>>

\* The contractor and the supervisor are written as they come: they need not agree.
AssignZone(z, k, sup) ==
    /\ zone[z] # NoZone
    /\ zone' = [zone EXCEPT ![z].contractor = k, ![z].supervisor = sup]
    /\ UNCHANGED <<job, shift, raced>>

\* create of CleaningQrService: a zone is made for a location that has none.
CreateQrPoint(z) ==
    /\ zone' = [zone EXCEPT ![z].status = "active", ![z].scannable = TRUE]
    /\ UNCHANGED <<job, shift, raced>>
-----------------------------------------------------------------------------
(* Requests *)

\* computeAssignment: an override wins over the zone, and the staff's own contractor is
\* used only when neither names one.
Create(r, z, k, u) ==
    LET staff == IF u # "none" THEN u ELSE zone[z].supervisor
        named == IF k # "none" THEN k ELSE zone[z].contractor
        contractor == IF named = "none" /\ staff # "none" THEN Employer[staff] ELSE named
    IN /\ job[r] = NoJob
       /\ zone[z] # NoZone
       /\ job' = [job EXCEPT ![r] =
              [status |-> IF staff # "none" THEN "assigned" ELSE "new", zone |-> z,
               contractor |-> contractor, staff |-> staff, resolved |-> FALSE]]
       /\ UNCHANGED <<zone, shift, raced>>

\* publicCreate, after resolvePublic has found the point
PublicCreate(r, z) == zone[z].scannable /\ Create(r, z, "none", "none")

ReadToChange(s, a, r, to) ==
    /\ shift[s] = Idle
    /\ job[r] # NoJob
    /\ InScope(a, r)
    /\ CanChangeStatus(a, job[r].status, to)
    /\ shift' = [shift EXCEPT ![s] = [Idle EXCEPT !.op = "change", !.job = r,
                                      !.read = job[r].status, !.to = to]]
    /\ UNCHANGED <<zone, job, raced>>

\* Any row of the staff will do when the request has no contractor; otherwise it must be
\* the contractor's.  The status is worked out from the one that was read.
ReadToAssign(s, a, r, k, u) ==
    LET contractor == IF k # "none" THEN k ELSE job[r].contractor IN
    /\ shift[s] = Idle
    /\ job[r] # NoJob
    /\ a \notin Cleaners
    /\ InScope(a, r)
    /\ job[r].status \notin Terminal
    /\ u # "none" /\ contractor # "none" => Employer[u] = contractor
    /\ shift' = [shift EXCEPT ![s] =
           [op |-> "assign", job |-> r, read |-> job[r].status,
            to |-> IF u # "none" THEN "assigned" ELSE job[r].status,
            contractor |-> IF u # "none" THEN Employer[u] ELSE contractor, staff |-> u]]
    /\ UNCHANGED <<zone, job, raced>>

\* The update asks for the id alone, whatever the request has become.
Write(s) ==
    LET call == shift[s]
        r == call.job
        back == call.op = "change" /\ call.to = "assigned" /\ call.read = "in_progress"
    IN /\ call # Idle
       /\ job' = [job EXCEPT
              ![r].status = call.to,
              ![r].resolved = @ \/ call.to \in Terminal,
              ![r].contractor = IF call.op = "assign" THEN call.contractor ELSE @,
              ![r].staff = IF call.op = "assign" THEN call.staff ELSE IF back THEN "none" ELSE @]
       /\ raced' = IF job[r].status = call.read THEN raced ELSE raced \cup {r}
       /\ shift' = [shift EXCEPT ![s] = Idle]
       /\ UNCHANGED zone

Next ==
    \/ \E z \in Zones, k \in Contractors \cup {"none"}, sup \in Supervisors \cup {"none"} :
           CreateZone(z, k, sup) \/ AssignZone(z, k, sup)
    \/ \E z \in Zones : CreateQrPoint(z)
    \/ \E r \in Jobs, z \in Zones : PublicCreate(r, z)
    \/ \E r \in Jobs, z \in Zones, k \in Contractors \cup {"none"}, u \in Team \cup {"none"} :
           Create(r, z, k, u)
    \/ \E s \in Shifts, a \in Actors, r \in Jobs :
           \/ \E to \in {"assigned", "in_progress", "done", "cancelled"} : ReadToChange(s, a, r, to)
           \/ \E k \in Contractors \cup {"none"}, u \in Team \cup {"none"} : ReadToAssign(s, a, r, k, u)
    \/ \E s \in Shifts : Write(s)

Spec == Init /\ [][Next]_vars
-----------------------------------------------------------------------------
TypeOK ==
    /\ zone \in [Zones -> [status : {"absent", "active"}, contractor : Contractors \cup {"none"},
                           supervisor : Supervisors \cup {"none"}, scannable : BOOLEAN]]
    /\ job \in [Jobs -> [status : {"none", "new", "assigned", "in_progress"} \cup Terminal,
                         zone : Zones \cup {"none"}, contractor : Contractors \cup {"none"},
                         staff : Team \cup {"none"}, resolved : BOOLEAN]]
    /\ \A s \in Shifts : shift[s].op \in {"idle", "change", "assign"}
    /\ raced \subseteq Jobs

\* cleaning.access.ts:81-88: a request that has been resolved stays terminal, and only a
\* write decided on a status that had already changed can open it again.
ClosedStaysClosed == \A r \in Jobs \ raced : job[r].resolved => job[r].status \in Terminal
=============================================================================
