----------------------------- MODULE FloorDuty -----------------------------
(***************************************************************************)
(* Work on the floors of a building: who a new case goes to, and the       *)
(* rounds that are walked.                                                 *)
(***************************************************************************)
EXTENDS Integers, Sequences, FiniteSets

CONSTANTS
    Staff,      \* users
    BuildingStaff, \* those who hold the role in the building
    Wardens,    \* calls of createFloorAssignment that can overlap
    Tickets,    \* cases reported with the floor, or without it
    Tours,      \* rounds
    Plans,      \* plans: the orders given for the waypoints of a new round, 0 when left out
    MaxOrder,   \* bound of the model
    Walkers     \* calls that can be in progress

VARIABLES
    onFloor,    \* onFloor[u]: "none", "any" or "primary": the row of u for the floor
    away,       \* users whose availability today is off, leave, sick, absent or unavailable
    appointing, \* appointing[s]: the user whose assignment call s is about to write
    routed,     \* routed[c]: the assignee of case c, with how it was found
    tour,       \* tour[t]: does it exist, the orders of its waypoints
    walk,       \* walk[w]: the round, what is left to write, the running number
    asked,      \* history: waypoints asked for in each round and not deleted, while no call halts
    halted      \* history: rounds of which a call halted before its last waypoint

-----------------------------------------------------------------------------
(***************************************************************************)
(* Floor assignments and availability (AssignmentService), and the rule    *)
(* that picks an assignee from them (resolveAssignment): one floor of one  *)
(* building and one role.                                                  *)
(***************************************************************************)

dutyVars == <<onFloor, away, appointing, routed>>

Unrouted == [user |-> "none", source |-> "none"]

DutyInit ==
    /\ onFloor = [u \in Staff |-> "none"]
    /\ away = {}
    /\ appointing = [s \in Wardens |-> "none"]
    /\ routed = [c \in Tickets |-> Unrouted]
-----------------------------------------------------------------------------
(* AssignmentService *)

Appoint(u) ==
    /\ onFloor' = [onFloor EXCEPT ![u] = "any"]
    /\ UNCHANGED <<away, appointing, routed>>

\* mutant: the previous primary is not demoted
DemoteNobody(s, u) ==
    /\ appointing[s] = "none"
    /\ UNCHANGED onFloor
    /\ appointing' = [appointing EXCEPT ![s] = u]
    /\ UNCHANGED <<away, routed>>

\* createFloorAssignment with primary: first every primary of the floor and role is
\* demoted, then the user's own row is written.
DemotePrimary(s, u) ==
    /\ appointing[s] = "none"
    /\ onFloor' = [v \in Staff |-> IF onFloor[v] = "primary" THEN "any" ELSE onFloor[v]]
    /\ appointing' = [appointing EXCEPT ![s] = u]
    /\ UNCHANGED <<away, routed>>

AppointPrimary(s) ==
    /\ appointing[s] # "none"
    /\ onFloor' = [onFloor EXCEPT ![appointing[s]] = "primary"]
    /\ appointing' = [appointing EXCEPT ![s] = "none"]
    /\ UNCHANGED <<away, routed>>

\* The upsert throws: the floor is left without a primary.
Throw(s) ==
    /\ appointing[s] # "none"
    /\ appointing' = [appointing EXCEPT ![s] = "none"]
    /\ UNCHANGED <<onFloor, away, routed>>

Dismiss(u) ==
    /\ onFloor[u] # "none"
    /\ onFloor' = [onFloor EXCEPT ![u] = "none"]
    /\ UNCHANGED <<away, appointing, routed>>

SetAvailability(u) ==
    /\ \E off \in SUBSET {u} : away' = (away \ {u}) \cup off
    /\ UNCHANGED <<onFloor, appointing, routed>>
-----------------------------------------------------------------------------
(* resolveAssignment *)

\* The available primaries, then anyone available on the floor, then anyone available
\* with the role in the building, then the managers' queue.
Decisions(floorKnown) ==
    LET floor == {u \in Staff : onFloor[u] # "none"} \ away
        first == {u \in floor : onFloor[u] = "primary"}
        role == BuildingStaff \ away
        To(users, source) == {[user |-> u, source |-> source] : u \in users}
    IN IF floorKnown /\ first # {} THEN To(first, "floor.primary")
       ELSE IF floorKnown /\ floor # {} THEN To(floor, "floor.any")
       ELSE IF role # {} THEN To(role, "building.role")
       ELSE To({"none"}, "manager_queue")

Route(c) ==
    /\ routed[c] = Unrouted
    /\ \E floorKnown \in BOOLEAN : \E d \in Decisions(floorKnown) :
           routed' = [routed EXCEPT ![c] = d]
    /\ UNCHANGED <<onFloor, away, appointing>>

\* Any user, available or not
Reassign(c, u) ==
    /\ routed[c] # Unrouted
    /\ routed' = [routed EXCEPT ![c] = [user |-> u, source |-> "manager.manual"]]
    /\ UNCHANGED <<onFloor, away, appointing>>

AssignIncident(c, u) == Reassign(c, u)
AssignServiceRequest(c, u) == Reassign(c, u)

DutyNext ==
    \/ \E u \in Staff : Appoint(u) \/ Dismiss(u) \/ SetAvailability(u)
    \/ \E s \in Wardens : (\E u \in Staff : DemotePrimary(s, u)) \/ AppointPrimary(s) \/ Throw(s)
    \/ \E c \in Tickets : Route(c) \/ \E u \in Staff : AssignIncident(c, u) \/ AssignServiceRequest(c, u)
-----------------------------------------------------------------------------
(***************************************************************************)
(* Inspection rounds (RoundsService): a round is written with its          *)
(* waypoints one after the other, in no transaction, and more are added    *)
(* after the last or at a given place; the order of a waypoint is unique   *)
(* in its round.                                                           *)
(***************************************************************************)

roundVars == <<tour, walk, asked, halted>>

Resting == [on |-> "none", plan |-> <<>>, n |-> 1]
NoTour == [there |-> FALSE, orders |-> {}]

RoundInit ==
    /\ tour = [t \in Tours |-> NoTour]
    /\ walk = [w \in Walkers |-> Resting]
    /\ asked = [t \in Tours |-> 0]
    /\ halted = {}

\* create, up to the insert of the round
CreateRound(w, t, plan) ==
    /\ walk[w] = Resting
    /\ tour[t] = NoTour /\ \A x \in Walkers : walk[x].on # t
    /\ tour' = [tour EXCEPT ![t].there = TRUE]
    /\ walk' = [walk EXCEPT ![w] = IF plan = <<>> THEN Resting ELSE [on |-> t, plan |-> plan, n |-> 1]]
    /\ asked' = [asked EXCEPT ![t] = Len(plan)]
    /\ halted' = halted \ {t}

\* mutant: an order that is taken is written again
RepeatsNothing(t, order) == FALSE

\* The unique index on the round and the order, and the foreign key.
Repeats(t, order) == ~tour[t].there \/ order \in tour[t].orders

\* A call ends before its last waypoint, and what it has written stays.
Halt(w, t) ==
    /\ halted' = halted \cup {t}
    /\ walk' = [walk EXCEPT ![w] = Resting]
    /\ asked' = [asked EXCEPT ![t] = 0]
    /\ UNCHANGED tour

\* A waypoint without an order takes the running number, which an order given to another
\* does not move: the insert that repeats an order fails.
WriteWaypoint(w) ==
    LET t == walk[w].on
        given == Head(walk[w].plan)
        order == IF given = 0 THEN walk[w].n ELSE given
    IN /\ t # "none"
       /\ IF Repeats(t, order)
          THEN Halt(w, t)
          ELSE /\ tour' = [tour EXCEPT ![t].orders = @ \cup {order}]
               /\ walk' = [walk EXCEPT ![w] =
                      IF Len(walk[w].plan) = 1 THEN Resting
                      ELSE [on |-> t, plan |-> Tail(walk[w].plan),
                            n |-> IF given = 0 THEN walk[w].n + 1 ELSE walk[w].n]]
               /\ UNCHANGED <<asked, halted>>

\* The process is lost, or the insert throws, before any waypoint that is left.
CutRound(w) == walk[w].on # "none" /\ Halt(w, walk[w].on)

\* addWaypoint with an order, up to its insert.
AddWaypoint(w, t, order) ==
    /\ walk[w] = Resting
    /\ tour[t].there
    /\ walk' = [walk EXCEPT ![w] = [on |-> t, plan |-> <<order>>, n |-> 1]]
    /\ asked' = IF t \in halted THEN asked ELSE [asked EXCEPT ![t] = @ + 1]
    /\ UNCHANGED <<tour, halted>>

\* addWaypoint without an order: one more than the highest that was read.
ReadLast(w, t) ==
    /\ tour[t].there
    /\ LET last == IF tour[t].orders = {} THEN 0 ELSE CHOOSE o \in tour[t].orders : \A p \in tour[t].orders : p <= o
       IN last < MaxOrder /\ AddWaypoint(w, t, last + 1)

DeleteWaypoint(t, order) ==
    /\ order \in tour[t].orders
    /\ tour' = [tour EXCEPT ![t].orders = @ \ {order}]
    /\ asked' = IF t \in halted THEN asked ELSE [asked EXCEPT ![t] = @ - 1]
    /\ UNCHANGED <<walk, halted>>

\* delete cascades to the waypoints.
DeleteRound(t) ==
    /\ tour[t].there
    /\ tour' = [tour EXCEPT ![t] = NoTour]
    /\ asked' = [asked EXCEPT ![t] = 0]
    /\ UNCHANGED <<walk, halted>>

RoundNext ==
    \/ \E w \in Walkers :
           \/ \E t \in Tours : ReadLast(w, t) \/ \E plan \in Plans : CreateRound(w, t, plan)
           \/ \E t \in Tours, order \in 1 .. MaxOrder : AddWaypoint(w, t, order)
           \/ WriteWaypoint(w) \/ CutRound(w)
    \/ \E t \in Tours : DeleteRound(t) \/ \E order \in 1 .. MaxOrder : DeleteWaypoint(t, order)
-----------------------------------------------------------------------------
vars == <<dutyVars, roundVars>>

Init == DutyInit /\ RoundInit

Next ==
    \/ DutyNext /\ UNCHANGED roundVars
    \/ RoundNext /\ UNCHANGED dutyVars

Spec == Init /\ [][Next]_vars
-----------------------------------------------------------------------------
DutyTypeOK ==
    /\ onFloor \in [Staff -> {"none", "any", "primary"}]
    /\ away \subseteq Staff
    /\ appointing \in [Wardens -> Staff \cup {"none"}]
    /\ \A c \in Tickets :
           /\ routed[c].user \in Staff \cup {"none"}
           /\ routed[c].source \in {"none", "floor.primary", "floor.any", "building.role",
                                    "manager_queue", "manager.manual"}

\* assignment.service.ts:53 means to keep one primary for a floor and role.  Calls that
\* overlap each demote before either writes, and leave one primary each; they are never
\* more than the calls that can overlap, however many came before.
PrimaryBound == Cardinality({u \in Staff : onFloor[u] = "primary"}) <= Cardinality(Wardens)

RoundTypeOK ==
    /\ \A t \in Tours : tour[t].orders \subseteq 1 .. MaxOrder + 1
    /\ \A w \in Walkers : walk[w].on \in Tours \cup {"none"}
    /\ halted \subseteq Tours

\* rounds.service.ts:31-90 and :107-150: a round has every waypoint that was asked for and
\* not deleted, in an order of its own, once no call is at work on it, unless a call halted
\* before its last waypoint: it was cut, or an order was taken (given twice, met by the
\* running number, or read as the next one by two calls).
RoundsAreWhole ==
    \A t \in Tours \ halted : tour[t].there /\ (\A w \in Walkers : walk[w].on # t) =>
        Cardinality(tour[t].orders) = asked[t]

TypeOK == DutyTypeOK /\ RoundTypeOK
=============================================================================
