------------------------------- MODULE Stock -------------------------------
(***************************************************************************)
(* InventoryService: stock is not stored, it is the sum of the movements.  *)
(* A movement that takes stock away reads the balance first and is         *)
(* inserted afterwards, so several may rely on one balance.  The model     *)
(* keeps the sum as it grows in place of the movements.                    *)
(***************************************************************************)
EXTENDS Integers, FiniteSets

CONSTANTS
    Takers,       \* calls of recordMovement in progress at the same time
    Places,       \* stock locations
    MaxQuantity,  \* bound of the model: quantity of one movement
    MaxOnHand     \* bound of the model: stock at one place

VARIABLES
    onHand,   \* onHand[p]: sum of the movements of one item at place p
    taking    \* taking[s]: the checked movement slot s is about to insert, or None

vars == <<onHand, taking>>

None == [from |-> "none", to |-> "none", qty |-> 0]

Init == onHand = [p \in Places |-> 0] /\ taking = [s \in Takers |-> None]

\* mutant: a transfer leaves its origin twice
DeltaTwice(m, p) == (IF m.to = p THEN m.qty ELSE 0) - (IF m.from = p THEN 2 * m.qty ELSE 0)

\* What movement m adds to the balance at place p
Delta(m, p) == (IF m.to = p THEN m.qty ELSE 0) - (IF m.from = p THEN m.qty ELSE 0)

\* A receipt, return or adjustment has a destination, an issue or write-off an origin,
\* a transfer two that differ; a column its type has no use for is never read.
Movements ==
    {m \in [from : Places \cup {"none"}, to : Places \cup {"none"}, qty : 1 .. MaxQuantity] :
        m.from # m.to}

\* recordMovement: the balance is read and compared; nothing holds it for the insert.
CheckBalance(s, m) ==
    /\ taking[s] = None
    /\ m.from # "none" => onHand[m.from] >= m.qty
    /\ taking' = [taking EXCEPT ![s] = m]
    /\ UNCHANGED onHand

InsertMovement(s) ==
    /\ taking[s] # None
    /\ LET m == taking[s] IN
           /\ m.to # "none" => onHand[m.to] + m.qty <= MaxOnHand
           /\ onHand' = [p \in Places |-> onHand[p] + Delta(m, p)]
    /\ taking' = [taking EXCEPT ![s] = None]

\* The insert throws.
Throw(s) ==
    /\ taking[s] # None
    /\ taking' = [taking EXCEPT ![s] = None]
    /\ UNCHANGED onHand

Next ==
    \E s \in Takers :
        \/ \E m \in Movements : CheckBalance(s, m)
        \/ InsertMovement(s)
        \/ Throw(s)

Spec == Init /\ [][Next]_vars
-----------------------------------------------------------------------------
TypeOK ==
    /\ onHand \in [Places -> Int]
    /\ taking \in [Takers -> Movements \cup {None}]

\* inventory.service.ts:225 says "no negative on hand": what overlapping calls take
\* beyond it is at most one movement for each call but one, and so nothing when
\* calls do not overlap, whatever the movements before.
OversellBound ==
    \A p \in Places : onHand[p] >= -((Cardinality(Takers) - 1) * MaxQuantity)
=============================================================================
