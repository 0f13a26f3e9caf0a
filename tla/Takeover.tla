------------------------------ MODULE Takeover ------------------------------
(***************************************************************************)
(* The takeover of a building by a new manager: whether it is ready, and   *)
(* who signs.                                                              *)
(***************************************************************************)
EXTENDS Sequences, Integers, FiniteSets

CONSTANTS
    Pens,      \* signoff calls that can be in progress
    Chores,    \* tasks of the building
    Certified, \* tasks that ask for a certificate
    Statutory, \* statutory obligation templates; each asks for a document of its own type
    Minimum,   \* Minimum[o]: floors from which obligation o applies, 0 with no rule
    Statuses,  \* statuses of a task the sums tell apart, "open" among them
    Heights    \* what the building says of its floors; -1 when it says nothing

VARIABLES
    takeover,    \* the case: status, signoffLog, signedOffAt
    operational, \* whether the building's status is operational
    signing,     \* signing[p]: where the call of pen p is, and the log it will write
    lost,        \* history: a call wrote over a longer log, or did not finish
    chore,       \* chore[t]: status, lifecycleStage over or not, evidence attached or not
    linked,      \* obligations linked to the building
    filed,       \* obligations whose document is in the building
    qualified,   \* somebody holds the certificate
    height

-----------------------------------------------------------------------------
(***************************************************************************)
(* The takeover of a building by a new manager (TakeoverService): three    *)
(* roles sign a case in a fixed order, and the last signature makes the    *)
(* building operational.  The log of signatures is read, extended and      *)
(* written back whole.                                                     *)
(***************************************************************************)

signoffVars == <<takeover, operational, signing, lost>>

SignoffChain == <<"building_manager", "chief_engineer", "owner_representative">>
Prefixes == {SubSeq(SignoffChain, 1, n) : n \in 0 .. Len(SignoffChain)}
Away == [at |-> "idle", log |-> <<>>]

SignoffInit ==
    /\ takeover = [status |-> "none", log |-> <<>>, signedOff |-> FALSE]
    /\ operational = FALSE
    /\ signing = [p \in Pens |-> Away]
    /\ lost = FALSE

CreateCase ==
    /\ takeover.status = "none"
    /\ takeover' = [takeover EXCEPT !.status = "draft"]
    /\ UNCHANGED <<operational, signing, lost>>

\* A role signs once, and only when it is its turn in the chain.
ReadToSign(p, role) ==
    /\ signing[p] = Away
    /\ takeover.status # "none"
    /\ \A n \in DOMAIN takeover.log : takeover.log[n] # role
    /\ Len(takeover.log) < Len(SignoffChain)
    /\ SignoffChain[Len(takeover.log) + 1] = role
    /\ signing' = [signing EXCEPT ![p] = [at |-> "write", log |-> Append(takeover.log, role)]]
    /\ UNCHANGED <<takeover, operational, lost>>

WriteLog(p) ==
    LET log == signing[p].log
        completed == Len(log) = Len(SignoffChain)
    IN /\ signing[p].at = "write"
       /\ takeover' = [status |-> IF completed THEN "completed" ELSE "in_signoff",
                       log |-> log, signedOff |-> completed]
       /\ signing' = [signing EXCEPT ![p] = IF completed THEN [@ EXCEPT !.at = "open"] ELSE Away]
       /\ lost' = (lost \/ Len(log) <= Len(takeover.log))
       /\ UNCHANGED <<operational>>

\* setStatus of BuildingsService
OpenBuilding(p) ==
    /\ signing[p].at = "open"
    /\ operational' = TRUE
    /\ signing' = [signing EXCEPT ![p] = Away]
    /\ UNCHANGED <<takeover, lost>>

\* A statement throws; no later call repeats what it left out.
Throw(p) ==
    /\ signing[p] # Away
    /\ lost' = (lost \/ signing[p].at = "open")
    /\ signing' = [signing EXCEPT ![p] = Away]
    /\ UNCHANGED <<takeover, operational>>

SignoffNext ==
    \/ CreateCase
    \/ \E p \in Pens :
           \/ \E n \in DOMAIN SignoffChain : ReadToSign(p, SignoffChain[n])
           \/ WriteLog(p)
           \/ OpenBuilding(p)
           \/ Throw(p)
-----------------------------------------------------------------------------
(***************************************************************************)
(* The readiness of a building for takeover (TakeoverService.gapAnalysis   *)
(* and readinessScore): four percentages of what is in place, blended into *)
(* a score from which signing off is advised.  The rows it reads are       *)
(* written by other services while the takeover is prepared.               *)
(***************************************************************************)

readinessVars == <<chore, linked, filed, qualified, height>>

Pct(part, whole) == IF whole = 0 THEN 100 ELSE (200 * part + whole) \div (2 * whole)  \* Math.round

\* evalPredicate with the operator >=: an attribute the building has not is never met.
Meets(o) == height # -1 /\ height >= Minimum[o]
Applicable(o) == Minimum[o] = 0 \/ Meets(o)
MissingStatutory == {o \in Statutory : Applicable(o) /\ o \notin linked}

Late == {t \in Chores : chore[t].status = "overdue"}
MissingEvidence == {t \in Chores : chore[t].status # "open" /\ ~chore[t].evidence}
Closed == {t \in Chores : chore[t].over}
QualificationGaps == {t \in Certified : ~qualified}

DocsPct == Pct(Cardinality(linked \cap filed), Cardinality(linked))
OverduePct == Pct(Cardinality(Chores) - Cardinality(Late), Cardinality(Chores))
\* What lacks evidence is counted over the status, what is completed over the stage.
EvidencePct == Pct(Cardinality(Closed) - Cardinality(MissingEvidence), Cardinality(Closed))
QualPct == Pct(Cardinality(Certified) - Cardinality(QualificationGaps), Cardinality(Certified))

\* mutant: the weights of documents and of qualifications are swapped
BlendSwapped(docs, late, evidence, qual) == (15 * docs + 25 * late + 20 * evidence + 40 * qual + 50) \div 100

\* The weighted sum, rounded; decimals are taken as exact.
Blend(docs, late, evidence, qual) == (40 * docs + 25 * late + 20 * evidence + 15 * qual + 50) \div 100

Score == Blend(DocsPct, OverduePct, EvidencePct, QualPct)
CanSignoff == Score >= 75 /\ MissingStatutory = {}

ReadinessInit ==
    /\ chore = [t \in Chores |-> [status |-> "open", over |-> FALSE, evidence |-> FALSE]]
    /\ linked = {}
    /\ filed = {}
    /\ qualified = FALSE
    /\ height = -1

\* Other services: the mobile routes move the status, the PPM routes the stage as well.
Work(t) ==
    /\ \E status \in Statuses, over, evidence \in BOOLEAN :
           /\ chore[t].evidence => evidence
           /\ status = "completed" => over
           /\ chore' = [chore EXCEPT ![t] = [status |-> status, over |-> over, evidence |-> evidence]]
    /\ UNCHANGED <<linked, filed, qualified, height>>

LinkObligation(o) ==
    /\ linked' = linked \cup {o}
    /\ UNCHANGED <<chore, filed, qualified, height>>

FileDocument(o) ==
    /\ filed' = filed \cup {o}
    /\ UNCHANGED <<chore, linked, qualified, height>>

Certify ==
    /\ qualified' = ~qualified
    /\ UNCHANGED <<chore, linked, filed, height>>

Measure(h) ==
    /\ height' = h
    /\ UNCHANGED <<chore, linked, filed, qualified>>

ReadinessNext ==
    \/ \E t \in Chores : Work(t)
    \/ \E o \in Statutory : LinkObligation(o) \/ FileDocument(o)
    \/ Certify
    \/ \E h \in Heights : Measure(h)
-----------------------------------------------------------------------------
vars == <<signoffVars, readinessVars>>

Init == SignoffInit /\ ReadinessInit

\* The parts share no rows; a step is one of either.
Next ==
    \/ SignoffNext /\ UNCHANGED readinessVars
    \/ ReadinessNext /\ UNCHANGED signoffVars

Spec == Init /\ [][Next]_vars
-----------------------------------------------------------------------------
SignoffTypeOK ==
    /\ takeover.status \in {"none", "draft", "in_signoff", "completed"}
    /\ operational \in BOOLEAN
    /\ \A p \in Pens : signing[p].at \in {"idle", "write", "open"}

\* takeover.service.ts:289-313: however calls overlap, the log is the chain up to some
\* role and the case is completed exactly when the log is the whole chain; unless a call
\* wrote over a later log or was cut before its last step, the building is operational
\* exactly when the case is completed and no call has yet to make it so.
SignoffFollowsChain ==
    /\ takeover.log \in Prefixes
    /\ takeover.status = "completed" <=> takeover.log = SignoffChain
    /\ takeover.signedOff <=> takeover.log = SignoffChain
    /\ ~lost => /\ operational => takeover.status = "completed"
                /\ takeover.status = "completed" => operational \/ \E p \in Pens : signing[p].at = "open"

ReadinessTypeOK ==
    /\ linked \cup filed \subseteq Statutory
    /\ DOMAIN chore = Chores

\* takeover.service.ts:156-281: the score is at most 100, and falls below zero only when
\* more tasks lack their evidence than are completed; a building may be signed off only
\* with every applicable statutory obligation linked and, whatever else is in place, with
\* a third of the required documents; and with none of its tasks in time only with nearly
\* all of them (197 of 200, which is all of them up to 66) and with the qualifications.
SignoffIsDeserved ==
    /\ Score <= 100
    /\ Score < 0 => Cardinality(MissingEvidence) > Cardinality(Closed)
    /\ CanSignoff => /\ \A o \in Statutory : Applicable(o) => o \in linked
                     /\ 3 * Cardinality(linked \cap filed) >= Cardinality(linked)
                     /\ Chores # {} /\ Late = Chores =>
                            /\ 200 * Cardinality(linked \cap filed) >= 197 * Cardinality(linked)
                            /\ Certified = {} \/ qualified

TypeOK == SignoffTypeOK /\ ReadinessTypeOK
=============================================================================
