----------------------------- MODULE Registers -----------------------------
(***************************************************************************)
(* Versioned registers: approval policies (ApprovalPoliciesService) and    *)
(* data-processing templates (PrivacyService.createDpaTemplate).  An edit  *)
(* reads the newest version, then in a transaction retires it and inserts  *)
(* the next one.  Only the templates have a unique index on the version.   *)
(***************************************************************************)
EXTENDS Integers, Sequences, FiniteSets

CONSTANTS
    PolicyNames,   \* (name, type, building) of a policy
    DpaKeys,       \* (key, jurisdiction) of a template
    Editors,       \* edits that can be in progress
    Floors,        \* minAmount of a policy
    MaxRows        \* bound of the model: rows of one register

VARIABLES
    rows,          \* rows[r]: the rows of register r in the order they were inserted
    editing,       \* editing[e]: the register and the row (by position) the edit read, and its minAmount
    stale          \* history: per register, edits that wrote a version that was not new

vars == <<rows, editing, stale>>

Registered == PolicyNames \cup DpaKeys
NoEdit == [on |-> "none", prev |-> 0, active |-> FALSE, floor |-> 0]

Newest(r) == {i \in DOMAIN rows[r] : \A j \in DOMAIN rows[r] : rows[r][j].version <= rows[r][i].version}

\* mutant: the previous version is left in force
RetireNothing(old, edit) == old

\* The first statement of the transaction: an active previous version is retired.
Retire(old, edit) ==
    [i \in DOMAIN old |-> IF edit.active /\ i = edit.prev
                          THEN [version |-> old[i].version, floor |-> old[i].floor, active |-> FALSE]
                          ELSE old[i]]

Init ==
    /\ rows = [r \in Registered |-> <<>>]
    /\ editing = [e \in Editors |-> NoEdit]
    /\ stale = [r \in Registered |-> 0]

\* create, supersede (which calls create with the name of a row of any version) and
\* createDpaTemplate: findFirst by version, descending.
ReadNewest(e, r, floor) ==
    /\ editing[e] = NoEdit
    /\ Len(rows[r]) < MaxRows
    /\ \/ /\ rows[r] = <<>>
          /\ editing' = [editing EXCEPT ![e] = [on |-> r, prev |-> 0, active |-> FALSE, floor |-> floor]]
       \/ \E i \in Newest(r) :
              editing' = [editing EXCEPT ![e] =
                             [on |-> r, prev |-> i, active |-> rows[r][i].active, floor |-> floor]]
    /\ UNCHANGED <<rows, stale>>

\* The transaction.  A template whose version is taken fails on the index.
WriteVersion(e) ==
    LET r == editing[e].on
        version == IF editing[e].prev = 0 THEN 1 ELSE rows[r][editing[e].prev].version + 1
        taken == \E i \in DOMAIN rows[r] : rows[r][i].version >= version
    IN /\ r # "none"
       /\ Len(rows[r]) < MaxRows
       /\ IF r \in DpaKeys /\ taken
          THEN UNCHANGED <<rows, stale>>
          ELSE /\ rows' = [rows EXCEPT ![r] = Append(Retire(@, editing[e]),
                              [version |-> version, floor |-> editing[e].floor, active |-> TRUE])]
               /\ stale' = IF taken THEN [stale EXCEPT ![r] = @ + 1] ELSE stale
       /\ editing' = [editing EXCEPT ![e] = NoEdit]

\* deactivate; nothing deactivates a template.
Deactivate(r, i) ==
    /\ rows[r][i].active
    /\ rows' = [rows EXCEPT ![r][i].active = FALSE]
    /\ UNCHANGED <<editing, stale>>

Next ==
    \/ \E e \in Editors :
           \/ \E r \in PolicyNames, floor \in Floors : ReadNewest(e, r, floor)
           \/ \E r \in DpaKeys : ReadNewest(e, r, 0)
           \/ WriteVersion(e)
    \/ \E r \in PolicyNames : \E i \in DOMAIN rows[r] : Deactivate(r, i)

Spec == Init /\ [][Next]_vars
-----------------------------------------------------------------------------
InForce(r) == {i \in DOMAIN rows[r] : rows[r][i].active}

\* resolveActive among the versions of one policy: the highest minAmount that the
\* amount reaches, then the highest version.
Resolved(r, amount) ==
    LET candidates == {i \in InForce(r) : rows[r][i].floor <= amount}
    IN {i \in candidates : \A j \in candidates :
            \/ rows[r][j].floor < rows[r][i].floor
            \/ rows[r][j].floor = rows[r][i].floor /\ rows[r][j].version <= rows[r][i].version}

TypeOK ==
    /\ \A r \in Registered : \A i \in DOMAIN rows[r] :
           /\ rows[r][i].version \in 1 .. MaxRows
           /\ rows[r][i].floor \in Floors \cup {0}
    /\ \A e \in Editors : editing[e].on \in Registered \cup {"none"}

\* approval-policies.service.ts:67-100 and privacy.service.ts:358-381: a register has one
\* version in force plus one for every edit that wrote a version already written, so
\* with no such edit the policy resolved for an amount is the last one written; a
\* template never has two versions in force, whatever edits overlap.
OneInForce ==
    /\ \A r \in Registered : Cardinality(InForce(r)) <= 1 + stale[r]
    /\ \A r \in Registered : stale[r] = 0 => InForce(r) \subseteq {Len(rows[r])}
    /\ \A r \in PolicyNames, amount \in Floors :
           stale[r] = 0 => Resolved(r, amount) \subseteq {Len(rows[r])}
    /\ \A r \in DpaKeys : Cardinality(InForce(r)) <= 1
=============================================================================
