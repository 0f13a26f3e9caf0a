----------------------- MODULE ApprovalChain_proofs -----------------------
(***************************************************************************)
(* Proofs about signatures.                                                *)
(*                                                                         *)
(* ApprovalChain, for a chain of any length, any roles and any number of   *)
(* concurrent calls, wherever they are cut short; then the services that   *)
(* also collect signatures, each by itself and as parts of MCOperations:   *)
(* the second person of an emergency, the takeover, the acceptance of a    *)
(* project.                                                                *)
(***************************************************************************)
EXTENDS ApprovalChain, MCOperations, Sequences, FiniteSetTheorems, SequenceTheorems, TLAPS

\* A call about to sign step k read all the steps below k as approved.
OrderInv ==
    /\ SignedInOrder
    /\ \A s \in Slots : pc[s] \in {"lookup", "sign"} =>
           \A j \in Steps : j < mine[s] => step[j] = "approved"

\* A call decides "approved" only when it has seen every step signed.
OutcomeInv ==
    /\ ApprovedMeansAllSteps
    /\ \A s \in Slots :
        /\ pc[s] \in {"status", "audit", "publish"} /\ outcome[s] = "approved" => AllApproved
        /\ pc[s] = "publish" => outcome[s] = "approved"

\* What a role may sign a step on.
Entitled(r, b, k) ==
    /\ b = "role" => r = StepRole[k]
    /\ b = "override" => r = "owner_representative" /\ k = StepCount
    /\ MaySpend(r, k)

AuthorityInv ==
    /\ \A k \in Steps : step[k] = "approved" =>
           basis[k] # "none" /\ Entitled(actedAs[k], basis[k], k)
    /\ \A s \in Slots : pc[s] = "sign" => Entitled(role[s], how[s], mine[s])

IInv == TypeOK /\ OrderInv /\ OutcomeInv /\ AuthorityInv

LEMMA InitIInv == Init => IInv
  BY ChainAssumption DEF Init, IInv, TypeOK, OrderInv, OutcomeInv, AuthorityInv,
     SignedInOrder, ApprovedMeansAllSteps, Steps

LEMMA NextIInv == IInv /\ [Next]_vars => IInv'
  <1> SUFFICES ASSUME IInv, [Next]_vars PROVE IInv'
    OBVIOUS
  <1> USE ChainAssumption DEF requestVars, callVars
  <1>1. ASSUME NEW u \in Users, NEW r \in Roles, Delegate(u, r) \/ EndDelegation(u, r) PROVE IInv'
    <2> USE <1>1 DEF Delegate, EndDelegation
    <2>1. TypeOK'
      BY DEF IInv, TypeOK
    <2>2. OrderInv'
      BY DEF IInv, TypeOK, OrderInv, SignedInOrder, Steps
    <2>3. OutcomeInv'
      BY DEF IInv, TypeOK, OutcomeInv, ApprovedMeansAllSteps, AllApproved
    <2>4. AuthorityInv'
      BY DEF IInv, TypeOK, AuthorityInv, Entitled
    <2> QED
      BY <2>1, <2>2, <2>3, <2>4 DEF IInv
  <1>2. ASSUME NEW s \in Slots, NEW u \in Users, NEW r \in Roles, BeginInRole(s, u, r) PROVE IInv'
    <2> USE <1>2 DEF BeginInRole, IsFirstPending, PendingSteps, GoTo
    <2>1. TypeOK'
      BY DEF IInv, TypeOK
    <2>2. OrderInv'
      BY DEF IInv, TypeOK, OrderInv, SignedInOrder, Steps
    <2>3. OutcomeInv'
      BY DEF IInv, TypeOK, OutcomeInv, ApprovedMeansAllSteps, AllApproved
    <2>4. AuthorityInv'
      BY DEF IInv, TypeOK, AuthorityInv, Entitled
    <2> QED
      BY <2>1, <2>2, <2>3, <2>4 DEF IInv
  <1>3. ASSUME NEW s \in Slots, NEW u \in Users, NEW r \in Roles, BeginForAnother(s, u, r) PROVE IInv'
    <2> USE <1>3 DEF BeginForAnother, IsFirstPending, PendingSteps, GoTo
    <2>1. TypeOK'
      BY DEF IInv, TypeOK
    <2>2. OrderInv'
      BY DEF IInv, TypeOK, OrderInv, SignedInOrder, Steps
    <2>3. OutcomeInv'
      BY DEF IInv, TypeOK, OutcomeInv, ApprovedMeansAllSteps, AllApproved
    <2>4. AuthorityInv'
      BY DEF IInv, TypeOK, AuthorityInv, Entitled
    <2> QED
      BY <2>1, <2>2, <2>3, <2>4 DEF IInv
  <1>4. ASSUME NEW s \in Slots, LookupAllows(s) PROVE IInv'
    <2> USE <1>4 DEF LookupAllows, IsOverride, GoTo
    <2>1. TypeOK'
      BY DEF IInv, TypeOK
    <2>2. OrderInv'
      BY DEF IInv, TypeOK, OrderInv, SignedInOrder, Steps
    <2>3. OutcomeInv'
      BY DEF IInv, TypeOK, OutcomeInv, ApprovedMeansAllSteps, AllApproved
    <2>4. AuthorityInv'
      BY DEF IInv, TypeOK, AuthorityInv, Entitled
    <2> QED
      BY <2>1, <2>2, <2>3, <2>4 DEF IInv
  <1>5. ASSUME NEW s \in Slots, Sign(s) PROVE IInv'
    <2> USE <1>5 DEF Sign, GoTo
    <2>1. TypeOK'
      BY DEF IInv, TypeOK
    <2>2. OrderInv'
      BY DEF IInv, TypeOK, OrderInv, SignedInOrder, Steps
    <2>3. OutcomeInv'
      BY DEF IInv, TypeOK, OutcomeInv, ApprovedMeansAllSteps, AllApproved
    <2>4. AuthorityInv'
      BY DEF IInv, TypeOK, AuthorityInv, Entitled
    <2> QED
      BY <2>1, <2>2, <2>3, <2>4 DEF IInv
  <1>6. ASSUME NEW s \in Slots, Reread(s) PROVE IInv'
    <2> USE <1>6 DEF Reread, AllApproved, GoTo
    <2>1. TypeOK'
      BY DEF IInv, TypeOK
    <2>2. OrderInv'
      BY DEF IInv, TypeOK, OrderInv, SignedInOrder, Steps
    <2>3. OutcomeInv'
      BY DEF IInv, TypeOK, OutcomeInv, ApprovedMeansAllSteps, AllApproved
    <2>4. AuthorityInv'
      BY DEF IInv, TypeOK, AuthorityInv, Entitled
    <2> QED
      BY <2>1, <2>2, <2>3, <2>4 DEF IInv
  <1>7. ASSUME NEW s \in Slots, WriteStatus(s) PROVE IInv'
    <2> USE <1>7 DEF WriteStatus, GoTo
    <2>1. TypeOK'
      BY DEF IInv, TypeOK
    <2>2. OrderInv'
      BY DEF IInv, TypeOK, OrderInv, SignedInOrder, Steps
    <2>3. OutcomeInv'
      BY DEF IInv, TypeOK, OutcomeInv, ApprovedMeansAllSteps, AllApproved
    <2>4. AuthorityInv'
      BY DEF IInv, TypeOK, AuthorityInv, Entitled
    <2> QED
      BY <2>1, <2>2, <2>3, <2>4 DEF IInv
  <1>8. ASSUME NEW s \in Slots, AuditAndGoOn(s) PROVE IInv'
    <2> USE <1>8 DEF AuditAndGoOn, GoTo
    <2>1. TypeOK'
      BY DEF IInv, TypeOK
    <2>2. OrderInv'
      BY DEF IInv, TypeOK, OrderInv, SignedInOrder, Steps
    <2>3. OutcomeInv'
      BY DEF IInv, TypeOK, OutcomeInv, ApprovedMeansAllSteps, AllApproved
    <2>4. AuthorityInv'
      BY DEF IInv, TypeOK, AuthorityInv, Entitled
    <2> QED
      BY <2>1, <2>2, <2>3, <2>4 DEF IInv
  <1>9. ASSUME NEW s \in Slots, Publish(s) PROVE IInv'
    <2> USE <1>9 DEF Publish, GoTo
    <2>1. TypeOK'
      BY DEF IInv, TypeOK
    <2>2. OrderInv'
      BY DEF IInv, TypeOK, OrderInv, SignedInOrder, Steps
    <2>3. OutcomeInv'
      BY DEF IInv, TypeOK, OutcomeInv, ApprovedMeansAllSteps, AllApproved
    <2>4. AuthorityInv'
      BY DEF IInv, TypeOK, AuthorityInv, Entitled
    <2> QED
      BY <2>1, <2>2, <2>3, <2>4 DEF IInv
  <1>10. ASSUME NEW s \in Slots, LookupRefuses(s) \/ Stop(s) PROVE IInv'
    <2>0. /\ GoTo(s, "idle") /\ UNCHANGED <<requestVars, delegated, callVars, granted>>
          /\ faults' = faults \/ (faults < MaxFaults /\ faults' = faults + 1)
      BY <1>10 DEF LookupRefuses, Stop
    <2> USE <2>0 DEF GoTo
    <2>1. TypeOK'
      BY DEF IInv, TypeOK
    <2>2. OrderInv'
      BY DEF IInv, TypeOK, OrderInv, SignedInOrder, Steps
    <2>3. OutcomeInv'
      BY DEF IInv, TypeOK, OutcomeInv, ApprovedMeansAllSteps, AllApproved
    <2>4. AuthorityInv'
      BY DEF IInv, TypeOK, AuthorityInv, Entitled
    <2> QED
      BY <2>1, <2>2, <2>3, <2>4 DEF IInv
  <1>11. CASE UNCHANGED vars
    BY <1>11 DEF vars, IInv, TypeOK, OrderInv, OutcomeInv, AuthorityInv, SignedInOrder,
       ApprovedMeansAllSteps, AllApproved
  <1> QED
    BY <1>1, <1>2, <1>3, <1>4, <1>5, <1>6, <1>7, <1>8, <1>9, <1>10, <1>11 DEF Next, Call

\* Every reachable state is well typed.
THEOREM TypeCorrect == Spec => []TypeOK
  <1>1. IInv => TypeOK
    BY DEF IInv
  <1> QED
    BY <1>1, InitIInv, NextIInv, PTL DEF Spec

\* The request is approved, and its event published, only with every step signed.
THEOREM StatusCorrect == Spec => []ApprovedMeansAllSteps
  <1>1. IInv => ApprovedMeansAllSteps
    BY DEF IInv, OutcomeInv
  <1> QED
    BY <1>1, InitIInv, NextIInv, PTL DEF Spec

\* Steps are signed in their order, however the calls interleave.
THEOREM OrderCorrect == Spec => []SignedInOrder
  <1>1. IInv => SignedInOrder
    BY DEF IInv, OrderInv
  <1> QED
    BY <1>1, InitIInv, NextIInv, PTL DEF Spec

\* Every signature standing on a step had the authority and the limit for it.
THEOREM AuthorityCorrect == Spec => []SignedWithAuthority
  <1>1. IInv => SignedWithAuthority
    <2> SUFFICES ASSUME IInv, NEW k \in Steps, step[k] = "approved"
                 PROVE  /\ \/ actedAs[k] = StepRole[k]
                           \/ basis[k] = "delegation"
                           \/ (actedAs[k] = "owner_representative" /\ k = StepCount)
                        /\ IsSpend =>
                            /\ actedAs[k] # "technician"
                            /\ actedAs[k] = "building_manager" => Amount =< 25000
                            /\ k = 3 /\ actedAs[k] # "owner_representative" => Amount =< 50000
      BY DEF SignedWithAuthority
    <2>1. /\ basis[k] \in {"role", "delegation", "override"}
          /\ Entitled(actedAs[k], basis[k], k)
      BY DEF IInv, TypeOK, AuthorityInv
    <2>2. Amount \in Nat
      BY ChainAssumption
    <2> QED
      BY <2>1, <2>2 DEF Entitled, MaySpend
  <1> QED
    BY <1>1, InitIInv, NextIInv, PTL DEF Spec
-----------------------------------------------------------------------------
(* Projects and emergency overrides: a second person decides *)

MatterStates ==
    {"none", "pending", "pending_ratification", "approved", "ratified", "rejected", "lapsed"}

MatterTypes ==
    /\ matter \in [Project!Matters -> [status : MatterStates, asked : Signers \cup {"none"},
                                       decided : Signers \cup {"none"}]]
    /\ \A x \in Project!Matters :
           matter[x].status \in {"none", Project!Pending(x), "approved", "ratified", "rejected", "lapsed"}
    /\ seat \in [Seats -> [on : Project!Matters \cup {"none"}, by : Signers \cup {"none"},
                           decision : {"none", "approved", "ratified", "rejected"}]]

\* A decision that is about to be written is of another person than the one who asked, who does
\* not change, and of a matter that has been asked.
DecisionInv ==
    /\ MatterTypes
    /\ Project!DecidedByAnother
    /\ \A s \in Seats : seat[s].on # "none" =>
           /\ matter[seat[s].on].status # "none"
           /\ matter[seat[s].on].asked # seat[s].by
           /\ seat[s].by # "none" /\ seat[s].decision # "none"

LEMMA DecisionStep ==
    ASSUME SignersAreNamed PROVE DecisionInv /\ [Project!Next]_(Project!vars) => DecisionInv'
<1> SUFFICES ASSUME DecisionInv, [Project!Next]_(Project!vars) PROVE DecisionInv'
  OBVIOUS
<1> DEFINE Row == [status : MatterStates, asked : Signers \cup {"none"}, decided : Signers \cup {"none"}]
<1>1. MatterTypes /\ Project!DecidedByAnother
  BY DEF DecisionInv
<1>2. ASSUME NEW x \in Project!Matters, NEW u \in Signers, Project!Ask(x, u) PROVE DecisionInv'
  <2>1. /\ UNCHANGED <<overdue, seat>> /\ matter[x].status = "none"
        /\ matter' = [matter EXCEPT ![x] = [status |-> Project!Pending(x), asked |-> u, decided |-> "none"]]
    BY <1>2 DEF Project!Ask
  <2>2. Project!Pending(x) \in MatterStates
    BY DEF Project!Pending, MatterStates
  <2> QED
    BY <1>1, <2>1, <2>2 DEF DecisionInv, MatterTypes, Project!DecidedByAnother, Project!Pending
<1>3. ASSUME NEW s \in Seats, NEW x \in Project!Matters, NEW u \in Signers,
             NEW d \in {"approved", "ratified", "rejected"}, Project!ReadMatter(s, x, u, d)
      PROVE  DecisionInv'
  BY <1>1, <1>3 DEF DecisionInv, MatterTypes, Project!DecidedByAnother, Project!Pending, Project!ReadMatter,
                    SignersAreNamed
<1>4. ASSUME NEW s \in Seats, Project!Decide(s) PROVE DecisionInv'
  <2> DEFINE x == seat[s].on
             row == [matter[x] EXCEPT !.status = seat[s].decision, !.decided = seat[s].by]
  <2>1. /\ x \in Project!Matters /\ seat[s].by \in Signers /\ matter[x].asked # seat[s].by
        /\ seat[s].decision \in {"approved", "ratified", "rejected"}
    BY <1>1, <1>4 DEF DecisionInv, MatterTypes, Project!Decide
  <2>2. /\ row \in Row /\ row.status = seat[s].decision /\ row.decided = seat[s].by
        /\ row.asked = matter[x].asked
    <3>1. matter[x] \in Row
      BY <1>1, <2>1 DEF MatterTypes
    <3> QED
      BY <2>1, <3>1 DEF MatterStates
  <2>3. /\ matter' = [matter EXCEPT ![x] = row] /\ seat' = [seat EXCEPT ![s] = Project!Vacant]
    BY <1>1, <1>4, <2>1 DEF Project!Decide, MatterTypes
  <2> HIDE DEF x, row
  <2>4. MatterTypes' /\ Project!DecidedByAnother'
    BY <1>1, <2>1, <2>2, <2>3 DEF MatterTypes, Project!DecidedByAnother, Project!Pending, Project!Vacant,
                                  SignersAreNamed
  <2> QED
    BY <1>1, <2>1, <2>2, <2>3, <2>4 DEF DecisionInv, MatterTypes, Project!Vacant
<1>5. CASE Project!MarkLapsed
  <2>1. seat' = seat
        /\ matter' = [x \in Project!Matters |->
              IF x \in overdue /\ matter[x].status = "pending_ratification"
              THEN [status |-> "lapsed", asked |-> matter[x].asked, decided |-> matter[x].decided]
              ELSE matter[x]]
    BY <1>5 DEF Project!MarkLapsed
  <2>2. \A x \in Project!Matters :
            /\ matter'[x].asked = matter[x].asked /\ matter'[x].decided = matter[x].decided
            /\ \/ matter'[x].status = matter[x].status
               \/ matter[x].status = Project!Pending(x) /\ matter'[x].status = "lapsed"
    BY <1>1, <2>1 DEF MatterTypes, Project!Pending
  <2>3. MatterTypes'
    <3>1. matter' \in [Project!Matters -> Row]
      BY <1>1, <2>1 DEF MatterTypes, MatterStates
    <3> QED
      BY <1>1, <2>1, <2>2, <3>1 DEF MatterTypes
  <2> QED
    BY <1>1, <2>1, <2>2, <2>3 DEF DecisionInv, MatterTypes, Project!DecidedByAnother, Project!Pending
<1>6. CASE UNCHANGED <<matter, seat>>
  BY <1>6 DEF DecisionInv, MatterTypes, Project!DecidedByAnother
<1>7. CASE Project!DecisionNext
  <2>1. \A x \in Project!Matters : (IF x \in Overrides THEN {"ratified", "rejected"} ELSE {"approved", "rejected"})
            \subseteq {"approved", "ratified", "rejected"}
    OBVIOUS
  <2>2. ASSUME NEW x \in Overrides, Project!PassWindow(x) PROVE UNCHANGED <<matter, seat>>
    BY <2>2 DEF Project!PassWindow
  <2> QED
    BY <1>2, <1>3, <1>4, <1>5, <1>6, <1>7, <2>1, <2>2 DEF Project!DecisionNext
<1> QED
  BY <1>6, <1>7 DEF Project!Next, Project!vars, Project!decisionVars

\* The invariant holds at first, every step keeps it, and it has what is to hold in it.
LEMMA DecisionInductive ==
    ASSUME SignersAreNamed
    PROVE  /\ Project!DecisionInit => DecisionInv
           /\ DecisionInv /\ [Project!Next]_(Project!vars) => DecisionInv'
           /\ DecisionInv => Project!DecidedByAnother
<1>1. Project!DecisionInit => DecisionInv
  BY DEF Project!Init, Project!DecisionInit, Project!Vacant, DecisionInv, MatterTypes, MatterStates,
         Project!DecidedByAnother
<1>2. DecisionInv => Project!DecidedByAnother
  BY DEF DecisionInv
<1> QED
  BY <1>1, <1>2, DecisionStep

\* projects.service.ts:340-351 and emergency-overrides.service.ts:58-81: whatever calls overlap, a
\* change order or an override has a decider exactly when it is neither pending nor lapsed, and
\* the decider is not who asked.
THEOREM SecondPersonCorrect ==
    ASSUME SignersAreNamed
    PROVE  Project!Spec => []Project!DecidedByAnother
BY DecisionInductive, PTL DEF Project!Spec, Project!Init
-----------------------------------------------------------------------------
(* Takeover: who has signed, and whether the building is open *)

Chain == Handover!SignoffChain

\* What the call of pen p is going to write, or has written
PenHolds(p) ==
    /\ signing[p].log \in Handover!Prefixes
    /\ signing[p].at \in {"idle", "write", "open"}
    /\ signing[p].at = "open" /\ ~lost => takeover.log = Chain

SignoffInv ==
    /\ takeover \in [status : {"none", "draft", "in_signoff", "completed"}, log : Handover!Prefixes,
                     signedOff : BOOLEAN]
    /\ operational \in BOOLEAN /\ lost \in BOOLEAN
    /\ signing \in [Pens -> [at : {"idle", "write", "open"}, log : Handover!Prefixes]]
    /\ \A p \in Pens : PenHolds(p)
    /\ Handover!SignoffFollowsChain

\* A signature in turn makes a longer prefix of one that is not the whole chain.
LEMMA PrefixesGrow ==
    /\ <<>> \in Handover!Prefixes /\ Chain \in Handover!Prefixes /\ <<>> # Chain
    /\ \A log \in Handover!Prefixes :
           /\ Len(log) \in 0 .. 3
           /\ log = Chain <=> Len(log) = 3
           /\ Len(log) < 3 => Append(log, Chain[Len(log) + 1]) \in Handover!Prefixes
    /\ Len(Chain) = 3
<1> DEFINE S == {"building_manager", "chief_engineer", "owner_representative"}
<1>1. Chain \in Seq(S) /\ Len(Chain) = 3 /\ \A i \in 1 .. 3 : Chain[i] \in S
  BY DEF Chain, Handover!SignoffChain
<1> HIDE DEF S
<1>2. ASSUME NEW n \in 0 .. 3
      PROVE  /\ SubSeq(Chain, 1, n) \in Seq(S) /\ Len(SubSeq(Chain, 1, n)) = n
             /\ \A i \in 1 .. n : SubSeq(Chain, 1, n)[i] = Chain[i]
  <2>1. \A i \in 1 .. n : Chain[i] \in S
    BY <1>1, <1>2
  <2>2. n \in Int /\ 1 \in Int
    BY <1>2
  <2>3. /\ SubSeq(Chain, 1, n) \in Seq(S)
        /\ Len(SubSeq(Chain, 1, n)) = IF 1 <= n THEN n - 1 + 1 ELSE 0
        /\ \A i \in 1 .. n - 1 + 1 : SubSeq(Chain, 1, n)[i] = Chain[1 + i - 1]
    BY <2>1, <2>2, SubSeqProperties
  <2> QED
    BY <1>2, <2>3
<1>3. Handover!Prefixes = {SubSeq(Chain, 1, n) : n \in 0 .. 3}
  BY <1>1 DEF Handover!Prefixes, Chain
<1>4. SubSeq(Chain, 1, 3) = Chain
  BY <1>1, SubSeqFull
<1>5. SubSeq(Chain, 1, 0) = <<>>
  BY SubSeqEmpty
<1>6. ASSUME NEW n \in 0 .. 2 PROVE Append(SubSeq(Chain, 1, n), Chain[n + 1]) = SubSeq(Chain, 1, n + 1)
  <2> DEFINE short == SubSeq(Chain, 1, n)
             long == SubSeq(Chain, 1, n + 1)
             grown == Append(short, Chain[n + 1])
  <2>1. /\ short \in Seq(S) /\ Len(short) = n /\ long \in Seq(S) /\ Len(long) = n + 1
        /\ \A i \in 1 .. n : short[i] = Chain[i]
        /\ \A i \in 1 .. n + 1 : long[i] = Chain[i]
    <3>1. n \in 0 .. 3 /\ n + 1 \in 0 .. 3
      BY <1>6
    <3> QED
      BY <1>2, <3>1
  <2>2. Chain[n + 1] \in S
    BY <1>1, <1>6
  <2> HIDE DEF short, long
  <2>3. /\ grown \in Seq(S) /\ Len(grown) = n + 1
        /\ \A i \in 1 .. n + 1 : grown[i] = Chain[i]
    BY <1>6, <2>1, <2>2
  <2> HIDE DEF grown
  <2>4. grown = long
    BY <2>1, <2>3, SeqEqual
  <2> QED
    BY <2>4 DEF grown, short, long
<1>7. ASSUME NEW log \in Handover!Prefixes
      PROVE  /\ Len(log) \in 0 .. 3
             /\ log = Chain <=> Len(log) = 3
             /\ Len(log) < 3 => Append(log, Chain[Len(log) + 1]) \in Handover!Prefixes
  <2>1. PICK n \in 0 .. 3 : log = SubSeq(Chain, 1, n)
    BY <1>3, <1>7
  <2>2. Len(log) = n
    BY <1>2, <2>1
  <2>3. n < 3 => n \in 0 .. 2 /\ n + 1 \in 0 .. 3
    OBVIOUS
  <2> QED
    BY <1>1, <1>3, <1>4, <1>6, <2>1, <2>2, <2>3
<1>8. SubSeq(Chain, 1, 0) \in Handover!Prefixes /\ SubSeq(Chain, 1, 3) \in Handover!Prefixes
  BY <1>3
<1>9. <<>> # Chain
  <2>1. Len(<<>>) # Len(Chain)
    BY <1>1
  <2> QED
    BY <2>1
<1>10. <<>> \in Handover!Prefixes /\ Chain \in Handover!Prefixes
  BY <1>4, <1>5, <1>8
<1>11. \A log \in Handover!Prefixes :
          /\ Len(log) \in 0 .. 3
          /\ log = Chain <=> Len(log) = 3
          /\ Len(log) < 3 => Append(log, Chain[Len(log) + 1]) \in Handover!Prefixes
  BY <1>7
<1> QED
  BY <1>1, <1>9, <1>10, <1>11

LEMMA SignoffStep ==
    ASSUME SignoffInv, [Handover!Next]_Handover!vars
    PROVE  SignoffInv'
<1>1. /\ takeover \in [status : {"none", "draft", "in_signoff", "completed"}, log : Handover!Prefixes,
                       signedOff : BOOLEAN]
      /\ operational \in BOOLEAN /\ lost \in BOOLEAN
      /\ signing \in [Pens -> [at : {"idle", "write", "open"}, log : Handover!Prefixes]]
      /\ \A p \in Pens : PenHolds(p)
      /\ Handover!SignoffFollowsChain
  BY DEF SignoffInv
<1>2. Len(Chain) = 3 /\ <<>> \in Handover!Prefixes
  BY PrefixesGrow
<1>3. CASE Handover!CreateCase
  BY <1>1, <1>3 DEF Handover!CreateCase, SignoffInv, PenHolds, Handover!SignoffFollowsChain
<1>4. ASSUME NEW p \in Pens, NEW title, Handover!ReadToSign(p, title) PROVE SignoffInv'
  <2>1. /\ takeover.log \in Handover!Prefixes /\ Len(takeover.log) < 3
        /\ title = Chain[Len(takeover.log) + 1]
    BY <1>1, <1>2, <1>4 DEF Handover!ReadToSign, Chain
  <2>2. Append(takeover.log, title) \in Handover!Prefixes
    BY <2>1, PrefixesGrow
  <2>3. /\ UNCHANGED <<takeover, operational, lost>>
        /\ signing' = [signing EXCEPT ![p] = [at |-> "write", log |-> Append(takeover.log, title)]]
        /\ signing[p] = Handover!Away
    BY <1>4 DEF Handover!ReadToSign
  <2>4. signing' \in [Pens -> [at : {"idle", "write", "open"}, log : Handover!Prefixes]]
    BY <1>1, <2>2, <2>3
  <2>5. \A q \in Pens : signing[q].at = "open" => signing'[q] = signing[q]
    BY <1>1, <2>3 DEF Handover!Away
  <2>6. \A q \in Pens : signing'[q].at = "open" => signing[q].at = "open"
    BY <1>1, <2>3
  <2>7. \A q \in Pens : PenHolds(q)'
    BY <1>1, <2>3, <2>4, <2>6 DEF PenHolds
  <2>8. Handover!SignoffFollowsChain'
    BY <1>1, <2>3, <2>5 DEF Handover!SignoffFollowsChain
  <2> QED
    BY <1>1, <2>3, <2>4, <2>7, <2>8 DEF SignoffInv
<1>5. ASSUME NEW p \in Pens, Handover!WriteLog(p) PROVE SignoffInv'
  <2> SUFFICES ASSUME NEW log, log = signing[p].log,
                      NEW completed \in BOOLEAN, completed <=> Len(log) = 3
               PROVE  SignoffInv'
    OBVIOUS
  <2>1. log \in Handover!Prefixes /\ (completed <=> log = Chain)
    BY <1>1, <1>5, PrefixesGrow
  <2>2. /\ signing[p].at = "write"
        /\ takeover' = [status |-> IF completed THEN "completed" ELSE "in_signoff", log |-> log,
                        signedOff |-> completed]
        /\ signing' = [signing EXCEPT ![p] = IF completed THEN [@ EXCEPT !.at = "open"] ELSE Handover!Away]
        /\ lost' = (lost \/ Len(log) <= Len(takeover.log))
        /\ operational' = operational
    BY <1>2, <1>5 DEF Handover!WriteLog, Chain
  <2>3. lost' \in BOOLEAN /\ takeover' \in [status : {"none", "draft", "in_signoff", "completed"},
                                            log : Handover!Prefixes, signedOff : BOOLEAN]
    BY <2>1, <2>2
  <2>4. signing' \in [Pens -> [at : {"idle", "write", "open"}, log : Handover!Prefixes]]
    <3>1. /\ [signing[p] EXCEPT !.at = "open"] \in [at : {"idle", "write", "open"}, log : Handover!Prefixes]
          /\ Handover!Away \in [at : {"idle", "write", "open"}, log : Handover!Prefixes]
      BY <1>1, <1>2, <1>5 DEF Handover!Away
    <3> QED
      BY <1>1, <1>5, <2>2, <3>1
  <2>5. takeover.log = Chain => lost'
    <3>1. ASSUME takeover.log = Chain PROVE Len(log) <= Len(takeover.log)
      <4>1. Len(log) \in 0 .. 3
        BY <2>1, PrefixesGrow
      <4>2. Len(takeover.log) = 3
        BY <1>2, <3>1
      <4>3. \A n \in 0 .. 3 : n <= 3
        OBVIOUS
      <4> QED
        BY <4>1, <4>2, <4>3
    <3> QED
      BY <1>1, <2>2, <2>3, <3>1
  <2>6. ~lost' => ~lost /\ takeover.log # Chain /\ ~operational /\ \A q \in Pens : signing[q].at # "open"
    BY <1>1, <2>2, <2>5 DEF PenHolds, Handover!SignoffFollowsChain, Chain
  <2>7. completed => signing'[p].at = "open"
    BY <1>1, <1>5, <2>2
  <2>8. ASSUME NEW q \in Pens, signing'[q].at = "open", ~lost' PROVE takeover'.log = Chain
    <3>1. q = p
      BY <1>1, <1>5, <2>2, <2>6, <2>8
    <3>2. completed
      BY <1>1, <1>5, <2>2, <2>8, <3>1 DEF Handover!Away
    <3> QED
      BY <2>1, <2>2, <3>2
  <2>9. \A q \in Pens : PenHolds(q)'
    BY <2>4, <2>8 DEF PenHolds
  <2>10. Handover!SignoffFollowsChain'
    BY <1>5, <2>1, <2>2, <2>6, <2>7 DEF Handover!SignoffFollowsChain, Chain
  <2> QED
    BY <1>1, <2>2, <2>3, <2>4, <2>9, <2>10 DEF SignoffInv
<1>6. ASSUME NEW p \in Pens, Handover!OpenBuilding(p) PROVE SignoffInv'
  <2>1. /\ signing[p].at = "open" /\ operational' = TRUE
        /\ signing' = [signing EXCEPT ![p] = Handover!Away]
        /\ UNCHANGED <<takeover, lost>>
    BY <1>6 DEF Handover!OpenBuilding
  <2>2. signing' \in [Pens -> [at : {"idle", "write", "open"}, log : Handover!Prefixes]]
    BY <1>1, <1>2, <2>1 DEF Handover!Away
  <2>3. ~lost => takeover.log = Chain
    BY <1>1, <1>6, <2>1 DEF PenHolds
  <2>4. \A q \in Pens : signing'[q].at = "open" => signing[q].at = "open"
    BY <1>1, <2>1 DEF Handover!Away
  <2>5. \A q \in Pens : PenHolds(q)'
    BY <1>1, <2>1, <2>2, <2>4 DEF PenHolds
  <2>6. Handover!SignoffFollowsChain'
    BY <1>1, <2>1, <2>3 DEF Handover!SignoffFollowsChain, Chain
  <2> QED
    BY <1>1, <2>1, <2>2, <2>5, <2>6 DEF SignoffInv
<1>7. ASSUME NEW p \in Pens, Handover!Throw(p) PROVE SignoffInv'
  <2>1. /\ lost' = (lost \/ signing[p].at = "open")
        /\ signing' = [signing EXCEPT ![p] = Handover!Away]
        /\ UNCHANGED <<takeover, operational>>
    BY <1>7 DEF Handover!Throw
  <2>2. signing' \in [Pens -> [at : {"idle", "write", "open"}, log : Handover!Prefixes]]
    BY <1>1, <1>2, <2>1 DEF Handover!Away
  <2>3. \A q \in Pens : signing'[q].at = "open" => signing[q].at = "open"
    BY <1>1, <2>1 DEF Handover!Away
  <2>4. \A q \in Pens : PenHolds(q)'
    BY <1>1, <2>1, <2>2, <2>3 DEF PenHolds
  <2>5. ~lost' => \A q \in Pens : signing[q].at = "open" => signing'[q].at = "open"
    BY <1>1, <2>1
  <2>6. Handover!SignoffFollowsChain'
    BY <1>1, <2>1, <2>5 DEF Handover!SignoffFollowsChain
  <2> QED
    BY <1>1, <2>1, <2>2, <2>4, <2>6 DEF SignoffInv
<1>8. CASE UNCHANGED Handover!signoffVars
  BY <1>1, <1>8 DEF Handover!signoffVars, SignoffInv, PenHolds, Handover!SignoffFollowsChain
<1>9. CASE Handover!SignoffNext
  BY <1>3, <1>4, <1>5, <1>6, <1>7, <1>9 DEF Handover!SignoffNext
<1> QED
  BY <1>8, <1>9 DEF Handover!Next, Handover!vars

\* The invariant holds at first, every step keeps it, and it has what is to hold in it.
LEMMA SignoffInductive ==
    /\ Handover!SignoffInit => SignoffInv
    /\ SignoffInv /\ [Handover!Next]_(Handover!vars) => SignoffInv'
    /\ SignoffInv => Handover!SignoffFollowsChain
<1>1. ASSUME Handover!SignoffInit PROVE SignoffInv
  <2>1. <<>> \in Handover!Prefixes /\ <<>> # Chain
    BY PrefixesGrow
  <2>2. /\ takeover = [status |-> "none", log |-> <<>>, signedOff |-> FALSE]
        /\ operational = FALSE /\ lost = FALSE
        /\ signing = [p \in Pens |-> [at |-> "idle", log |-> <<>>]]
    BY <1>1 DEF Handover!Init, Handover!SignoffInit, Handover!Away
  <2>3. \A p \in Pens : PenHolds(p)
    BY <2>1, <2>2 DEF PenHolds
  <2>4. Handover!SignoffFollowsChain
    BY <2>1, <2>2 DEF Handover!SignoffFollowsChain, Chain
  <2> QED
    BY <2>1, <2>2, <2>3, <2>4 DEF SignoffInv
<1>2. SignoffInv => Handover!SignoffFollowsChain
  BY DEF SignoffInv
<1> QED
  BY <1>1, <1>2, SignoffStep

\* takeover.service.ts:289-313: however many signoffs overlap, the log of a takeover is the chain up
\* to some role, the case is completed exactly when all have signed, and, unless a call wrote
\* over a later log or was cut before its last step, the building is operational exactly when the
\* case is completed and no call has yet to make it so.
THEOREM SignoffCorrect == Handover!Spec => []Handover!SignoffFollowsChain
BY SignoffInductive, PTL DEF Handover!Spec, Handover!Init
-----------------------------------------------------------------------------
(* Projects: the acceptance pack *)

PackRows == [status : {"none", "draft", "submitted", "partially_signed", "accepted", "rejected"},
             requires : SUBSET Papers, signed : [Project!Signatories -> People \cup {"none"}]]
MeetingRows == [op : {"idle", "check", "submit", "sign", "reject"}, by : People \cup {"none"},
                as : Project!Signatories \cup {"none"},
                status : {"none", "submitted", "accepted", "partially_signed", "rejected"},
                keys : SUBSET Papers, stale : BOOLEAN]

PackTypes ==
    /\ pack \in PackRows
    /\ meeting \in [Meetings -> MeetingRows]
    /\ overtaken \in BOOLEAN

AllSigned(row) == \A r \in Project!Required : row.signed[r] # "none"
Distinct(row) ==
    \A r, q \in Project!Signatories : row.signed[r] = row.signed[q] /\ row.signed[r] # "none" => r = q

\* What a call will write was right when it read: the pack is accepted only with the signatures of
\* the others required, and as long as nobody wrote meanwhile, the pack is as the call read it.
CallHolds(call, row) ==
    LET others == \A r \in Project!Required \ {call.as} : row.signed[r] # "none"
    IN /\ call.op = "sign" =>
              /\ call.by \in People /\ call.as \in Project!Signatories
              /\ call.status \in {"accepted", "partially_signed"}
              /\ call.status = "accepted" => others
              /\ ~call.stale => /\ \A r \in Project!Signatories \ {call.as} : row.signed[r] # call.by
                                /\ others => call.status = "accepted"
       /\ call.op \in {"check", "submit"} /\ ~call.stale => row.status = "draft"
       /\ call.op = "reject" /\ ~call.stale => row.status \in Project!Open

PackInv ==
    /\ PackTypes
    /\ pack.status = "accepted" => AllSigned(pack)
    /\ ~overtaken => Distinct(pack) /\ (AllSigned(pack) => pack.status = "accepted")
    /\ \A m \in Meetings : CallHolds(meeting[m], pack)

LEMMA CardinalityOfProjects == \A S : Project!Cardinality(S) = Cardinality(S)
  BY DEF Project!Cardinality, Cardinality

LEMMA AdjournedHolds == Project!Adjourned \in MeetingRows /\ \A row : CallHolds(Project!Adjourned, row)
<1>1. Project!Adjourned.op = "idle"
  BY DEF Project!Adjourned
<1>2. \A row : CallHolds(Project!Adjourned, row)
  BY <1>1 DEF CallHolds
<1>3. Project!Adjourned \in MeetingRows
  BY DEF MeetingRows, Project!Adjourned
<1> QED
  BY <1>2, <1>3

\* A call has read the pack.
LEMMA SitStep ==
    ASSUME PackInv, NEW m \in Meetings, NEW call \in MeetingRows, CallHolds(call, pack), Project!Sit(m, call)
    PROVE  PackInv'
<1>1. meeting' = [meeting EXCEPT ![m] = call] /\ UNCHANGED <<pack, attached, overtaken>>
  BY DEF Project!Sit
<1>2. /\ meeting' \in [Meetings -> MeetingRows] /\ meeting'[m] = call
      /\ \A n \in Meetings \ {m} : meeting'[n] = meeting[n]
  BY <1>1 DEF PackInv, PackTypes
<1>3. \A n \in Meetings : CallHolds(meeting'[n], pack)
  BY <1>2 DEF PackInv
<1>4. /\ pack \in PackRows /\ overtaken \in BOOLEAN
      /\ pack.status = "accepted" => AllSigned(pack)
      /\ ~overtaken => Distinct(pack) /\ (AllSigned(pack) => pack.status = "accepted")
  BY DEF PackInv, PackTypes
<1> QED
  BY <1>1, <1>2, <1>3, <1>4 DEF PackInv, PackTypes

LEMMA ReadToSignStep ==
    ASSUME PackInv, NEW m \in Meetings, NEW by \in People, NEW as \in Project!Signatories,
           "none" \notin People, Project!ReadToSign(m, by, as)
    PROVE  PackInv'
<1>a. PICK stand : stand = IF \A r \in Project!Required : [pack.signed EXCEPT ![as] = by][r] # "none"
                             THEN "accepted" ELSE "partially_signed"
  OBVIOUS
<1>b. PICK next : next = [op |-> "sign", by |-> by, as |-> as, keys |-> {}, stale |-> FALSE, status |-> stand]
  OBVIOUS
<1>1. Project!Sit(m, next) /\ \A r \in Project!Signatories \ {as} : pack.signed[r] # by
  BY <1>a, <1>b DEF Project!ReadToSign, Project!Signing
<1>2. next \in MeetingRows
  BY <1>a, <1>b DEF MeetingRows
<1>3. (stand = "accepted" <=> \A r \in Project!Required \ {as} : pack.signed[r] # "none")
      /\ stand \in {"accepted", "partially_signed"}
  BY <1>a DEF PackInv, PackTypes, PackRows, Project!Required, Project!Signatories
<1>4. CallHolds(next, pack)
  BY <1>1, <1>3, <1>b DEF CallHolds
<1> QED
  BY <1>1, <1>2, <1>4, SitStep

\* A call writes a pack that bears the signatures that were there; unless it is stale, what is
\* to hold of the pack holds of what it writes.
LEMMA ConcludeStep ==
    ASSUME PackInv, NEW m \in Meetings, NEW row \in PackRows, Project!Conclude(m, row),
           \A r \in Project!Signatories : pack.signed[r] # "none" => row.signed[r] # "none",
           row.status = "accepted" => AllSigned(row),
           ~overtaken /\ ~meeting[m].stale =>
               Distinct(row) /\ (AllSigned(row) => row.status = "accepted")
    PROVE  PackInv'
<1>1. /\ pack' = row /\ overtaken' = (overtaken \/ meeting[m].stale)
      /\ meeting' = [n \in Meetings |-> IF n = m \/ meeting[n] = Project!Adjourned THEN Project!Adjourned
                       ELSE [meeting[n] EXCEPT !.stale = @ \/ row.status # pack.status \/ row.signed # pack.signed]]
  BY DEF Project!Conclude
<1>2. \A n \in Meetings : meeting[n] \in MeetingRows /\ meeting[n].stale \in BOOLEAN /\ CallHolds(meeting[n], pack)
  BY DEF PackInv, PackTypes, MeetingRows
<1>3. Project!Required \subseteq Project!Signatories
  BY DEF Project!Required, Project!Signatories
<1>4. ASSUME NEW n \in Meetings PROVE meeting'[n] \in MeetingRows /\ CallHolds(meeting'[n], row)
  <2>1. CASE n = m \/ meeting[n] = Project!Adjourned
    <3>1. meeting'[n] = Project!Adjourned
      BY <1>1, <2>1
    <3> QED
      BY <3>1, AdjournedHolds
  <2>2. CASE ~(n = m \/ meeting[n] = Project!Adjourned)
    <3>1. PICK behind \in BOOLEAN :
              behind = (meeting[n].stale \/ row.status # pack.status \/ row.signed # pack.signed)
      BY <1>2
    <3>2. meeting'[n] = [meeting[n] EXCEPT !.stale = behind]
      BY <1>1, <2>2, <3>1
    <3>3. /\ meeting'[n] \in MeetingRows
          /\ meeting'[n].op = meeting[n].op /\ meeting'[n].by = meeting[n].by
          /\ meeting'[n].as = meeting[n].as /\ meeting'[n].status = meeting[n].status
          /\ meeting'[n].stale = behind
      BY <1>2, <3>1, <3>2 DEF MeetingRows
    <3>4. ~behind => ~meeting[n].stale /\ row.status = pack.status /\ row.signed = pack.signed
      BY <3>1
    <3> QED
      BY <1>2, <1>3, <3>3, <3>4 DEF CallHolds
  <2> QED
    BY <2>1, <2>2
<1>5. meeting' \in [Meetings -> MeetingRows] /\ overtaken' \in BOOLEAN
  BY <1>1, <1>4
<1>6. ~overtaken' => Distinct(row) /\ (AllSigned(row) => row.status = "accepted")
  BY <1>1
<1>7. \A n \in Meetings : CallHolds(meeting'[n], row)
  BY <1>4
<1> QED
  BY <1>1, <1>5, <1>6, <1>7 DEF PackInv, PackTypes

LEMMA SignStep ==
    ASSUME PackInv, NEW m \in Meetings, "none" \notin People, Project!Sign(m)
    PROVE  PackInv'
<1>a. PICK by \in People, as \in Project!Signatories, stand \in {"accepted", "partially_signed"} :
          by = meeting[m].by /\ as = meeting[m].as /\ stand = meeting[m].status
  BY DEF PackInv, CallHolds, Project!Sign
<1>b. PICK row : row = [pack EXCEPT !.status = stand, !.signed[as] = by]
  OBVIOUS
<1>1. Project!Conclude(m, row) /\ meeting[m].op = "sign"
  BY <1>a, <1>b DEF Project!Sign
<1>2. /\ row \in PackRows /\ row.status = stand
      /\ row.signed[as] = by /\ \A r \in Project!Signatories \ {as} : row.signed[r] = pack.signed[r]
  BY <1>b DEF PackInv, PackTypes, PackRows
<1>3. CallHolds(meeting[m], pack) /\ by # "none" /\ Project!Required \subseteq Project!Signatories
  BY DEF PackInv, Project!Required, Project!Signatories
<1>4. \A r \in Project!Signatories : pack.signed[r] # "none" => row.signed[r] # "none"
  BY <1>2, <1>3
<1>5. row.status = "accepted" => AllSigned(row)
  BY <1>1, <1>2, <1>3, <1>a DEF CallHolds, AllSigned
<1>6. ASSUME ~overtaken, ~meeting[m].stale
      PROVE  Distinct(row) /\ (AllSigned(row) => row.status = "accepted")
  <2>1. ASSUME NEW r \in Project!Signatories, NEW q \in Project!Signatories,
               row.signed[r] = row.signed[q], row.signed[r] # "none"
        PROVE  r = q
    BY <1>1, <1>2, <1>3, <1>a, <1>6, <2>1 DEF PackInv, Distinct, CallHolds
  <2>2. AllSigned(row) => row.status = "accepted"
    BY <1>1, <1>2, <1>3, <1>a, <1>6 DEF CallHolds, AllSigned
  <2> QED
    BY <2>1, <2>2 DEF Distinct
<1> QED
  BY <1>1, <1>2, <1>4, <1>5, <1>6, ConcludeStep

\* A submission or a rejection of the pack as it was read finds it not accepted, so it does not
\* bear the three signatures.
LEMMA StatusStep ==
    ASSUME PackInv, NEW m \in Meetings, NEW stand \in {"submitted", "rejected"},
           Project!Conclude(m, [pack EXCEPT !.status = stand]),
           ~meeting[m].stale => pack.status # "accepted"
    PROVE  PackInv'
<1>1. PICK row : row = [pack EXCEPT !.status = stand]
  OBVIOUS
<1>2. row \in PackRows /\ row.status = stand /\ row.signed = pack.signed
  BY <1>1 DEF PackInv, PackTypes, PackRows
<1>3. /\ Distinct(row) = Distinct(pack)
      /\ AllSigned(row) = AllSigned(pack)
  BY <1>2 DEF Distinct, AllSigned
<1>4. ~overtaken /\ ~meeting[m].stale => Distinct(row) /\ ~AllSigned(row)
  BY <1>3 DEF PackInv
<1>5. Project!Conclude(m, row)
  BY <1>1
<1> QED
  BY <1>2, <1>4, <1>5, ConcludeStep

LEMMA SubmitOrRejectStep ==
    ASSUME PackInv, NEW m \in Meetings,
           \/ Project!ReadToSubmit(m) \/ Project!CheckDocuments(m) \/ Project!SubmitAcceptancePack(m)
           \/ Project!ReadToReject(m) \/ Project!RejectAcceptancePack(m)
    PROVE  PackInv'
<1>1. meeting[m] \in MeetingRows /\ CallHolds(meeting[m], pack) /\ pack.requires \in SUBSET Papers
  BY DEF PackInv, PackTypes, PackRows
<1>2. CASE Project!ReadToSubmit(m)
  <2>1. PICK call : call = [op |-> "check", by |-> "none", as |-> "none", status |-> "submitted",
                            keys |-> pack.requires, stale |-> FALSE]
    OBVIOUS
  <2>2. Project!Sit(m, call) /\ pack.status = "draft"
    BY <1>2, <2>1 DEF Project!ReadToSubmit
  <2>3. call \in MeetingRows /\ CallHolds(call, pack)
    BY <1>1, <2>1, <2>2 DEF MeetingRows, CallHolds
  <2> QED
    BY <2>2, <2>3, SitStep
<1>3. CASE Project!ReadToReject(m)
  <2>1. PICK call : call = [op |-> "reject", by |-> "none", as |-> "none", status |-> "rejected",
                            keys |-> {}, stale |-> FALSE]
    OBVIOUS
  <2>2. Project!Sit(m, call) /\ pack.status \in Project!Open
    BY <1>3, <2>1 DEF Project!ReadToReject
  <2>3. call \in MeetingRows /\ CallHolds(call, pack)
    BY <2>1, <2>2 DEF MeetingRows, CallHolds
  <2> QED
    BY <2>2, <2>3, SitStep
<1>4. CASE Project!CheckDocuments(m)
  <2>1. PICK call : call = IF meeting[m].keys \subseteq attached THEN [meeting[m] EXCEPT !.op = "submit"]
                           ELSE Project!Adjourned
    OBVIOUS
  <2>2. /\ meeting[m].op = "check" /\ UNCHANGED <<pack, attached, overtaken>>
        /\ meeting' = [meeting EXCEPT ![m] = call]
    BY <1>4, <2>1 DEF Project!CheckDocuments
  <2>3. call \in MeetingRows /\ CallHolds(call, pack)
    <3>1. PICK go : go = [meeting[m] EXCEPT !.op = "submit"]
      OBVIOUS
    <3>2. go \in MeetingRows /\ go.op = "submit" /\ go.stale = meeting[m].stale
      BY <1>1, <3>1 DEF MeetingRows
    <3>3. CallHolds(go, pack)
      BY <1>1, <2>2, <3>2 DEF CallHolds
    <3> QED
      BY <2>1, <3>1, <3>2, <3>3, AdjournedHolds
  <2>4. /\ meeting' \in [Meetings -> MeetingRows] /\ meeting'[m] = call
        /\ \A n \in Meetings \ {m} : meeting'[n] = meeting[n]
    BY <2>2, <2>3 DEF PackInv, PackTypes
  <2>5. \A n \in Meetings : CallHolds(meeting'[n], pack)
    BY <2>3, <2>4 DEF PackInv
  <2>6. /\ pack \in PackRows /\ overtaken \in BOOLEAN
        /\ pack.status = "accepted" => AllSigned(pack)
        /\ ~overtaken => Distinct(pack) /\ (AllSigned(pack) => pack.status = "accepted")
    BY DEF PackInv, PackTypes
  <2> QED
    BY <2>2, <2>4, <2>5, <2>6 DEF PackInv, PackTypes
<1>5. CASE Project!SubmitAcceptancePack(m)
  <2>1. meeting[m].op = "submit" /\ Project!Conclude(m, [pack EXCEPT !.status = "submitted"])
    BY <1>5 DEF Project!SubmitAcceptancePack
  <2>2. ~meeting[m].stale => pack.status # "accepted"
    BY <1>1, <2>1 DEF CallHolds
  <2> QED
    BY <2>1, <2>2, StatusStep
<1>6. CASE Project!RejectAcceptancePack(m)
  <2>1. meeting[m].op = "reject" /\ Project!Conclude(m, [pack EXCEPT !.status = "rejected"])
    BY <1>6 DEF Project!RejectAcceptancePack
  <2>2. ~meeting[m].stale => pack.status # "accepted"
    BY <1>1, <2>1 DEF CallHolds, Project!Open
  <2> QED
    BY <2>1, <2>2, StatusStep
<1> QED
  BY <1>2, <1>3, <1>4, <1>5, <1>6

\* The invariant holds at first, every step keeps it, and it has what is to hold in it.
LEMMA PackInductive ==
    ASSUME "none" \notin People
    PROVE  /\ Project!PackInit => PackInv
           /\ PackInv /\ [Project!Next]_(Project!vars) => PackInv'
           /\ PackInv => Project!AcceptedByThree
<1>1. ASSUME Project!PackInit PROVE PackInv
  <2>1. /\ pack = [status |-> "none", requires |-> {}, signed |-> Project!Nobody] /\ overtaken = FALSE
        /\ meeting = [m \in Meetings |-> Project!Adjourned]
    BY <1>1 DEF Project!Init, Project!PackInit, Project!NoPack
  <2>2. /\ Project!Nobody \in [Project!Signatories -> People \cup {"none"}]
        /\ \A r \in Project!Signatories : Project!Nobody[r] = "none"
    BY DEF Project!Nobody
  <2>3. "manager" \in Project!Required /\ Project!Required \subseteq Project!Signatories
    BY DEF Project!Required, Project!Signatories
  <2>4. meeting \in [Meetings -> MeetingRows] /\ \A m \in Meetings : CallHolds(meeting[m], pack)
    BY <2>1, AdjournedHolds
  <2>5. PackTypes
    BY <2>1, <2>2, <2>4 DEF PackTypes, PackRows
  <2>6. ~AllSigned(pack) /\ Distinct(pack)
    BY <2>1, <2>2, <2>3 DEF AllSigned, Distinct
  <2> QED
    BY <2>1, <2>4, <2>5, <2>6 DEF PackInv
<1>2. ASSUME PackInv, [Project!Next]_Project!vars PROVE PackInv'
  <2> USE <1>2
  <2>1. ASSUME NEW m \in Meetings, NEW p \in People, NEW r \in Project!Signatories, Project!ReadToSign(m, p, r)
        PROVE  PackInv'
    BY <2>1, ReadToSignStep
  <2>2. ASSUME NEW m \in Meetings, Project!Sign(m) PROVE PackInv'
    BY <2>2, SignStep
  <2>3. ASSUME NEW row \in PackRows, pack' = row, row.signed = pack.signed, UNCHANGED <<meeting, overtaken>>,
               row.status = pack.status \/ (pack.status = "none" /\ row.status = "draft")
        PROVE  PackInv'
    <3>1. AllSigned(row) = AllSigned(pack) /\ Distinct(row) = Distinct(pack)
      BY <2>3 DEF AllSigned, Distinct
    <3>2. ASSUME NEW n \in Meetings PROVE CallHolds(meeting[n], row)
      <4>1. CallHolds(meeting[n], pack)
        BY DEF PackInv
      <4> QED
        BY <2>3, <4>1 DEF CallHolds, Project!Open
    <3>3. /\ meeting' \in [Meetings -> MeetingRows] /\ overtaken' \in BOOLEAN
          /\ row.status = "accepted" => AllSigned(row)
          /\ ~overtaken' => Distinct(row) /\ (AllSigned(row) => row.status = "accepted")
      BY <2>3, <3>1 DEF PackInv, PackTypes
    <3> QED
      BY <2>3, <3>2, <3>3 DEF PackInv, PackTypes
  <2>4. ASSUME NEW keys \in SUBSET Papers, Project!UpsertAcceptancePack(keys) PROVE PackInv'
    <3>1. PICK row : row = [pack EXCEPT !.requires = keys, !.status = IF @ = "none" THEN "draft" ELSE @]
      OBVIOUS
    <3>2. pack' = row /\ UNCHANGED <<meeting, overtaken>>
      BY <2>4, <3>1 DEF Project!UpsertAcceptancePack
    <3>3. /\ row \in PackRows /\ row.signed = pack.signed
          /\ row.status = IF pack.status = "none" THEN "draft" ELSE pack.status
      BY <3>1 DEF PackInv, PackTypes, PackRows
    <3> QED
      BY <2>3, <3>2, <3>3
  <2>5. pack \in PackRows
    BY DEF PackInv, PackTypes
  <2>6. ASSUME NEW k \in Papers, Project!AttachDocument(k) \/ Project!DetachDocument(k) PROVE PackInv'
    <3>1. UNCHANGED <<pack, meeting, overtaken>>
      BY <2>6 DEF Project!AttachDocument, Project!DetachDocument
    <3> QED
      BY <2>3, <2>5, <3>1
  <2>7. CASE UNCHANGED Project!packVars
    BY <2>3, <2>5, <2>7 DEF Project!packVars
  <2> QED
    BY <2>1, <2>2, <2>4, <2>6, <2>7, SubmitOrRejectStep DEF Project!Next, Project!PackNext, Project!vars
<1>3. ASSUME PackInv PROVE Project!AcceptedByThree
  <2>a. PICK filled : filled = {r \in Project!Signatories : pack.signed[r] # "none"}
    OBVIOUS
  <2>b. PICK signers : signers = {pack.signed[r] : r \in Project!Signatories} \ {"none"}
    OBVIOUS
  <2>1. ASSUME ~overtaken PROVE Cardinality(signers) = Cardinality(filled)
    <3> DEFINE Signature == [r \in filled |-> pack.signed[r]]
    <3>1. IsFiniteSet(Project!Signatories)
      <4>1. IsFiniteSet({"contractor"}) /\ IsFiniteSet({"manager"}) /\ IsFiniteSet({"chief_engineer"})
            /\ IsFiniteSet({"owner"})
        BY FS_Singleton
      <4>2. IsFiniteSet({"contractor"} \cup {"manager"}) /\ IsFiniteSet({"chief_engineer"} \cup {"owner"})
        BY <4>1, FS_Union
      <4>3. IsFiniteSet(({"contractor"} \cup {"manager"}) \cup ({"chief_engineer"} \cup {"owner"}))
        BY <4>2, FS_Union
      <4>4. Project!Signatories = ({"contractor"} \cup {"manager"}) \cup ({"chief_engineer"} \cup {"owner"})
        BY DEF Project!Signatories
      <4> QED
        BY <4>3, <4>4
    <3>2. IsFiniteSet(filled)
      BY <2>a, <3>1, FS_Subset
    <3>3. Signature \in Surjection(filled, signers)
      BY <2>a, <2>b DEF Surjection
    <3>4. Signature \in Injection(filled, signers)
      BY <1>3, <2>1, <2>a, <2>b DEF Injection, IsInjective, PackInv, Distinct
    <3> QED
      BY <3>2, <3>3, <3>4, FS_Surjection
  <2> QED
    BY <1>3, <2>1, <2>a, <2>b, CardinalityOfProjects DEF PackInv, AllSigned, Project!AcceptedByThree
<1> QED
  BY <1>1, <1>2, <1>3

\* projects.service.ts:390-520: for any number of submissions, signatures and rejections that overlap,
\* an accepted pack bears the three required signatures; as long as none wrote on a pack that another
\* had changed since it read, they are of different users, and a pack that bears them is accepted.
THEOREM AcceptanceCorrect ==
    ASSUME "none" \notin People
    PROVE  Project!Spec => []Project!AcceptedByThree
BY PackInductive, PTL DEF Project!Spec, Project!Init
-----------------------------------------------------------------------------
(* Takeover: when signing off is advised *)

ReadinessInv == IsFiniteSet(linked)

LEMMA CardinalityOfTakeover == \A S : Handover!Cardinality(S) = Cardinality(S)
  BY DEF Handover!Cardinality, Cardinality

LEMMA Quotients ==
    ASSUME NEW a \in Int, NEW n \in Nat \ {0}
    PROVE  /\ a \div n \in Int
           /\ n * (a \div n) <= a
           /\ a < n * (a \div n) + n
  OBVIOUS

\* A percentage is at most 100 and negative only when its part is; how much of the whole it stands for
LEMMA Percentages ==
    ASSUME NEW part \in Int, NEW whole \in Nat, part <= whole
    PROVE  /\ Handover!Pct(part, whole) \in Int
           /\ Handover!Pct(part, whole) <= 100
           /\ part >= 0 => Handover!Pct(part, whole) >= 0
           /\ part >= 0 /\ Handover!Pct(part, whole) >= 37 => 3 * part >= whole
           /\ part >= 0 /\ Handover!Pct(part, whole) >= 99 => 200 * part >= 197 * whole
           /\ part = 0 /\ whole # 0 => Handover!Pct(part, whole) = 0
<1>1. CASE whole = 0
  BY <1>1 DEF Handover!Pct
<1>2. CASE whole # 0
  <2>1. PICK q : q = (200 * part + whole) \div (2 * whole)
    OBVIOUS
  <2>2. Handover!Pct(part, whole) = q
    BY <1>2, <2>1 DEF Handover!Pct
  <2>3. 200 * part + whole \in Int /\ 2 * whole \in Nat \ {0}
    BY <1>2
  <2>4. q \in Int /\ (2 * whole) * q <= 200 * part + whole /\ 200 * part + whole < (2 * whole) * q + 2 * whole
    BY <2>1, <2>3, Quotients
  <2>5. \A k \in Int : q >= k => (2 * whole) * k <= (2 * whole) * q
    BY <2>3, <2>4
  <2>6. \A k \in Int : q <= k => (2 * whole) * q <= (2 * whole) * k
    BY <2>3, <2>4
  <2>7. q <= 100
    <3>1. q >= 101 => (2 * whole) * 101 <= (2 * whole) * q
      BY <2>5
    <3> QED
      BY <3>1, <2>3, <2>4, <1>2
  <2>8. part >= 0 => q >= 0
    <3>1. q <= -1 => (2 * whole) * q <= (2 * whole) * (-1)
      BY <2>6
    <3> QED
      BY <3>1, <2>3, <2>4, <1>2
  <2>9. q >= 37 => 3 * part >= whole
    <3>1. q >= 37 => (2 * whole) * 37 <= (2 * whole) * q
      BY <2>5
    <3> QED
      BY <3>1, <2>3, <2>4, <1>2
  <2>10. q >= 99 => 200 * part >= 197 * whole
    <3>1. q >= 99 => (2 * whole) * 99 <= (2 * whole) * q
      BY <2>5
    <3> QED
      BY <3>1, <2>3, <2>4, <1>2
  <2>11. part = 0 => q = 0
    <3>1. q >= 1 => (2 * whole) * 1 <= (2 * whole) * q
      BY <2>5
    <3> QED
      BY <3>1, <2>3, <2>4, <1>2, <2>8
  <2> QED
    BY <1>2, <2>2, <2>4, <2>7, <2>8, <2>9, <2>10, <2>11
<1> QED
  BY <1>1, <1>2

\* What the score says of the four percentages it blends
LEMMA Blends ==
    ASSUME NEW docs \in Int, NEW time \in Int, NEW evidence \in Int, NEW qual \in Int,
           docs <= 100, time <= 100, evidence <= 100, qual <= 100
    PROVE  LET score == Handover!Blend(docs, time, evidence, qual) IN
           /\ score <= 100
           /\ docs >= 0 /\ time >= 0 /\ evidence >= 0 /\ qual >= 0 => score >= 0
           /\ score >= 75 => docs >= 37 /\ (time = 0 => docs >= 99 /\ qual > 0)
<1>1. PICK sum \in Int : sum = 40 * docs + 25 * time + 20 * evidence + 15 * qual + 50
  OBVIOUS
<1>2. Handover!Blend(docs, time, evidence, qual) = sum \div 100
  BY <1>1 DEF Handover!Blend
<1>3. sum \div 100 \in Int /\ 100 * (sum \div 100) <= sum /\ sum < 100 * (sum \div 100) + 100
  BY Quotients
<1> QED
  BY <1>1, <1>2, <1>3

LEMMA ReadinessInductive ==
    ASSUME ChoresAreFew
    PROVE  /\ Handover!ReadinessInit => ReadinessInv
           /\ ReadinessInv /\ [Handover!Next]_(Handover!vars) => ReadinessInv'
           /\ ReadinessInv => Handover!SignoffIsDeserved
<1>1. Handover!ReadinessInit => ReadinessInv
  BY FS_EmptySet DEF Handover!ReadinessInit, ReadinessInv
<1>2. ASSUME ReadinessInv, [Handover!Next]_(Handover!vars) PROVE ReadinessInv'
  <2>1. \A o : IsFiniteSet(linked \cup {o})
    BY <1>2, FS_AddElement DEF ReadinessInv
  <2>2. linked' = linked \/ \E o \in Statutory : linked' = linked \cup {o}
    BY <1>2 DEF Handover!Next, Handover!vars, Handover!readinessVars, Handover!ReadinessNext, Handover!Work,
                Handover!LinkObligation, Handover!FileDocument, Handover!Certify, Handover!Measure
  <2> QED
    BY <1>2, <2>1, <2>2 DEF ReadinessInv
<1>3. ASSUME ReadinessInv PROVE Handover!SignoffIsDeserved
  <2>a. PICK docs, time, evidence, qual : /\ docs = Handover!DocsPct /\ time = Handover!OverduePct
                                          /\ evidence = Handover!EvidencePct /\ qual = Handover!QualPct
    OBVIOUS
  <2>1. \A S, T : IsFiniteSet(T) /\ S \subseteq T =>
            /\ Cardinality(S) \in Nat /\ Cardinality(T) \in Nat /\ Cardinality(S) <= Cardinality(T)
    BY FS_Subset, FS_CardinalityType
  <2>2. /\ docs \in Int /\ docs <= 100 /\ docs >= 0
        /\ docs >= 37 => 3 * Cardinality(linked \cap filed) >= Cardinality(linked)
        /\ docs >= 99 => 200 * Cardinality(linked \cap filed) >= 197 * Cardinality(linked)
    <3>1. PICK part, whole : part = Cardinality(linked \cap filed) /\ whole = Cardinality(linked)
      OBVIOUS
    <3>2. part \in Nat /\ whole \in Nat /\ part <= whole
      BY <1>3, <2>1, <3>1 DEF ReadinessInv
    <3>3. docs = Handover!Pct(part, whole)
      BY <2>a, <3>1, CardinalityOfTakeover DEF Handover!DocsPct
    <3>4. /\ docs \in Int /\ docs <= 100 /\ docs >= 0
          /\ docs >= 37 => 3 * part >= whole
          /\ docs >= 99 => 200 * part >= 197 * whole
      <4>1. part \in Int /\ part >= 0
        BY <3>2
      <4> HIDE <1>3
      <4>2. /\ Handover!Pct(part, whole) \in Int
            /\ Handover!Pct(part, whole) <= 100
            /\ part >= 0 => Handover!Pct(part, whole) >= 0
            /\ part >= 0 /\ Handover!Pct(part, whole) >= 37 => 3 * part >= whole
            /\ part >= 0 /\ Handover!Pct(part, whole) >= 99 => 200 * part >= 197 * whole
        BY <3>2, <4>1, Percentages
      <4> QED
        BY <3>3, <4>1, <4>2
    <3> QED
      BY <3>1, <3>4
  <2>3. /\ time \in Int /\ time <= 100 /\ time >= 0
        /\ Chores # {} /\ Handover!Late = Chores => time = 0
    <3>1. PICK part, whole : part = Cardinality(Chores) - Cardinality(Handover!Late) /\ whole = Cardinality(Chores)
      OBVIOUS
    <3>2. /\ Cardinality(Handover!Late) \in Nat /\ whole \in Nat /\ Cardinality(Handover!Late) <= whole
          /\ Chores # {} => whole # 0
      BY <2>1, <3>1, FS_EmptySet DEF ChoresAreFew, Handover!Late
    <3>3. part \in Nat /\ part <= whole /\ (Handover!Late = Chores => part = 0)
      BY <3>1, <3>2
    <3>4. time = Handover!Pct(part, whole)
      BY <2>a, <3>1, CardinalityOfTakeover DEF Handover!OverduePct
    <3> QED
      BY <3>2, <3>3, <3>4, Percentages
  <2>4. /\ evidence \in Int /\ evidence <= 100
        /\ evidence < 0 => Cardinality(Handover!MissingEvidence) > Cardinality(Handover!Closed)
    <3>1. PICK missing, whole : missing = Cardinality(Handover!MissingEvidence) /\ whole = Cardinality(Handover!Closed)
      OBVIOUS
    <3>2. missing \in Nat /\ whole \in Nat
      BY <2>1, <3>1 DEF ChoresAreFew, Handover!MissingEvidence, Handover!Closed
    <3>3. PICK part \in Int : part = whole - missing
      BY <3>2
    <3>4. evidence = Handover!Pct(part, whole)
      BY <2>a, <3>1, <3>3, CardinalityOfTakeover DEF Handover!EvidencePct
    <3>5. evidence \in Int /\ evidence <= 100 /\ (part >= 0 => evidence >= 0)
      BY <3>2, <3>3, <3>4, Percentages
    <3> QED
      BY <3>1, <3>2, <3>3, <3>5
  <2>5. /\ qual \in Int /\ qual <= 100 /\ qual >= 0
        /\ Certified # {} /\ ~qualified => qual = 0
    <3>1. PICK part, whole : /\ part = Cardinality(Certified) - Cardinality(Handover!QualificationGaps)
                             /\ whole = Cardinality(Certified)
      OBVIOUS
    <3>2. /\ Cardinality(Handover!QualificationGaps) \in Nat /\ whole \in Nat
          /\ Cardinality(Handover!QualificationGaps) <= whole
          /\ Certified # {} => whole # 0
      BY <2>1, <3>1, FS_EmptySet DEF ChoresAreFew, Handover!QualificationGaps
    <3>3. ~qualified => Handover!QualificationGaps = Certified
      BY DEF Handover!QualificationGaps
    <3>4. part \in Nat /\ part <= whole /\ (~qualified => part = 0)
      BY <3>1, <3>2, <3>3
    <3>5. qual = Handover!Pct(part, whole)
      BY <2>a, <3>1, CardinalityOfTakeover DEF Handover!QualPct
    <3> QED
      BY <3>2, <3>4, <3>5, Percentages
  <2>6. PICK score : score = Handover!Blend(docs, time, evidence, qual)
    OBVIOUS
  <2>7. /\ score <= 100
        /\ evidence >= 0 => score >= 0
        /\ score >= 75 => docs >= 37 /\ (time = 0 => docs >= 99 /\ qual > 0)
    BY <2>2, <2>3, <2>4, <2>5, <2>6, Blends
  <2>8. Handover!Score = score
    BY <2>a, <2>6 DEF Handover!Score
  <2>9. score < 0 => Cardinality(Handover!MissingEvidence) > Cardinality(Handover!Closed)
    <3>1. score \in Int
      BY <2>2, <2>3, <2>4, <2>5, <2>6, Quotients DEF Handover!Blend
    <3> QED
      BY <2>4, <2>7, <3>1
  <2>10. ASSUME Handover!CanSignoff
         PROVE  /\ \A o \in Statutory : Handover!Applicable(o) => o \in linked
                /\ 3 * Cardinality(linked \cap filed) >= Cardinality(linked)
                /\ Chores # {} /\ Handover!Late = Chores =>
                       /\ 200 * Cardinality(linked \cap filed) >= 197 * Cardinality(linked)
                       /\ Certified = {} \/ qualified
    <3>1. score >= 75 /\ Handover!MissingStatutory = {}
      BY <2>8, <2>10 DEF Handover!CanSignoff
    <3>2. \A o \in Statutory : Handover!Applicable(o) => o \in linked
      BY <3>1 DEF Handover!MissingStatutory
    <3>3. docs >= 37 /\ (time = 0 => docs >= 99 /\ qual > 0)
      BY <2>7, <3>1
    <3> QED
      BY <2>2, <2>3, <2>5, <3>2, <3>3
  <2> QED
    BY <2>7, <2>8, <2>9, <2>10, CardinalityOfTakeover DEF Handover!SignoffIsDeserved
<1> QED
  BY <1>1, <1>2, <1>3

\* takeover.service.ts:156-281: for any tasks, obligations and floors, however they move, the score is at most
\* 100 and signing off is advised of a building only when it deserves it.
THEOREM ReadinessCorrect ==
    ASSUME ChoresAreFew
    PROVE  Handover!Spec => []Handover!SignoffIsDeserved
BY ReadinessInductive, PTL DEF Handover!Spec, Handover!Init
-----------------------------------------------------------------------------
(* Operations: the parts together *)

\* A step of the operations is one of the part in focus.
LEMMA OperationSteps ==
    ASSUME [MCNext]_mcVars
    PROVE  /\ focus' = focus
           /\ focus = "accept" => [Project!Next]_(Project!vars)
           /\ focus = "second" => [Project!Next]_(Project!vars)
           /\ focus = "handover" => [Handover!Next]_(Handover!vars)
           /\ focus = "readiness" => [Handover!Next]_(Handover!vars)
<1>1. CASE UNCHANGED mcVars
  BY <1>1 DEF mcVars, acceptVars, secondVars, bookVars, handoverVars, readyVars, Project!vars, Project!bookVars,
         Project!packVars, Project!decisionVars, Handover!vars, Handover!signoffVars, Handover!readinessVars
<1>2. CASE MCNext
  <2>1. focus' = focus
    BY <1>2 DEF MCNext
  <2>2. focus = "accept" => Project!Next
    <3>1. focus = "accept" => Project!PackNext /\ UNCHANGED <<bookVars, secondVars>>
      BY <1>2 DEF MCNext
    <3> QED
      BY <3>1 DEF bookVars, secondVars, Project!bookVars, Project!decisionVars, Project!Next
  <2>3. focus = "second" => Project!Next
    <3>1. focus = "second" => Project!DecisionNext /\ UNCHANGED <<bookVars, acceptVars>>
      BY <1>2 DEF MCNext
    <3> QED
      BY <3>1 DEF bookVars, acceptVars, Project!bookVars, Project!packVars, Project!Next
  <2>4. focus = "handover" => Handover!Next
    <3>1. focus = "handover" => Handover!SignoffNext /\ UNCHANGED readyVars
      BY <1>2 DEF MCNext
    <3> QED
      BY <3>1 DEF readyVars, Handover!readinessVars, Handover!Next
  <2>5. focus = "readiness" => Handover!Next
    <3>1. focus = "readiness" => Handover!ReadinessNext /\ UNCHANGED handoverVars
      BY <1>2 DEF MCNext
    <3> QED
      BY <3>1 DEF handoverVars, Handover!signoffVars, Handover!Next
  <2> QED
    BY <2>1, <2>2, <2>3, <2>4, <2>5
<1> QED
  BY <1>1, <1>2

\* projects.service.ts:305-365 and :435-501, emergency-overrides.service.ts:49-81, takeover.service.ts:156-332, in
\* the operations: for any number of people, calls and rows an accepted pack has three signatures, of three
\* people as long as no call wrote over another, who decides is another than who asked, the log of a hand-over follows its order, and
\* signing off is advised of a building that deserves it.
THEOREM OperationsSigned == MCSpec => []SignaturesHold
<1> DEFINE Inv ==
             /\ focus = "accept" => PackInv
             /\ focus = "second" => DecisionInv
             /\ focus = "handover" => SignoffInv
             /\ focus = "readiness" => ReadinessInv
<1>a. SignersAreNamed /\ "none" \notin People /\ ChoresAreFew
  BY OperationsAssumption
<1>1. MCInit => Inv
  BY <1>a, PackInductive, DecisionInductive, SignoffInductive, ReadinessInductive DEF MCInit
<1>2. Inv /\ [MCNext]_mcVars => Inv'
  BY <1>a, PackInductive, DecisionInductive, SignoffInductive, ReadinessInductive, OperationSteps
<1>3. Inv => SignaturesHold
  BY <1>a, PackInductive, DecisionInductive, SignoffInductive, ReadinessInductive DEF SignaturesHold
<1> QED
  BY <1>1, <1>2, <1>3, PTL DEF MCSpec
=============================================================================
