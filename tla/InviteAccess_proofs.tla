------------------------ MODULE InviteAccess_proofs ------------------------
(***************************************************************************)
(* Proofs about who is let in.                                             *)
(*                                                                         *)
(* InviteAccess, for any number of calls, roles, invites, events and       *)
(* faults; then the services around it, each by itself and as parts of     *)
(* MCEstate: what an erasure leaves, how one signs in, and what a request  *)
(* is let in on.                                                           *)
(***************************************************************************)
EXTENDS InviteAccess, MCEstate, FiniteSetTheorems, Sequences, SequenceTheorems, TLAPS

\* A call past its first check has found the invite it writes, and only an
\* acceptance publishes.
CallsBacked ==
    \A s \in Slots :
        /\ calls[s].op \in {"revoke", "expire", "accept"} => calls[s].invite \in Invites
        /\ calls[s].at = "publish" => calls[s].op = "accept"

\* The subscriber handles an event that exists; past the insert the membership
\* is there, and before the mark it is there or an error was caught.
HandlerInv ==
    /\ handler # "idle" => current \in Events
    /\ handler = "enrich" => Role(current) \in members
    /\ handler = "mark" => Role(current) \in members \/ current \in swallowed

IInv == TypeOK /\ CallsBacked /\ HandlerInv /\ DeliveredMeansMember

LEMMA InitIInv == Init => IInv
  <1> SUFFICES ASSUME Init PROVE IInv
    OBVIOUS
  <1>1. \A e \in Events : FALSE
    <2>1. \A e \in Rows : delivery[e] = "none"
      BY DEF Init
    <2> QED
      BY <2>1 DEF Events
  <1> USE InviteAssumption DEF Init, NoCall
  <1>2. TypeOK
    <2>1. calls \in [Slots -> [op : {"none", "create", "revoke", "expire", "accept"},
                              invite : Invites \cup {0},
                              at : {"idle", "write", "publish"}]]
      OBVIOUS
    <2>2. /\ status \in [Invites -> {"none", "pending", "accepted", "revoked", "expired"}]
          /\ subject \in [Rows -> Invites \cup {0}]
          /\ delivery \in [Rows -> {"none", "pending", "delivered"}]
      OBVIOUS
    <2>3. faults \in 0 .. MaxFaults
      OBVIOUS
    <2> QED
      BY <1>1, <2>1, <2>2, <2>3 DEF TypeOK
  <1>3. CallsBacked
    BY DEF CallsBacked
  <1>4. HandlerInv /\ DeliveredMeansMember
    BY <1>1 DEF HandlerInv, DeliveredMeansMember
  <1> QED
    BY <1>2, <1>3, <1>4 DEF IInv

LEMMA NextIInv == IInv /\ [Next]_vars => IInv'
  <1> SUFFICES ASSUME IInv, [Next]_vars PROVE IInv'
    OBVIOUS
  <1> USE InviteAssumption DEF Events, Role, inviteVars, eventVars, apiVars, iamVars
  <1>1. ASSUME NEW s \in Slots, Create(s) \/ WriteInvite(s) PROVE IInv'
    <2> USE <1>1 DEF Create, WriteInvite, Call, Return, NoCall
    <2>1. TypeOK'
      <3>1. CASE Create(s)
        BY <3>1 DEF IInv, TypeOK
      <3>2. CASE WriteInvite(s)
        BY <3>2 DEF IInv, TypeOK
      <3> QED
        BY <3>1, <3>2
    <2>2. CallsBacked'
      BY DEF IInv, TypeOK, CallsBacked
    <2>3. HandlerInv' /\ DeliveredMeansMember'
      BY DEF IInv, TypeOK, HandlerInv, DeliveredMeansMember
    <2> QED
      BY <2>1, <2>2, <2>3 DEF IInv
  <1>2. ASSUME NEW s \in Slots, NEW i \in Invites, Revoke(s, i) \/ Accept(s, i) PROVE IInv'
    <2> USE <1>2 DEF Revoke, Accept, Call
    <2>1. TypeOK'
      BY DEF IInv, TypeOK
    <2>2. CallsBacked'
      BY DEF IInv, TypeOK, CallsBacked
    <2>3. HandlerInv' /\ DeliveredMeansMember'
      BY DEF IInv, TypeOK, HandlerInv, DeliveredMeansMember
    <2> QED
      BY <2>1, <2>2, <2>3 DEF IInv
  <1>3. ASSUME NEW s \in Slots, WriteStatus(s) \/ CallThrows(s) PROVE IInv'
    <2> USE <1>3 DEF WriteStatus, CallThrows, StatusOf, GoTo, Return, NoCall, Fault
    <2>1. TypeOK'
      BY DEF IInv, TypeOK, CallsBacked
    <2>2. CallsBacked'
      BY DEF IInv, TypeOK, CallsBacked
    <2>3. HandlerInv' /\ DeliveredMeansMember'
      BY DEF IInv, TypeOK, CallsBacked, HandlerInv, DeliveredMeansMember
    <2> QED
      BY <2>1, <2>2, <2>3 DEF IInv
  <1>4. ASSUME NEW s \in Slots, Publish(s) PROVE IInv'
    <2> USE <1>4 DEF Publish, Return, NoCall
    <2>1. TypeOK'
      BY DEF IInv, TypeOK, CallsBacked
    <2>2. CallsBacked'
      BY DEF IInv, TypeOK, CallsBacked
    <2>3. HandlerInv' /\ DeliveredMeansMember'
      BY DEF IInv, TypeOK, HandlerInv, DeliveredMeansMember
    <2> QED
      BY <2>1, <2>2, <2>3 DEF IInv
  <1>5. ASSUME NEW i \in Invites, Age(i) PROVE IInv'
    <2> USE <1>5 DEF Age
    <2>1. TypeOK'
      BY DEF IInv, TypeOK
    <2>2. CallsBacked' /\ HandlerInv' /\ DeliveredMeansMember'
      BY DEF IInv, TypeOK, CallsBacked, HandlerInv, DeliveredMeansMember
    <2> QED
      BY <2>1, <2>2 DEF IInv
  <1>6. ASSUME MarkDelivered PROVE IInv'
    <2> USE <1>6 DEF MarkDelivered, Handling
    <2>1. current \in Events
      BY DEF IInv, HandlerInv
    <2>2. TypeOK'
      <3>1. Events' = Events
        BY <2>1 DEF IInv, TypeOK
      <3>2. delivery' \in [Rows -> {"none", "pending", "delivered"}]
        BY DEF IInv, TypeOK
      <3> QED
        BY <3>1, <3>2 DEF IInv, TypeOK
    <2>3. CallsBacked' /\ HandlerInv' /\ DeliveredMeansMember'
      BY <2>1 DEF IInv, TypeOK, CallsBacked, HandlerInv, DeliveredMeansMember
    <2> QED
      BY <2>2, <2>3 DEF IInv
  <1>7. ASSUME (Handle /\ ~MarkDelivered) \/ HandlerThrows \/ Crash \/ OthersCreateUser
        PROVE IInv'
    <2> USE <1>7 DEF Handle, Handling, Take, FindUser, CreateUser, FindMembership,
                     CreateMembership, Enrich, HandlerThrows, Crash, OthersCreateUser, Swallow,
                     Fault
    <2>1. UNCHANGED <<apiVars, eventVars>>
      OBVIOUS
    <2>2. TypeOK'
      <3>1. Events' = Events
        BY <2>1
      <3>2. current' \in Events \cup {0}
        BY DEF IInv, TypeOK
      <3>3. swallowed' \subseteq Events
        BY DEF IInv, TypeOK, HandlerInv
      <3>4. members' \subseteq Roles
        <4>1. handler = "createMembership" => Role(current) \in Roles
          BY DEF IInv, TypeOK, HandlerInv
        <4> QED
          BY <4>1 DEF IInv, TypeOK
      <3>5. /\ user' \in BOOLEAN
            /\ handler' \in {"idle", "findUser", "createUser", "findMembership",
                            "createMembership", "enrich", "mark"}
        BY DEF IInv, TypeOK
      <3>6. faults' \in 0 .. MaxFaults
        BY DEF IInv, TypeOK
      <3> QED
        BY <2>1, <3>1, <3>2, <3>3, <3>4, <3>5, <3>6 DEF IInv, TypeOK
    <2>3. CallsBacked'
      BY <2>1 DEF IInv, CallsBacked
    <2>4. HandlerInv'
      BY <2>1 DEF IInv, TypeOK, HandlerInv
    <2>5. members \subseteq members' /\ swallowed \subseteq swallowed'
      OBVIOUS
    <2>6. DeliveredMeansMember'
      BY <2>1, <2>5 DEF IInv, DeliveredMeansMember
    <2> QED
      BY <2>2, <2>3, <2>4, <2>6 DEF IInv
  <1>8. CASE UNCHANGED vars
    BY <1>8 DEF vars, IInv, TypeOK, CallsBacked, HandlerInv, DeliveredMeansMember
  <1> QED
    BY <1>1, <1>2, <1>3, <1>4, <1>5, <1>6, <1>7, <1>8 DEF Next, Api

LEMMA Invariance == Spec => []IInv
  BY InitIInv, NextIInv, PTL DEF Spec

\* Every state of the invites, their events and the subscriber is well formed.
THEOREM TypeCorrect == Spec => []TypeOK
  BY Invariance, PTL DEF IInv

\* However often the tick is cut short and the event repeated, and whatever is
\* revoked, retried or accepted meanwhile, a delivered acceptance has made its
\* membership or its handler caught an error (iam.service.ts:49-149).
THEOREM DeliveryCorrect == Spec => []DeliveredMeansMember
  BY Invariance, PTL DEF IInv
-----------------------------------------------------------------------------
(* How often an invite is spent *)

Spent(i) == {e \in Events : subject[e] = i}
Spending(i) == {s \in Slots : calls[s].op = "accept" /\ calls[s].invite = i}

\* Only an invite whose 72 hours are over expires, so an expired one, which accept lets in,
\* only expires again; and what was spent, or is about to be, is no longer pending.
SpendOrder ==
    /\ \A i \in Invites : status[i] = "expired" => i \in old
    /\ \A s \in Slots : calls[s].op = "expire" => calls[s].invite \in old
    /\ \A s \in Slots : calls[s].at = "publish" => status[calls[s].invite] \notin {"none", "pending"}
    /\ \A e \in Events : status[subject[e]] \notin {"none", "pending"}

\* Each publication took one of the calls that had read the invite while it was pending.
SlotPaysForSpend ==
    \A i \in Invites : Cardinality(Spent(i)) + Cardinality(Spending(i)) <= Cardinality(Slots)

SpendInv == SpendOrder /\ SlotPaysForSpend

LEMMA CountsAreNumbers ==
    ASSUME NEW i \in Invites
    PROVE  /\ IsFiniteSet(Spent(i)) /\ Cardinality(Spent(i)) \in Nat
           /\ IsFiniteSet(Spending(i)) /\ Cardinality(Spending(i)) \in Nat
           /\ Cardinality(Spending(i)) <= Cardinality(Slots) /\ Cardinality(Slots) \in Nat
  <1>1. IsFiniteSet(Rows)
    BY FS_Interval, InviteAssumption DEF Rows
  <1>2. Spent(i) \subseteq Rows /\ Spending(i) \subseteq Slots
    BY DEF Spent, Events, Spending
  <1> QED
    BY <1>1, <1>2, FS_Subset, FS_CardinalityType, InviteAssumption

LEMMA NextSpendOrder == IInv /\ SpendOrder /\ [Next]_vars => SpendOrder'
  <1> SUFFICES ASSUME IInv, SpendOrder, [Next]_vars PROVE SpendOrder'
    OBVIOUS
  <1> USE DEF Events, inviteVars, eventVars, apiVars, iamVars
  <1>0. TypeOK /\ CallsBacked
    BY DEF IInv
  <1>1. ASSUME NEW s \in Slots, Create(s) \/ WriteInvite(s) PROVE SpendOrder'
    <2>1. \A t \in Slots : calls[t].at = "publish" => calls[t].invite \in Invites
      BY <1>0 DEF CallsBacked
    <2>2. \A j \in Invites : status'[j] = status[j] \/ (status[j] = "none" /\ status'[j] = "pending")
      BY <1>0, <1>1 DEF Create, WriteInvite, Call, TypeOK
    <2>3. \A t \in Slots : \/ calls'[t] = calls[t]
                           \/ (calls'[t].op \in {"none", "create"} /\ calls'[t].at # "publish")
      <3>1. calls \in [Slots -> [op : {"none", "create", "revoke", "expire", "accept"},
                                 invite : Invites \cup {0}, at : {"idle", "write", "publish"}]]
        BY <1>0 DEF TypeOK
      <3>2. CASE Create(s)
        <4>1. calls' = [calls EXCEPT ![s] = [op |-> "create", invite |-> 0, at |-> "write"]]
          BY <3>2 DEF Create, Call
        <4> QED
          BY <3>1, <4>1
      <3>3. CASE WriteInvite(s)
        <4>1. calls' = [calls EXCEPT ![s] = NoCall]
          BY <3>3 DEF WriteInvite, Return
        <4> QED
          BY <3>1, <4>1 DEF NoCall
      <3> QED
        BY <1>1, <3>2, <3>3
    <2>4. UNCHANGED <<old, eventVars>> /\ \A e \in Events : subject[e] \in Invites
      BY <1>0, <1>1 DEF Create, WriteInvite, Call, TypeOK
    <2> QED
      <3>1. \A j \in Invites : status'[j] = "expired" => j \in old'
        BY <2>2, <2>4 DEF SpendOrder
      <3>2. \A t \in Slots : calls'[t].op = "expire" => calls'[t].invite \in old'
        BY <2>3, <2>4 DEF SpendOrder
      <3>3. \A t \in Slots : calls'[t].at = "publish" => status'[calls'[t].invite] \notin {"none", "pending"}
        BY <2>1, <2>2, <2>3 DEF SpendOrder
      <3>4. \A e \in Events' : status'[subject'[e]] \notin {"none", "pending"}
        BY <2>2, <2>4 DEF SpendOrder
      <3> QED
        BY <3>1, <3>2, <3>3, <3>4 DEF SpendOrder
  <1>2. ASSUME NEW s \in Slots, NEW i \in Invites, Revoke(s, i) \/ Accept(s, i) PROVE SpendOrder'
    BY <1>0, <1>2 DEF Revoke, Accept, Call, TypeOK, SpendOrder
  <1>3. ASSUME NEW s \in Slots, WriteStatus(s) PROVE SpendOrder'
    <2>1. calls[s].invite \in Invites /\ StatusOf(calls[s].op) \notin {"none", "pending"}
      BY <1>0, <1>3 DEF WriteStatus, StatusOf, CallsBacked
    <2>2. StatusOf(calls[s].op) = "expired" => calls[s].invite \in old
      BY <1>3 DEF WriteStatus, StatusOf, SpendOrder
    <2> QED
      BY <1>0, <1>3, <2>1, <2>2 DEF WriteStatus, GoTo, Return, NoCall, TypeOK, SpendOrder
  <1>4. ASSUME NEW s \in Slots, Publish(s) \/ CallThrows(s) PROVE SpendOrder'
    BY <1>0, <1>4 DEF Publish, CallThrows, Return, NoCall, Fault, TypeOK, SpendOrder
  <1>5. ASSUME NEW i \in Invites, Age(i) PROVE SpendOrder'
    BY <1>5 DEF Age, SpendOrder
  <1>6. CASE Handle \/ HandlerThrows \/ Crash \/ OthersCreateUser \/ UNCHANGED vars
    <2>1. UNCHANGED <<apiVars, subject>> /\ Events' = Events
      <3>1. CASE MarkDelivered
        BY <1>0, <3>1 DEF MarkDelivered, Handling, IInv, HandlerInv, TypeOK
      <3>2. CASE ~MarkDelivered
        BY <1>6, <3>2 DEF Handle, Handling, Take, FindUser, CreateUser, FindMembership,
           CreateMembership, Enrich, HandlerThrows, Crash, OthersCreateUser, Swallow, Fault, vars
      <3> QED
        BY <3>1, <3>2
    <2> QED
      BY <2>1 DEF SpendOrder
  <1> QED
    BY <1>1, <1>2, <1>3, <1>4, <1>5, <1>6 DEF Next, Api

\* A step that publishes nothing and reads no pending invite takes no more slots.
LEMMA SlotsStayPaid ==
    ASSUME NEW i \in Invites, Spent(i)' = Spent(i), Spending(i)' \subseteq Spending(i),
           Cardinality(Spent(i)) + Cardinality(Spending(i)) <= Cardinality(Slots)
    PROVE  Cardinality(Spent(i)') + Cardinality(Spending(i)') <= Cardinality(Slots)
  <1>1. Cardinality(Spending(i)') <= Cardinality(Spending(i)) /\ Cardinality(Spending(i)') \in Nat
    BY CountsAreNumbers, FS_Subset, FS_CardinalityType
  <1> QED
    BY <1>1, CountsAreNumbers

LEMMA NextSlotPays == IInv /\ SpendInv /\ [Next]_vars => SlotPaysForSpend'
  <1> SUFFICES ASSUME IInv, SpendInv, [Next]_vars, NEW i \in Invites
               PROVE  Cardinality(Spent(i)') + Cardinality(Spending(i)') <= Cardinality(Slots)
    BY DEF SlotPaysForSpend
  <1> USE DEF inviteVars, eventVars, apiVars, iamVars
  <1>0. TypeOK /\ CallsBacked /\ SpendOrder
        /\ Cardinality(Spent(i)) + Cardinality(Spending(i)) <= Cardinality(Slots)
    BY DEF IInv, SpendInv, SlotPaysForSpend
  <1>1. ASSUME NEW s \in Slots, NEW j \in Invites, Accept(s, j), i = j, i \notin old
        PROVE  Cardinality(Spent(i)') + Cardinality(Spending(i)') <= Cardinality(Slots)
    <2>1. status[i] = "pending"
      BY <1>0, <1>1 DEF Accept, SpendOrder
    <2>2. Spent(i)' = {}
      BY <1>0, <1>1, <2>1 DEF Accept, Call, Spent, SpendOrder, Events
    <2>3. Spending(i)' \subseteq Slots
      BY DEF Spending
    <2>4. Cardinality(Spending(i)') <= Cardinality(Slots) /\ Cardinality(Spending(i)') \in Nat
      BY <2>3, FS_Subset, FS_CardinalityType, InviteAssumption
    <2> QED
      BY <2>2, <2>4, FS_EmptySet
  <1>2. ASSUME NEW s \in Slots, Publish(s), calls[s].invite = i
        PROVE  Cardinality(Spent(i)') + Cardinality(Spending(i)') <= Cardinality(Slots)
    <2>1. PICK e \in Rows \ Events : /\ subject' = [subject EXCEPT ![e] = i]
                                     /\ delivery' = [delivery EXCEPT ![e] = "pending"]
      BY <1>2 DEF Publish
    <2>2. Spent(i)' = Spent(i) \cup {e} /\ e \notin Spent(i)
      BY <1>0, <2>1 DEF Spent, Events, TypeOK
    <2>3. Spending(i)' = Spending(i) \ {s} /\ s \in Spending(i)
      BY <1>0, <1>2 DEF Publish, Return, NoCall, Spending, CallsBacked, TypeOK
    <2>4. Cardinality(Spent(i)') = Cardinality(Spent(i)) + 1
      BY <2>2, CountsAreNumbers, FS_AddElement
    <2>5. Cardinality(Spending(i)') = Cardinality(Spending(i)) - 1
      BY <2>3, CountsAreNumbers, FS_RemoveElement
    <2> QED
      BY <1>0, <2>4, <2>5, CountsAreNumbers
  <1>3. CASE \E s \in Slots : \E j \in Invites : Revoke(s, j) \/ (Accept(s, j) /\ (i # j \/ i \in old))
    <2>1. Spent(i)' = Spent(i) /\ Spending(i)' \subseteq Spending(i)
      BY <1>0, <1>3 DEF Revoke, Accept, Call, Spent, Spending, Events, TypeOK
    <2> QED
      BY <1>0, <2>1, SlotsStayPaid
  <1>4. CASE \E s \in Slots : Create(s) \/ WriteInvite(s) \/ WriteStatus(s) \/ CallThrows(s)
    <2>1. Spent(i)' = Spent(i) /\ Spending(i)' \subseteq Spending(i)
      BY <1>0, <1>4 DEF Create, WriteInvite, WriteStatus, CallThrows, Call, GoTo, Return, NoCall,
                        Fault, Spent, Spending, Events, TypeOK
    <2> QED
      BY <1>0, <2>1, SlotsStayPaid
  <1>5. CASE \E s \in Slots : Publish(s) /\ calls[s].invite # i
    <2>1. Spent(i)' = Spent(i) /\ Spending(i)' \subseteq Spending(i)
      BY <1>0, <1>5 DEF Publish, Return, NoCall, Spent, Spending, Events, TypeOK
    <2> QED
      BY <1>0, <2>1, SlotsStayPaid
  <1>6. CASE \/ \E j \in Invites : Age(j)
             \/ Handle \/ HandlerThrows \/ Crash \/ OthersCreateUser \/ UNCHANGED vars
    <2>1. UNCHANGED <<calls, subject>> /\ Events' = Events
      <3>1. CASE MarkDelivered
        BY <1>0, <3>1 DEF MarkDelivered, Handling, IInv, HandlerInv, TypeOK, Events
      <3>2. CASE ~MarkDelivered
        BY <1>6, <3>2 DEF Age, Handle, Handling, Take, FindUser, CreateUser, FindMembership, Events,
           CreateMembership, Enrich, HandlerThrows, Crash, OthersCreateUser, Swallow, Fault, vars
      <3> QED
        BY <3>1, <3>2
    <2>2. Spent(i)' = Spent(i) /\ Spending(i)' \subseteq Spending(i)
      BY <2>1 DEF Spent, Spending
    <2> QED
      BY <1>0, <2>2, SlotsStayPaid
  <1> QED
    BY <1>1, <1>2, <1>3, <1>4, <1>5, <1>6 DEF Next, Api

LEMMA SpendInvariance == Spec => []SpendInv
  <1>1. Init => SpendInv
    <2> SUFFICES ASSUME Init PROVE SpendInv
      OBVIOUS
    <2>1. Events = {}
      BY DEF Init, Events
    <2>2. SpendOrder
      BY <2>1 DEF Init, SpendOrder, NoCall
    <2>3. \A i \in Invites : Spent(i) = {}
      BY <2>1 DEF Spent
    <2> QED
      BY <2>2, <2>3, CountsAreNumbers, FS_EmptySet DEF SpendInv, SlotPaysForSpend
  <1>2. IInv /\ SpendInv /\ [Next]_vars => SpendInv'
    BY NextSpendOrder, NextSlotPays DEF SpendInv
  <1> QED
    BY <1>1, <1>2, Invariance, PTL DEF Spec

\* invites.service.ts:237-239: however many calls read an invite, and whatever revokes, expires
\* or ages it meanwhile, it is published at most once for each call the server can have in
\* progress, and so once when calls do not overlap.
THEOREM SpendCorrect == Spec => []SpendBound
  <1>1. SpendInv => SpendBound
    BY CountsAreNumbers DEF SpendInv, SlotPaysForSpend, SpendBound, Spent
  <1> QED
    BY <1>1, SpendInvariance, PTL
-----------------------------------------------------------------------------
(* Accounts: an erasure against the calls that open sessions *)

\* Calls that are going to open a session, and calls for a data subject
Opening == {"register", "login", "sso", "switch"}
Asking == {"delete", "restrict"}
Ways == {"none", "password", "sso"}

DeskRows == [op : {"none"} \cup Opening \cup Asking, user : Folks \cup {"none"},
             at : {"idle", "session", "revoke", "clear", "suspend", "complete"},
             on : Tokens \cup Erasures \cup {"none"}, via : Ways, late : BOOLEAN]
SessionRows == [user : Folks \cup {"none"}, live : BOOLEAN, via : Ways, late : BOOLEAN]
AccountRows == [email : Emails \cup {"none", "redacted"}, password : BOOLEAN,
                status : {"none", "active", "suspended", "deleted"}]
RequestRows == [kind : {"none"} \cup Asking, status : {"none", "received", "completed"},
                email : Emails \cup {"none"}, user : Folks \cup {"none"}]

IdTypes ==
    /\ account \in [Folks -> AccountRows]
    /\ linked \in [Emails -> Folks \cup {"none"}]
    /\ session \in [Tokens -> SessionRows]
    /\ request \in [Erasures -> RequestRows]
    /\ desk \in [Desks -> DeskRows]

\* A user who has been erased, of whom no erasure is about to revoke the sessions or was cut
\* before it did
Revoking(u) == \E d \in Desks : desk[d].op = "delete" /\ desk[d].at = "revoke" /\ desk[d].user = u
Cleared(u) == Identity!Erased(u) /\ u \notin interrupted /\ ~Revoking(u)

AccountHolds(u) ==
    Identity!Erased(u) => ~account[u].password /\ (account[u].status = "deleted" \/ u \in rewritten)

SessionHolds(k) ==
    session[k].live /\ session[k].user \in Folks /\ Cleared(session[k].user) =>
        session[k].late \/ session[k].via = "sso"

\* A call that opens a session for one who is cleared began before that or comes from the
\* identity provider.
OpeningHolds(d) ==
    /\ desk[d].at = "session" => desk[d].op \in Opening
    /\ desk[d].op \in Opening /\ desk[d].user \in Folks /\ Cleared(desk[d].user) =>
           desk[d].late \/ desk[d].via = "sso"

\* A call for a data subject works on its request, and past the first statement of an erasure the
\* user is erased.
AskingHolds(d) ==
    /\ desk[d].at = "complete" => desk[d].op \in Asking
    /\ desk[d].at \in {"clear", "suspend"} => desk[d].user \in Folks
    /\ desk[d].at = "clear" => desk[d].op = "delete"
    /\ desk[d].at = "suspend" => desk[d].op = "restrict"
    /\ desk[d].op \in Asking =>
           /\ desk[d].on \in Erasures
           /\ request[desk[d].on].kind = desk[d].op /\ request[desk[d].on].status # "none"
           /\ desk[d].op = "delete" /\ request[desk[d].on].user # "none" =>
                  desk[d].user = request[desk[d].on].user
    /\ desk[d].op = "delete" /\ desk[d].at \in {"revoke", "complete"} /\ desk[d].user # "none" =>
           Identity!Erased(desk[d].user)
    /\ desk[d].op = "delete" /\ desk[d].at = "revoke" => desk[d].user # "none"

RequestHolds(r) ==
    /\ request[r].status # "none" => request[r].kind \in Asking
    /\ request[r].user # "none" =>
           /\ Identity!Exists(request[r].user)
           /\ request[r].status = "completed" /\ request[r].kind = "delete" =>
                  Identity!Erased(request[r].user)

IdInv ==
    /\ IdTypes
    /\ \A u \in Folks : AccountHolds(u)
    /\ \A k \in Tokens : SessionHolds(k)
    /\ \A d \in Desks : OpeningHolds(d) /\ AskingHolds(d)
    /\ \A r \in Erasures : RequestHolds(r)

\* The order of the statements of an erasure
LEMMA ErasureOrder ==
    /\ Identity!ErasureSteps[1] = "clear"
    /\ Identity!After("clear") = "revoke"
    /\ Identity!After("revoke") = "complete"
<1> DEFINE steps == <<"clear", "revoke", "complete">>
<1>1. Identity!ErasureSteps = steps
  BY DEF Identity!ErasureSteps
<1>2. /\ DOMAIN steps = {1, 2, 3}
      /\ steps[1] = "clear" /\ steps[2] = "revoke" /\ steps[3] = "complete"
  OBVIOUS
<1> HIDE DEF steps
<1>3. (CHOOSE n \in DOMAIN steps : steps[n] = "clear") = 1
  BY <1>2
<1>4. (CHOOSE n \in DOMAIN steps : steps[n] = "revoke") = 2
  BY <1>2
<1> QED
  BY <1>1, <1>2, <1>3, <1>4 DEF Identity!After

\* A step after which nobody is cleared who was not: what it leaves alone stays as it should be.
LEMMA IdentityKept ==
    ASSUME IdInv, IdTypes',
           \A u \in Folks : /\ Identity!Exists(u) => Identity!Exists(u)'
                            /\ Identity!Erased(u) => Identity!Erased(u)'
                            /\ Cleared(u)' => Cleared(u)
                            /\ AccountHolds(u)',
           \A k \in Tokens : session'[k] = session[k] \/ ~session'[k].live \/ SessionHolds(k)',
           \A d \in Desks : desk'[d] = desk[d] \/ (OpeningHolds(d)' /\ AskingHolds(d)'),
           \A r \in Erasures :
               \/ request'[r] = request[r]
               \/ /\ RequestHolds(r)'
                  /\ request[r].status # "none" => request' = [request EXCEPT ![r].status = "completed"]
    PROVE  IdInv'
<1>1. ASSUME NEW k \in Tokens PROVE SessionHolds(k)'
  BY <1>1 DEF IdInv, SessionHolds
<1>2. ASSUME NEW d \in Desks, desk'[d] = desk[d] PROVE OpeningHolds(d)'
  BY <1>2 DEF IdInv, OpeningHolds
<1>3. \A r \in Erasures : request[r].status # "none" =>
          request'[r].kind = request[r].kind /\ request'[r].user = request[r].user /\ request'[r].status # "none"
  BY DEF IdInv, IdTypes, RequestRows
<1>4. ASSUME NEW d \in Desks, desk'[d] = desk[d] PROVE AskingHolds(d)'
  <2>1. AskingHolds(d) /\ desk[d] \in DeskRows
    BY <1>4 DEF IdInv, IdTypes
  <2>2. desk[d].user # "none" => desk[d].user \in Folks
    BY <2>1 DEF DeskRows
  <2> QED
    BY <1>3, <1>4, <2>1, <2>2 DEF AskingHolds
<1>5. ASSUME NEW r \in Erasures, request'[r] = request[r] PROVE RequestHolds(r)'
  <2>1. RequestHolds(r) /\ request[r].user \in Folks \cup {"none"}
    BY <1>5 DEF IdInv, IdTypes, RequestRows
  <2> QED
    BY <1>5, <2>1 DEF RequestHolds
<1> QED
  BY <1>1, <1>2, <1>4, <1>5 DEF IdInv

\* A call that is not about to revoke the sessions of a user goes on to what it does next.
LEMMA DeskGoesOn ==
    ASSUME IdInv, NEW d \in Desks, NEW next \in DeskRows, desk' = [desk EXCEPT ![d] = next],
           desk[d].op = "delete" => desk[d].at # "revoke"
    PROVE  /\ desk' \in [Desks -> DeskRows]
           /\ desk'[d] = next /\ \A c \in Desks \ {d} : desk'[c] = desk[c]
           /\ \A u : Revoking(u) => Revoking(u)'
<1>1. desk' \in [Desks -> DeskRows] /\ desk'[d] = next /\ \A c \in Desks \ {d} : desk'[c] = desk[c]
  BY DEF IdInv, IdTypes
<1>2. ASSUME NEW u, Revoking(u) PROVE Revoking(u)'
  <2>1. PICK c \in Desks : desk[c].op = "delete" /\ desk[c].at = "revoke" /\ desk[c].user = u
    BY <1>2 DEF Revoking
  <2>2. c # d
    BY <2>1
  <2> QED
    BY <1>1, <2>1, <2>2 DEF Revoking
<1> QED
  BY <1>1, <1>2

\* A call begins to open a session for a user it read; it may have made or linked him.
LEMMA OpeningBegins ==
    ASSUME EmailsAreReal, IdInv, NEW d \in Desks, desk[d].op # "delete" \/ desk[d].at # "revoke",
           NEW next \in DeskRows, desk' = [desk EXCEPT ![d] = next],
           next.op \in Opening, next.at \in {"session", "revoke"},
           next.user \in Folks /\ Cleared(next.user) => next.late \/ next.via = "sso",
           linked' \in [Emails -> Folks \cup {"none"}],
           account' \in [Folks -> AccountRows],
           \A u \in Folks : \/ account'[u] = account[u]
                            \/ ~Identity!Exists(u) /\ account'[u].email \in Emails,
           UNCHANGED <<request, interrupted, rewritten>>,
           session' \in [Tokens -> SessionRows],
           \A k \in Tokens : session'[k] = session[k] \/ ~session'[k].live
    PROVE  IdInv'
<1>1. /\ desk' \in [Desks -> DeskRows]
      /\ desk'[d] = next /\ \A c \in Desks \ {d} : desk'[c] = desk[c]
      /\ \A u : Revoking(u) => Revoking(u)'
  BY DeskGoesOn
<1>2. IdTypes'
  BY <1>1 DEF IdInv, IdTypes
<1>3. ASSUME NEW u \in Folks
      PROVE  /\ Identity!Exists(u) => Identity!Exists(u)'
             /\ Identity!Erased(u) <=> Identity!Erased(u)'
             /\ Cleared(u)' => Cleared(u)
             /\ AccountHolds(u)'
  <2>1. CASE account'[u] = account[u]
    BY <1>1, <1>3, <2>1 DEF IdInv, Identity!Exists, Identity!Erased, Cleared, AccountHolds
  <2>2. CASE ~Identity!Exists(u) /\ account'[u].email \in Emails
    BY <1>1, <1>3, <2>2
       DEF EmailsAreReal, Identity!Exists, Identity!Erased, Cleared, AccountHolds
  <2> QED
    BY <1>3, <2>1, <2>2
<1>4. OpeningHolds(d)'
  BY <1>1, <1>3 DEF OpeningHolds
<1>5. AskingHolds(d)'
  BY <1>1 DEF AskingHolds, Opening, Asking
<1> QED
  BY <1>1, <1>2, <1>3, <1>4, <1>5, IdentityKept

\* A status is written by id, of whatever user: an erased one is known to have been rewritten.
LEMMA StatusWritten ==
    ASSUME IdInv, NEW u \in Folks, NEW stand \in {"active", "suspended"},
           account' = [account EXCEPT ![u].status = stand],
           rewritten' = IF account[u].status = "deleted" THEN rewritten \cup {u} ELSE rewritten
    PROVE  /\ account' \in [Folks -> AccountRows]
           /\ \A v \in Folks : /\ Identity!Exists(v) <=> Identity!Exists(v)'
                               /\ Identity!Erased(v) <=> Identity!Erased(v)'
                               /\ AccountHolds(v)'
<1>1. account \in [Folks -> AccountRows] /\ account[u] \in AccountRows
  BY DEF IdInv, IdTypes
<1>2. /\ [account[u] EXCEPT !.status = stand] \in AccountRows
      /\ [account[u] EXCEPT !.status = stand].email = account[u].email
      /\ [account[u] EXCEPT !.status = stand].password = account[u].password
  BY <1>1 DEF AccountRows
<1>3. /\ account'[u] = [account[u] EXCEPT !.status = stand]
      /\ \A v \in Folks \ {u} : account'[v] = account[v]
      /\ account' \in [Folks -> AccountRows]
  BY <1>1, <1>2
<1>4. \A v \in Folks : account'[v].email = account[v].email /\ account'[v].password = account[v].password
  BY <1>2, <1>3
<1>5. ASSUME NEW v \in Folks PROVE AccountHolds(v)'
  <2>1. AccountHolds(v)
    BY DEF IdInv
  <2> QED
    BY <1>3, <1>4, <2>1 DEF AccountHolds, Identity!Erased
<1> QED
  BY <1>3, <1>4, <1>5 DEF Identity!Exists, Identity!Erased

LEMMA OpeningSteps ==
    ASSUME EmailsAreReal, IdInv, NEW d \in Desks,
           \/ \E u \in Folks : \/ Identity!Login(d, u)
                               \/ \E e \in Emails : Identity!Register(d, u, e) \/ Identity!Callback(d, e, u)
           \/ \E k \in Tokens : Identity!BeginSwitch(d, k) \/ Identity!OpenSession(d, k)
           \/ Identity!RevokeSwitched(d)
    PROVE  IdInv'
<1>1. IdTypes /\ desk[d] \in DeskRows
  BY DEF IdInv, IdTypes
<1>2. ASSUME NEW op \in {"register", "login", "sso"}, NEW u \in Folks, NEW via \in {"password", "sso"},
             Identity!ToSession(d, op, u, via, FALSE)
      PROVE  \E next \in DeskRows :
                 /\ desk' = [desk EXCEPT ![d] = next]
                 /\ next.op = op /\ next.at = "session" /\ next.user = u /\ next.via = via
  <2> DEFINE next == [op |-> op, user |-> u, at |-> "session", on |-> "none", via |-> via, late |-> FALSE]
  <2>1. next \in DeskRows
    BY <1>2 DEF DeskRows, Opening, Ways
  <2> QED
    BY <1>2, <2>1 DEF Identity!ToSession
<1>3. ASSUME NEW u \in Folks, Identity!Login(d, u) PROVE IdInv'
  <2>a. PICK next : next = [op |-> "login", user |-> u, at |-> "session", on |-> "none", via |-> "password",
                            late |-> FALSE]
    OBVIOUS
  <2>1. /\ desk' = [desk EXCEPT ![d] = next] /\ next \in DeskRows
        /\ next.op = "login" /\ next.at = "session" /\ next.user = u /\ next.via = "password"
    <3>1. desk' = [desk EXCEPT ![d] = next]
      BY <1>3, <2>a DEF Identity!Login, Identity!ToSession
    <3>2. next \in DeskRows
      BY <2>a DEF DeskRows, Opening, Ways
    <3> QED
      BY <2>a, <3>1, <3>2
  <2>2. /\ desk[d].op = "none" /\ account[u].password
        /\ UNCHANGED <<account, linked, session, request, interrupted, rewritten>>
    BY <1>3 DEF Identity!Login, Identity!Closed
  <2>3. ~Cleared(u)
    BY <1>3, <2>2 DEF IdInv, AccountHolds, Cleared
  <2> QED
    BY <1>1, <2>1, <2>2, <2>3, OpeningBegins DEF IdTypes, Opening
<1>4. ASSUME NEW u \in Folks, NEW e \in Emails, Identity!Register(d, u, e) PROVE IdInv'
  <2>a. PICK next : next = [op |-> "register", user |-> u, at |-> "session", on |-> "none", via |-> "password",
                            late |-> FALSE]
    OBVIOUS
  <2>1. /\ desk' = [desk EXCEPT ![d] = next] /\ next \in DeskRows
        /\ next.op = "register" /\ next.at = "session" /\ next.user = u /\ next.via = "password"
    <3>1. desk' = [desk EXCEPT ![d] = next]
      BY <1>4, <2>a DEF Identity!Register, Identity!ToSession
    <3>2. next \in DeskRows
      BY <2>a DEF DeskRows, Opening, Ways
    <3> QED
      BY <2>a, <3>1, <3>2
  <2> DEFINE made == [email |-> e, password |-> TRUE, status |-> "active"]
  <2>2. made \in AccountRows /\ made.email = e
    BY <1>4 DEF AccountRows
  <2>3. /\ desk[d].op = "none" /\ ~Identity!Exists(u)
        /\ account' = [account EXCEPT ![u] = made]
        /\ UNCHANGED <<linked, session, request, interrupted, rewritten>>
    BY <1>4 DEF Identity!Register, Identity!Closed
  <2> HIDE DEF made
  <2>4. /\ account' \in [Folks -> AccountRows] /\ account'[u].email \in Emails
        /\ \A v \in Folks \ {u} : account'[v] = account[v]
    BY <1>1, <1>4, <2>2, <2>3 DEF IdTypes
  <2>5. ~Cleared(u)
    BY <2>3 DEF Cleared, Identity!Exists, Identity!Erased
  <2> QED
    BY <1>1, <1>4, <2>1, <2>3, <2>4, <2>5, OpeningBegins DEF IdTypes, Opening
<1>5. ASSUME NEW e \in Emails, NEW new \in Folks, Identity!Callback(d, e, new) PROVE IdInv'
  <2> SUFFICES ASSUME NEW u, u = IF linked[e] # "none" THEN linked[e]
                                 ELSE IF Identity!Holder(e) # {} THEN CHOOSE h \in Identity!Holder(e) : TRUE
                                 ELSE new
               PROVE  IdInv'
    OBVIOUS
  <2>1. u \in Folks
    <3>1. linked[e] \in Folks \cup {"none"} /\ Identity!Holder(e) \subseteq Folks
      BY <1>1, <1>5 DEF IdTypes, Identity!Holder
    <3> QED
      BY <1>5, <3>1
  <2> DEFINE made == [email |-> e, password |-> FALSE, status |-> "active"]
  <2>2. made \in AccountRows /\ made.email = e
    BY <1>5 DEF AccountRows
  <2>3. /\ desk[d] = Identity!Closed
        /\ account' = IF Identity!Exists(u) THEN account ELSE [account EXCEPT ![u] = made]
        /\ linked' = [linked EXCEPT ![e] = u]
        /\ Identity!ToSession(d, "sso", u, "sso", FALSE)
        /\ UNCHANGED <<session, request, interrupted, rewritten>>
    BY <1>5 DEF Identity!Callback
  <2> HIDE DEF made
  <2>4. PICK next \in DeskRows : /\ desk' = [desk EXCEPT ![d] = next]
                                 /\ next.op = "sso" /\ next.at = "session" /\ next.user = u
                                 /\ next.via = "sso"
    BY <1>2, <2>1, <2>3
  <2>5. /\ linked' \in [Emails -> Folks \cup {"none"}]
        /\ account' \in [Folks -> AccountRows]
        /\ \A v \in Folks : account'[v] = account[v] \/ (~Identity!Exists(v) /\ account'[v].email \in Emails)
    BY <1>1, <1>5, <2>1, <2>2, <2>3 DEF IdTypes
  <2>6. desk[d].op = "none"
    BY <2>3 DEF Identity!Closed
  <2> QED
    BY <1>1, <2>3, <2>4, <2>5, <2>6, OpeningBegins DEF IdTypes, Opening
<1>6. ASSUME NEW k \in Tokens, Identity!BeginSwitch(d, k) PROVE IdInv'
  <2> SUFFICES ASSUME NEW next, next = [op |-> "switch", user |-> session[k].user, at |-> "revoke",
                                        on |-> k, via |-> session[k].via, late |-> session[k].late]
               PROVE  IdInv'
    OBVIOUS
  <2>1. next \in DeskRows /\ next.op = "switch" /\ next.at = "revoke"
    BY <1>1, <1>6 DEF IdTypes, SessionRows, DeskRows, Opening
  <2>2. /\ desk[d].op = "none" /\ session[k].live
        /\ desk' = [desk EXCEPT ![d] = next]
        /\ UNCHANGED <<account, linked, session, request, interrupted, rewritten>>
    BY <1>6 DEF Identity!BeginSwitch, Identity!Closed
  <2>3. next.user \in Folks /\ Cleared(next.user) => next.late \/ next.via = "sso"
    BY <1>6, <2>2 DEF IdInv, SessionHolds
  <2> QED
    BY <1>1, <2>1, <2>2, <2>3, OpeningBegins DEF IdTypes, Opening
<1>7. ASSUME Identity!RevokeSwitched(d) PROVE IdInv'
  <2> SUFFICES ASSUME NEW next, next = [op |-> "switch", user |-> desk[d].user, at |-> "session",
                                        on |-> "none", via |-> desk[d].via, late |-> desk[d].late]
               PROVE  IdInv'
    OBVIOUS
  <2>1. next \in DeskRows /\ next.op = "switch" /\ next.at = "session"
    BY <1>1 DEF DeskRows, Opening
  <2>2. /\ desk[d].op = "switch"
        /\ desk' = [desk EXCEPT ![d] = next]
        /\ session' = [k \in Tokens |-> IF k = desk[d].on THEN [session[k] EXCEPT !.live = FALSE] ELSE session[k]]
        /\ UNCHANGED <<account, linked, request, interrupted, rewritten>>
    BY <1>7 DEF Identity!RevokeSwitched, Identity!ToSession
  <2>3. /\ session' \in [Tokens -> SessionRows]
        /\ \A k \in Tokens : session'[k] = session[k] \/ ~session'[k].live
    BY <1>1, <2>2 DEF IdTypes, SessionRows
  <2>4. next.user \in Folks /\ Cleared(next.user) => next.late \/ next.via = "sso"
    BY <2>2 DEF IdInv, OpeningHolds, Opening
  <2> QED
    BY <1>1, <2>1, <2>2, <2>3, <2>4, OpeningBegins DEF IdTypes, Opening
<1>8. ASSUME NEW k \in Tokens, Identity!OpenSession(d, k) PROVE IdInv'
  <2> SUFFICES ASSUME NEW made, made = [user |-> desk[d].user, live |-> TRUE, via |-> desk[d].via,
                                        late |-> desk[d].late]
               PROVE  IdInv'
    OBVIOUS
  <2>1. made \in SessionRows /\ Identity!Closed \in DeskRows
    BY <1>1 DEF DeskRows, SessionRows, Identity!Closed, Ways
  <2>2. /\ desk[d].at = "session"
        /\ session' = [session EXCEPT ![k] = made]
        /\ desk' = [desk EXCEPT ![d] = Identity!Closed]
        /\ UNCHANGED <<account, linked, request, interrupted, rewritten>>
    BY <1>8 DEF Identity!OpenSession
  <2>3. /\ desk' \in [Desks -> DeskRows]
        /\ desk'[d] = Identity!Closed /\ \A c \in Desks \ {d} : desk'[c] = desk[c]
        /\ \A u : Revoking(u) => Revoking(u)'
    BY <2>1, <2>2, DeskGoesOn
  <2>4. IdTypes' /\ session'[k] = made /\ \A j \in Tokens \ {k} : session'[j] = session[j]
    BY <1>1, <1>8, <2>1, <2>2, <2>3 DEF IdTypes
  <2>5. \A u \in Folks : /\ Identity!Exists(u) <=> Identity!Exists(u)'
                         /\ Identity!Erased(u) <=> Identity!Erased(u)'
                         /\ AccountHolds(u)'
    BY <2>2 DEF IdInv, Identity!Exists, Identity!Erased, AccountHolds
  <2>6. \A u \in Folks : Cleared(u)' => Cleared(u)
    BY <2>2, <2>3, <2>5 DEF Cleared
  <2>7. SessionHolds(k)'
    BY <2>2, <2>4, <2>6 DEF IdInv, OpeningHolds, SessionHolds
  <2>8. OpeningHolds(d)' /\ AskingHolds(d)'
    BY <2>3 DEF OpeningHolds, AskingHolds, Identity!Closed, Opening, Asking
  <2> QED
    BY <2>2, <2>3, <2>4, <2>5, <2>6, <2>7, <2>8, IdentityKept
<1> QED
  BY <1>3, <1>4, <1>5, <1>6, <1>7, <1>8

\* A step of a call that writes no row but its own statement
LEMMA AccountUntouched ==
    ASSUME IdInv, desk' \in [Desks -> DeskRows],
           UNCHANGED <<account, linked, session, request, rewritten>>,
           interrupted \subseteq interrupted',
           \A u \in Folks : Revoking(u) => Revoking(u)' \/ u \in interrupted',
           \A d \in Desks : desk'[d] = desk[d] \/ (OpeningHolds(d)' /\ AskingHolds(d)')
    PROVE  IdInv'
<1>1. \A u \in Folks : /\ Identity!Exists(u) <=> Identity!Exists(u)'
                       /\ Identity!Erased(u) <=> Identity!Erased(u)'
                       /\ AccountHolds(u)'
  BY DEF IdInv, Identity!Exists, Identity!Erased, AccountHolds
<1>2. \A u \in Folks : Cleared(u)' => Cleared(u)
  BY <1>1 DEF Cleared
<1>3. IdTypes'
  BY DEF IdInv, IdTypes
<1> QED
  BY <1>1, <1>2, <1>3, IdentityKept

LEMMA AskingSteps ==
    ASSUME EmailsAreReal, IdInv, NEW d \in Desks,
           \/ \E r \in Erasures : Identity!BeginDsar(d, r)
           \/ Identity!ClearIdentity(d) \/ Identity!SuspendUser(d)
           \/ Identity!CompleteDsar(d) \/ Identity!Throw(d)
    PROVE  IdInv'
<1>1. /\ IdTypes /\ desk[d] \in DeskRows /\ AskingHolds(d) /\ OpeningHolds(d)
      /\ Identity!Closed \in DeskRows
  BY DEF IdInv, IdTypes, DeskRows, Identity!Closed, Ways
<1>2. ASSUME NEW r \in Erasures, Identity!BeginDsar(d, r) PROVE IdInv'
  <2> SUFFICES ASSUME NEW asked, asked = request[r].kind,
                      NEW found, found = IF asked = "delete" /\ request[r].user # "none"
                                         THEN {u \in Folks : u = request[r].user /\ Identity!Exists(u)}
                                         ELSE Identity!Holder(request[r].email),
                      NEW who, who = IF found = {} THEN "none" ELSE CHOOSE u \in found : TRUE,
                      NEW at, at = IF found = {} THEN "complete"
                                   ELSE IF asked = "delete" THEN Identity!ErasureSteps[1] ELSE "suspend",
                      NEW next, next = [op |-> asked, on |-> r, via |-> "none", late |-> FALSE,
                                        user |-> who, at |-> at]
               PROVE  IdInv'
    OBVIOUS
  <2>1. /\ desk[d] = Identity!Closed
        /\ request[r].status = "received"
        /\ desk' = [desk EXCEPT ![d] = next]
        /\ UNCHANGED <<account, linked, session, request, interrupted, rewritten>>
    BY <1>2 DEF Identity!BeginDsar
  <2>2. desk[d].op = "none"
    BY <2>1 DEF Identity!Closed
  <2>3. found \subseteq Folks /\ who \in Folks \cup {"none"} /\ (found # {} => who \in found /\ who \in Folks)
    BY DEF Identity!Holder
  <2>4. at \in {"complete", "clear", "suspend"} /\ (at = "clear" => asked = "delete")
        /\ (at \in {"clear", "suspend"} => who \in Folks)
    BY <2>3, ErasureOrder
  <2>5. RequestHolds(r) /\ request[r] \in RequestRows
    BY <1>1, <1>2 DEF IdInv, IdTypes
  <2>6. asked = "delete" /\ request[r].user # "none" => who = request[r].user
    <3>1. ASSUME asked = "delete", request[r].user # "none" PROVE found = {request[r].user}
      BY <2>5, <3>1 DEF RequestHolds, RequestRows
    <3> QED
      BY <2>3, <3>1
  <2>7. asked \in Asking
    BY <2>1, <2>5 DEF RequestHolds
  <2>8. next \in DeskRows
    BY <1>2, <2>3, <2>4, <2>7 DEF DeskRows, Ways
  <2>9. /\ desk' \in [Desks -> DeskRows]
        /\ desk'[d] = next /\ \A c \in Desks \ {d} : desk'[c] = desk[c]
        /\ \A u : Revoking(u) => Revoking(u)'
    BY <2>1, <2>2, <2>8, DeskGoesOn
  <2>10. OpeningHolds(d)'
    BY <2>4, <2>7, <2>9 DEF OpeningHolds, Opening, Asking
  <2>11. at = "suspend" => asked = "restrict"
    BY <2>7, ErasureOrder DEF Asking
  <2>12. asked = "delete" /\ at = "complete" => who = "none"
    BY ErasureOrder
  <2>13. AskingHolds(d)'
    BY <1>2, <2>1, <2>4, <2>6, <2>7, <2>9, <2>11, <2>12 DEF AskingHolds
  <2> QED
    BY <2>1, <2>9, <2>10, <2>13, AccountUntouched
<1>3. ASSUME Identity!ClearIdentity(d) PROVE IdInv'
  <2> SUFFICES ASSUME NEW u, u = desk[d].user, NEW next, next = [desk[d] EXCEPT !.at = "revoke"],
                      NEW made, made = [email |-> "redacted", password |-> FALSE, status |-> "deleted"]
               PROVE  IdInv'
    OBVIOUS
  <2>1. /\ desk[d].at = "clear"
        /\ account' = [account EXCEPT ![u] = made]
        /\ desk' = [desk EXCEPT ![d] = next]
        /\ rewritten' = rewritten \ {u}
        /\ UNCHANGED <<linked, session, request, interrupted>>
    BY <1>1, <1>3, ErasureOrder DEF Identity!ClearIdentity, IdTypes
  <2>2. /\ u \in Folks /\ desk[d].op = "delete" /\ u # "none"
        /\ made \in AccountRows /\ made.email = "redacted"
    BY <1>1, <2>1 DEF AskingHolds, EmailsAreReal, AccountRows
  <2>3. /\ next \in DeskRows /\ next.at = "revoke" /\ next.op = "delete" /\ next.user = u
        /\ next.on = desk[d].on
    BY <1>1, <2>2 DEF DeskRows
  <2>4. /\ desk' \in [Desks -> DeskRows]
        /\ desk'[d] = next /\ \A c \in Desks \ {d} : desk'[c] = desk[c]
        /\ \A v : Revoking(v) => Revoking(v)'
    BY <2>1, <2>3, DeskGoesOn
  <2>5. /\ account' \in [Folks -> AccountRows]
        /\ account'[u] = made /\ \A v \in Folks \ {u} : account'[v] = account[v]
    BY <1>1, <2>1, <2>2 DEF IdTypes
  <2>6. IdTypes'
    BY <1>1, <2>1, <2>4, <2>5 DEF IdTypes
  <2>7. Revoking(u)'
    BY <2>3, <2>4 DEF Revoking
  <2>8. ASSUME NEW v \in Folks
        PROVE  /\ Identity!Exists(v) => Identity!Exists(v)'
               /\ Identity!Erased(v) => Identity!Erased(v)'
               /\ Cleared(v)' => Cleared(v)
               /\ AccountHolds(v)'
    <3>1. CASE v = u
      BY <2>2, <2>5, <2>7, <3>1 DEF Identity!Exists, Identity!Erased, Cleared, AccountHolds
    <3>2. CASE v # u
      BY <2>1, <2>4, <2>5, <2>8, <3>2 DEF IdInv, Identity!Exists, Identity!Erased, Cleared, AccountHolds
    <3> QED
      BY <3>1, <3>2
  <2>9. Identity!Erased(u)'
    BY <2>2, <2>5 DEF Identity!Erased
  <2>10. OpeningHolds(d)'
    BY <2>3, <2>4 DEF OpeningHolds, Opening
  <2>11. AskingHolds(d)'
    BY <1>1, <2>1, <2>2, <2>3, <2>4, <2>9 DEF AskingHolds, Asking
  <2> QED
    BY <2>1, <2>4, <2>6, <2>8, <2>10, <2>11, IdentityKept
<1>4. ASSUME Identity!SuspendUser(d) PROVE IdInv'
  <2> SUFFICES ASSUME NEW u, u = desk[d].user, NEW next, next = [desk[d] EXCEPT !.at = "complete"]
               PROVE  IdInv'
    OBVIOUS
  <2>1. /\ desk[d].at = "suspend"
        /\ account' = [account EXCEPT ![u].status = "suspended"]
        /\ rewritten' = IF account[u].status = "deleted" THEN rewritten \cup {u} ELSE rewritten
        /\ desk' = [desk EXCEPT ![d] = next]
        /\ UNCHANGED <<linked, session, request, interrupted>>
    BY <1>1, <1>4 DEF Identity!SuspendUser, IdTypes
  <2>2. u \in Folks /\ desk[d].op = "restrict"
    BY <1>1, <2>1 DEF AskingHolds
  <2>3. /\ next \in DeskRows /\ next.at = "complete" /\ next.op = "restrict" /\ next.user = u
        /\ next.on = desk[d].on
    BY <1>1, <2>2 DEF DeskRows
  <2>4. /\ desk' \in [Desks -> DeskRows]
        /\ desk'[d] = next /\ \A c \in Desks \ {d} : desk'[c] = desk[c]
        /\ \A v : Revoking(v) => Revoking(v)'
    BY <2>1, <2>2, <2>3, DeskGoesOn
  <2>5. \A v \in Folks : /\ Identity!Exists(v) <=> Identity!Exists(v)'
                         /\ Identity!Erased(v) <=> Identity!Erased(v)'
                         /\ AccountHolds(v)'
    BY <1>1, <2>1, <2>2, StatusWritten
  <2>6. IdTypes'
    BY <1>1, <2>1, <2>2, <2>4, StatusWritten DEF IdTypes
  <2>7. \A v \in Folks : Cleared(v)' => Cleared(v)
    BY <2>1, <2>4, <2>5 DEF Cleared
  <2>8. OpeningHolds(d)'
    BY <2>3, <2>4 DEF OpeningHolds, Opening
  <2>9. AskingHolds(d)'
    BY <1>1, <2>1, <2>2, <2>3, <2>4 DEF AskingHolds, Asking
  <2> QED
    BY <2>1, <2>4, <2>5, <2>6, <2>7, <2>8, <2>9, IdentityKept
<1>5. ASSUME Identity!CompleteDsar(d) PROVE IdInv'
  <2> SUFFICES ASSUME NEW r, r = desk[d].on PROVE IdInv'
    OBVIOUS
  <2>1. /\ desk[d].at = "complete"
        /\ request' = [request EXCEPT ![r].status = "completed"]
        /\ desk' = [desk EXCEPT ![d] = Identity!Closed]
        /\ UNCHANGED <<account, linked, session, interrupted, rewritten>>
    BY <1>5 DEF Identity!CompleteDsar
  <2>2. r \in Erasures /\ request[r].kind = desk[d].op /\ request[r].status # "none" /\ request[r] \in RequestRows
    BY <1>1, <2>1 DEF AskingHolds, IdTypes
  <2>3. /\ desk' \in [Desks -> DeskRows]
        /\ desk'[d] = Identity!Closed /\ \A c \in Desks \ {d} : desk'[c] = desk[c]
        /\ \A v : Revoking(v) => Revoking(v)'
    BY <1>1, <2>1, DeskGoesOn
  <2>4. /\ request'[r] = [request[r] EXCEPT !.status = "completed"] /\ request'[r] \in RequestRows
        /\ request'[r].kind = request[r].kind /\ request'[r].user = request[r].user
        /\ \A q \in Erasures \ {r} : request'[q] = request[q]
        /\ request' \in [Erasures -> RequestRows]
    <3>1. [request[r] EXCEPT !.status = "completed"] \in RequestRows
      BY <2>2 DEF RequestRows
    <3> QED
      BY <1>1, <2>1, <2>2, <3>1 DEF IdTypes, RequestRows
  <2>5. IdTypes'
    BY <1>1, <2>1, <2>3, <2>4 DEF IdTypes
  <2>6. \A v \in Folks : /\ Identity!Exists(v) <=> Identity!Exists(v)'
                         /\ Identity!Erased(v) <=> Identity!Erased(v)'
                         /\ AccountHolds(v)'
    BY <2>1 DEF IdInv, Identity!Exists, Identity!Erased, AccountHolds
  <2>7. \A v \in Folks : Cleared(v)' => Cleared(v)
    BY <2>1, <2>3, <2>6 DEF Cleared
  <2>8. OpeningHolds(d)' /\ AskingHolds(d)'
    BY <2>3 DEF OpeningHolds, AskingHolds, Identity!Closed, Opening, Asking
  <2>9. RequestHolds(r)'
    <3>1. request[r].kind = "delete" /\ request[r].user # "none" => Identity!Erased(request[r].user)
      BY <1>1, <2>1, <2>2 DEF AskingHolds, Asking
    <3>2. RequestHolds(r) /\ request[r].user \in Folks \cup {"none"}
      BY <2>2 DEF IdInv, RequestRows
    <3> QED
      BY <2>2, <2>4, <2>6, <3>1, <3>2 DEF RequestHolds
  <2> QED
    BY <2>1, <2>3, <2>4, <2>5, <2>6, <2>7, <2>8, <2>9, IdentityKept
<1>6. ASSUME Identity!Throw(d) PROVE IdInv'
  <2>1. /\ interrupted' = IF desk[d].op = "delete" /\ desk[d].at = "revoke"
                          THEN interrupted \cup {desk[d].user} ELSE interrupted
        /\ desk' = [desk EXCEPT ![d] = Identity!Closed]
        /\ UNCHANGED <<account, linked, session, request, rewritten>>
    BY <1>6 DEF Identity!Throw
  <2>2. /\ desk' \in [Desks -> DeskRows]
        /\ desk'[d] = Identity!Closed /\ \A c \in Desks \ {d} : desk'[c] = desk[c]
    BY <1>1, <2>1 DEF IdTypes
  <2>3. ASSUME NEW u \in Folks, Revoking(u) PROVE Revoking(u)' \/ u \in interrupted'
    <3>1. PICK c \in Desks : desk[c].op = "delete" /\ desk[c].at = "revoke" /\ desk[c].user = u
      BY <2>3 DEF Revoking
    <3>2. CASE c = d
      BY <2>1, <3>1, <3>2
    <3>3. CASE c # d
      BY <2>2, <3>1, <3>3 DEF Revoking
    <3> QED
      BY <3>2, <3>3
  <2>4. OpeningHolds(d)' /\ AskingHolds(d)'
    BY <2>2 DEF OpeningHolds, AskingHolds, Identity!Closed, Opening, Asking
  <2> QED
    BY <2>1, <2>2, <2>3, <2>4, AccountUntouched
<1> QED
  BY <1>2, <1>3, <1>4, <1>5, <1>6

\* The sessions of an erased user end, and the calls that began before are late from now on.
LEMMA SessionsRevoked ==
    ASSUME EmailsAreReal, IdInv, NEW d \in Desks, Identity!RevokeSessions(d)
    PROVE  IdInv'
<1> SUFFICES ASSUME NEW u, u = desk[d].user PROVE IdInv'
  OBVIOUS
<1>1. /\ IdTypes /\ AskingHolds(d)
      /\ \A c \in Desks : desk[c] \in DeskRows
  BY DEF IdInv, IdTypes
<1>2. /\ desk[d].op = "delete" /\ desk[d].at = "revoke"
      /\ session' = [k \in Tokens |-> IF session[k].user = u THEN [session[k] EXCEPT !.live = FALSE] ELSE session[k]]
      /\ desk' = [c \in Desks |-> IF c = d THEN [desk[d] EXCEPT !.at = "complete"]
                                  ELSE [desk[c] EXCEPT !.late = desk[c].late \/ desk[c].user = u]]
      /\ interrupted' = interrupted \ {u}
      /\ UNCHANGED <<account, linked, request, rewritten>>
  BY ErasureOrder DEF Identity!RevokeSessions, Identity!Revoked
<1>3. u # "none" /\ u \in Folks /\ Identity!Erased(u)
  BY <1>1, <1>2 DEF AskingHolds, DeskRows
<1>4. /\ desk'[d] \in DeskRows
      /\ desk'[d].op = "delete" /\ desk'[d].at = "complete" /\ desk'[d].user = u /\ desk'[d].on = desk[d].on
  BY <1>1, <1>2 DEF DeskRows
<1>5. ASSUME NEW c \in Desks \ {d}
      PROVE  /\ desk'[c] \in DeskRows
             /\ desk'[c].op = desk[c].op /\ desk'[c].at = desk[c].at /\ desk'[c].user = desk[c].user
             /\ desk'[c].on = desk[c].on /\ desk'[c].via = desk[c].via
             /\ desk'[c].late <=> desk[c].late \/ desk[c].user = u
  <2>1. desk'[c] = [desk[c] EXCEPT !.late = desk[c].late \/ desk[c].user = u] /\ desk[c] \in DeskRows
    BY <1>1, <1>2, <1>5
  <2> QED
    BY <2>1 DEF DeskRows
<1>6. desk' \in [Desks -> DeskRows]
  <2>1. \A c \in Desks : desk'[c] \in DeskRows
    BY <1>4, <1>5
  <2> QED
    BY <1>2, <2>1
<1>7. \A k \in Tokens : /\ session'[k] \in SessionRows
                        /\ session'[k] = session[k] \/ ~session'[k].live
                        /\ session[k].user = u => ~session'[k].live
  BY <1>1, <1>2 DEF IdTypes, SessionRows
<1>8. session' \in [Tokens -> SessionRows]
  BY <1>2, <1>7
<1>9. IdTypes'
  BY <1>1, <1>2, <1>6, <1>8 DEF IdTypes
<1>10. \A v \in Folks : /\ Identity!Exists(v) <=> Identity!Exists(v)'
                        /\ Identity!Erased(v) <=> Identity!Erased(v)'
                        /\ AccountHolds(v)'
  BY <1>2 DEF IdInv, Identity!Exists, Identity!Erased, AccountHolds
<1>11. ASSUME NEW v \in Folks, v # u, Cleared(v)' PROVE Cleared(v)
  <2>1. ASSUME Revoking(v) PROVE Revoking(v)'
    <3>1. PICK c \in Desks : desk[c].op = "delete" /\ desk[c].at = "revoke" /\ desk[c].user = v
      BY <2>1 DEF Revoking
    <3>2. c # d
      BY <1>11, <3>1
    <3> QED
      BY <1>5, <3>1, <3>2 DEF Revoking
  <2>2. v \notin interrupted
    BY <1>2, <1>11 DEF Cleared
  <2> QED
    BY <1>10, <1>11, <2>1, <2>2 DEF Cleared
<1>12. ASSUME NEW k \in Tokens PROVE SessionHolds(k)'
  <2>1. CASE session[k].user = u
    BY <1>7, <1>12, <2>1 DEF SessionHolds
  <2>2. CASE session[k].user # u
    <3>1. session'[k] = session[k] /\ SessionHolds(k)
      BY <1>2, <1>12, <2>2 DEF IdInv
    <3> QED
      BY <1>11, <2>2, <3>1 DEF SessionHolds
  <2> QED
    BY <2>1, <2>2
<1>13. OpeningHolds(d)' /\ AskingHolds(d)'
  <2>1. OpeningHolds(d)'
    BY <1>4 DEF OpeningHolds, Opening
  <2>2. Identity!Erased(u)'
    BY <1>3, <1>10
  <2>3. AskingHolds(d)'
    BY <1>1, <1>2, <1>4, <2>2 DEF AskingHolds, Asking
  <2> QED
    BY <2>1, <2>3
<1>14. ASSUME NEW c \in Desks \ {d} PROVE OpeningHolds(c)'
  <2>1. OpeningHolds(c)
    BY <1>14 DEF IdInv
  <2> QED
    BY <1>5, <1>11, <1>14, <2>1 DEF OpeningHolds
<1>15. ASSUME NEW c \in Desks \ {d} PROVE AskingHolds(c)'
  <2>1. AskingHolds(c) /\ desk[c].user \in Folks \cup {"none"}
    BY <1>1, <1>15 DEF IdInv, DeskRows
  <2> QED
    BY <1>2, <1>5, <1>10, <1>15, <2>1 DEF AskingHolds
<1>16. ASSUME NEW r \in Erasures PROVE RequestHolds(r)'
  <2>1. RequestHolds(r) /\ request[r].user \in Folks \cup {"none"}
    BY <1>1, <1>16 DEF IdInv, IdTypes, RequestRows
  <2> QED
    BY <1>2, <1>10, <2>1 DEF RequestHolds
<1> QED
  BY <1>9, <1>10, <1>12, <1>13, <1>14, <1>15, <1>16 DEF IdInv

\* Calls that are a single statement
LEMMA PlainCalls ==
    ASSUME EmailsAreReal, IdInv,
           \/ \E k \in Tokens : Identity!Logout(k)
           \/ \E u \in Folks, stand \in {"active", "suspended"} :
                  Identity!Patch(u, stand) \/ \E e \in Emails : Identity!Provision(u, e, stand)
           \/ \E u \in Folks : Identity!LogoutAll(u)
           \/ \E gone \in SUBSET Tokens : Identity!Prune(gone)
           \/ \E r \in Erasures, asked \in {"delete", "restrict"}, e \in Emails, u \in Folks \cup {"none"} :
                  Identity!CreateDsar(r, asked, e, u)
    PROVE  IdInv'
<1>1. IdTypes
  BY DEF IdInv
<1>2. ASSUME UNCHANGED <<account, interrupted, rewritten>>, \A u \in Folks : Revoking(u) => Revoking(u)'
      PROVE  \A u \in Folks : /\ Identity!Exists(u) => Identity!Exists(u)'
                              /\ Identity!Erased(u) => Identity!Erased(u)'
                              /\ Cleared(u)' => Cleared(u)
                              /\ AccountHolds(u)'
  BY <1>2 DEF IdInv, Identity!Exists, Identity!Erased, Cleared, AccountHolds
<1>3. UNCHANGED desk => \A u \in Folks : Revoking(u) => Revoking(u)'
  BY DEF Revoking
<1>4. ASSUME UNCHANGED <<account, linked, request, desk, interrupted, rewritten>>,
             session' \in [Tokens -> SessionRows],
             \A k \in Tokens : session'[k] = session[k] \/ ~session'[k].live
      PROVE  IdInv'
  <2>1. IdTypes'
    BY <1>1, <1>4 DEF IdTypes
  <2> QED
    BY <1>2, <1>3, <1>4, <2>1, IdentityKept
<1>5. ASSUME NEW k \in Tokens, Identity!Logout(k) PROVE IdInv'
  <2>1. /\ session' = [session EXCEPT ![k].live = FALSE]
        /\ UNCHANGED <<account, linked, request, desk, interrupted, rewritten>>
    BY <1>5 DEF Identity!Logout
  <2>2. [session[k] EXCEPT !.live = FALSE] \in SessionRows /\ ~[session[k] EXCEPT !.live = FALSE].live
    BY <1>1, <1>5 DEF IdTypes, SessionRows
  <2>3. session' \in [Tokens -> SessionRows] /\ \A j \in Tokens : session'[j] = session[j] \/ ~session'[j].live
    BY <1>1, <1>5, <2>1, <2>2 DEF IdTypes
  <2> QED
    BY <1>4, <2>1, <2>3
<1>6. ASSUME NEW u \in Folks, Identity!LogoutAll(u) PROVE IdInv'
  <2>1. /\ session' = [k \in Tokens |-> IF session[k].user = u THEN [session[k] EXCEPT !.live = FALSE] ELSE session[k]]
        /\ UNCHANGED <<account, linked, request, desk, interrupted, rewritten>>
    BY <1>6 DEF Identity!LogoutAll, Identity!Revoked
  <2>2. \A k \in Tokens : session'[k] \in SessionRows /\ (session'[k] = session[k] \/ ~session'[k].live)
    BY <1>1, <2>1 DEF IdTypes, SessionRows
  <2>3. session' \in [Tokens -> SessionRows]
    BY <2>1, <2>2
  <2> QED
    BY <1>4, <2>1, <2>2, <2>3
<1>7. ASSUME NEW gone \in SUBSET Tokens, Identity!Prune(gone) PROVE IdInv'
  <2>1. /\ session' = [k \in Tokens |-> IF k \in gone THEN Identity!NoSession ELSE session[k]]
        /\ desk' = [d \in Desks |-> IF desk[d].op = "switch" /\ desk[d].on \in gone
                                    THEN [desk[d] EXCEPT !.on = "none"] ELSE desk[d]]
        /\ UNCHANGED <<account, linked, request, interrupted, rewritten>>
    BY <1>7 DEF Identity!Prune
  <2>2. Identity!NoSession \in SessionRows /\ ~Identity!NoSession.live
    BY DEF Identity!NoSession, SessionRows, Ways
  <2>3. /\ session' \in [Tokens -> SessionRows]
        /\ \A k \in Tokens : session'[k] = session[k] \/ ~session'[k].live
    BY <1>1, <2>1, <2>2 DEF IdTypes
  <2>4. ASSUME NEW d \in Desks
        PROVE  /\ desk'[d] \in DeskRows
               /\ \/ desk'[d] = desk[d]
                  \/ /\ desk'[d].op = "switch" /\ desk[d].op = "switch" /\ desk'[d].at = desk[d].at
                     /\ desk'[d].user = desk[d].user /\ desk'[d].via = desk[d].via
                     /\ desk'[d].late = desk[d].late
    <3>1. desk[d] \in DeskRows
      BY <1>1, <2>4 DEF IdTypes
    <3>2. [desk[d] EXCEPT !.on = "none"] \in DeskRows
      BY <3>1 DEF DeskRows
    <3>3. CASE desk[d].op = "switch" /\ desk[d].on \in gone
      <4>1. desk'[d] = [desk[d] EXCEPT !.on = "none"]
        BY <2>1, <2>4, <3>3
      <4> QED
        BY <3>1, <3>2, <3>3, <4>1 DEF DeskRows
    <3>4. CASE ~(desk[d].op = "switch" /\ desk[d].on \in gone)
      BY <2>1, <2>4, <3>1, <3>4
    <3> QED
      BY <3>3, <3>4
  <2>5. desk' \in [Desks -> DeskRows]
    BY <2>1, <2>4
  <2>6. IdTypes'
    BY <1>1, <2>1, <2>3, <2>5 DEF IdTypes
  <2>7. ASSUME NEW u \in Folks, Revoking(u) PROVE Revoking(u)'
    <3>1. PICK d \in Desks : desk[d].op = "delete" /\ desk[d].at = "revoke" /\ desk[d].user = u
      BY <2>7 DEF Revoking
    <3>2. desk'[d] = desk[d]
      BY <2>4, <3>1
    <3> QED
      BY <3>1, <3>2 DEF Revoking
  <2>8. \A u \in Folks : /\ Identity!Exists(u) => Identity!Exists(u)'
                         /\ Identity!Erased(u) => Identity!Erased(u)'
                         /\ Cleared(u)' => Cleared(u)
                         /\ AccountHolds(u)'
    BY <1>2, <2>1, <2>7
  <2>9. ASSUME NEW d \in Desks, desk'[d] # desk[d] PROVE OpeningHolds(d)' /\ AskingHolds(d)'
    <3>1. /\ desk'[d].op = "switch" /\ desk[d].op = "switch" /\ desk'[d].at = desk[d].at
          /\ desk'[d].user = desk[d].user /\ desk'[d].via = desk[d].via /\ desk'[d].late = desk[d].late
      BY <2>4, <2>9
    <3>2. OpeningHolds(d) /\ AskingHolds(d)
      BY <2>9 DEF IdInv
    <3>3. OpeningHolds(d)'
      BY <2>8, <3>1, <3>2 DEF OpeningHolds
    <3>4. AskingHolds(d)'
      BY <3>1, <3>2 DEF AskingHolds, Asking
    <3> QED
      BY <3>3, <3>4
  <2> QED
    BY <2>1, <2>3, <2>6, <2>8, <2>9, IdentityKept
<1>8. ASSUME NEW u \in Folks, NEW stand \in {"active", "suspended"}, Identity!Patch(u, stand)
      PROVE  IdInv'
  <2>1. /\ account' = [account EXCEPT ![u].status = stand]
        /\ rewritten' = IF account[u].status = "deleted" THEN rewritten \cup {u} ELSE rewritten
        /\ UNCHANGED <<linked, session, request, desk, interrupted>>
    BY <1>8 DEF Identity!Patch
  <2>2. /\ account' \in [Folks -> AccountRows]
        /\ \A v \in Folks : /\ Identity!Exists(v) <=> Identity!Exists(v)'
                            /\ Identity!Erased(v) <=> Identity!Erased(v)'
                            /\ AccountHolds(v)'
    BY <1>8, <2>1, StatusWritten
  <2>3. IdTypes' /\ \A v \in Folks : Cleared(v)' => Cleared(v)
    BY <1>1, <1>3, <2>1, <2>2 DEF IdTypes, Cleared
  <2> QED
    BY <2>1, <2>2, <2>3, IdentityKept
<1>9. ASSUME NEW u \in Folks, NEW e \in Emails, NEW stand \in {"active", "suspended"},
             Identity!Provision(u, e, stand)
      PROVE  IdInv'
  <2> SUFFICES ASSUME NEW made, made = [email |-> e, password |-> FALSE, status |-> stand] PROVE IdInv'
    OBVIOUS
  <2>1. /\ ~Identity!Exists(u)
        /\ account' = [account EXCEPT ![u] = made]
        /\ UNCHANGED <<linked, session, request, desk, interrupted, rewritten>>
    BY <1>9 DEF Identity!Provision
  <2>2. made \in AccountRows /\ made.email = e /\ e # "redacted" /\ e # "none"
    BY <1>9 DEF AccountRows, EmailsAreReal
  <2>3. /\ account' \in [Folks -> AccountRows]
        /\ account'[u] = made /\ \A v \in Folks \ {u} : account'[v] = account[v]
    BY <1>1, <1>9, <2>1, <2>2 DEF IdTypes
  <2>4. IdTypes'
    BY <1>1, <2>1, <2>3 DEF IdTypes
  <2>5. ASSUME NEW v \in Folks
        PROVE  /\ Identity!Exists(v) => Identity!Exists(v)'
               /\ Identity!Erased(v) => Identity!Erased(v)'
               /\ Cleared(v)' => Cleared(v)
               /\ AccountHolds(v)'
    <3>1. CASE v = u
      BY <2>1, <2>2, <2>3, <3>1 DEF Identity!Exists, Identity!Erased, Cleared, AccountHolds
    <3>2. CASE v # u
      BY <1>3, <2>1, <2>3, <2>5, <3>2 DEF IdInv, Identity!Exists, Identity!Erased, Cleared, AccountHolds
    <3> QED
      BY <3>1, <3>2
  <2> QED
    BY <2>1, <2>4, <2>5, IdentityKept
<1>10. ASSUME NEW r \in Erasures, NEW asked \in {"delete", "restrict"}, NEW e \in Emails,
              NEW u \in Folks \cup {"none"}, Identity!CreateDsar(r, asked, e, u)
       PROVE  IdInv'
  <2> SUFFICES ASSUME NEW made, made = [kind |-> asked, status |-> "received", email |-> e, user |-> u]
               PROVE  IdInv'
    OBVIOUS
  <2>1. /\ request[r].status = "none"
        /\ u # "none" => Identity!Exists(u)
        /\ request' = [request EXCEPT ![r] = made]
        /\ UNCHANGED <<account, linked, session, desk, interrupted, rewritten>>
    BY <1>10 DEF Identity!CreateDsar
  <2>2. made \in RequestRows
    BY <1>10 DEF RequestRows, Asking
  <2>3. /\ request' \in [Erasures -> RequestRows]
        /\ request'[r] = made /\ \A q \in Erasures \ {r} : request'[q] = request[q]
    BY <1>1, <1>10, <2>1, <2>2 DEF IdTypes
  <2>4. IdTypes'
    BY <1>1, <2>1, <2>3 DEF IdTypes
  <2>5. \A v \in Folks : /\ Identity!Exists(v) => Identity!Exists(v)'
                         /\ Identity!Erased(v) => Identity!Erased(v)'
                         /\ Cleared(v)' => Cleared(v)
                         /\ AccountHolds(v)'
    BY <1>2, <1>3, <2>1
  <2>6. RequestHolds(r)'
    BY <1>10, <2>1, <2>3, <2>5 DEF RequestHolds, Asking
  <2> QED
    BY <2>1, <2>3, <2>4, <2>5, <2>6, IdentityKept
<1> QED
  BY <1>5, <1>6, <1>7, <1>8, <1>9, <1>10

LEMMA IdentityStep ==
    ASSUME EmailsAreReal PROVE IdInv /\ [Identity!Next]_Identity!vars => IdInv'
<1> SUFFICES ASSUME IdInv, [Identity!Next]_Identity!vars PROVE IdInv'
  OBVIOUS
<1>1. ASSUME Identity!AccountNext PROVE IdInv'
  <2>1. ASSUME NEW d \in Desks,
               \/ \E u \in Folks : \/ Identity!Login(d, u)
                                   \/ \E e \in Emails : Identity!Register(d, u, e) \/ Identity!Callback(d, e, u)
               \/ \E k \in Tokens : Identity!BeginSwitch(d, k) \/ Identity!OpenSession(d, k)
               \/ Identity!RevokeSwitched(d)
        PROVE  IdInv'
    BY <2>1, OpeningSteps
  <2>2. ASSUME NEW d \in Desks,
               \/ \E r \in Erasures : Identity!BeginDsar(d, r)
               \/ Identity!ClearIdentity(d) \/ Identity!SuspendUser(d)
               \/ Identity!CompleteDsar(d) \/ Identity!Throw(d)
        PROVE  IdInv'
    BY <2>2, AskingSteps
  <2>3. ASSUME NEW d \in Desks, Identity!RevokeSessions(d) PROVE IdInv'
    BY <2>3, SessionsRevoked
  <2>4. ASSUME \/ \E k \in Tokens : Identity!Logout(k)
               \/ \E u \in Folks, stand \in {"active", "suspended"} :
                      Identity!Patch(u, stand) \/ \E e \in Emails : Identity!Provision(u, e, stand)
               \/ \E u \in Folks : Identity!LogoutAll(u)
               \/ \E gone \in SUBSET Tokens : Identity!Prune(gone)
               \/ \E r \in Erasures, asked \in {"delete", "restrict"}, e \in Emails, u \in Folks \cup {"none"} :
                      Identity!CreateDsar(r, asked, e, u)
        PROVE  IdInv'
    BY <2>4, PlainCalls
  <2> QED
    BY <1>1, <2>1, <2>2, <2>3, <2>4 DEF Identity!AccountNext
<1>2. ASSUME UNCHANGED Identity!accountVars PROVE IdInv'
  <2>1. UNCHANGED <<account, linked, session, request, desk, interrupted, rewritten>>
    BY <1>2 DEF Identity!accountVars
  <2>2. IdTypes' /\ \A u \in Folks : Revoking(u) => Revoking(u)'
    BY <2>1 DEF IdInv, IdTypes, Revoking
  <2> QED
    BY <2>1, <2>2, AccountUntouched DEF IdInv, IdTypes
<1> QED
  BY <1>1, <1>2 DEF Identity!Next, Identity!vars

\* The invariant holds at first, every step keeps it, and it has what is to hold in it.
LEMMA IdentityInductive ==
    ASSUME EmailsAreReal
    PROVE  /\ Identity!AccountInit => IdInv
           /\ IdInv /\ [Identity!Next]_(Identity!vars) => IdInv'
           /\ IdInv => Identity!ErasureHolds
<1>1. ASSUME Identity!AccountInit PROVE IdInv
  <2>1. /\ account = [u \in Folks |-> Identity!NoAccount]
        /\ linked = [e \in Emails |-> "none"]
        /\ session = [k \in Tokens |-> Identity!NoSession]
        /\ request = [r \in Erasures |-> [kind |-> "none", status |-> "none", email |-> "none", user |-> "none"]]
        /\ desk = [d \in Desks |-> Identity!Closed]
    BY <1>1 DEF Identity!AccountInit
  <2>2. IdTypes
    BY <2>1 DEF IdTypes, Identity!NoAccount, Identity!NoSession, Identity!Closed, AccountRows,
                SessionRows, RequestRows, DeskRows, Ways
  <2>3. ASSUME NEW u \in Folks PROVE ~Identity!Erased(u)
    BY <2>1 DEF Identity!Erased, Identity!NoAccount
  <2>4. \A u \in Folks : AccountHolds(u)
    BY <2>3 DEF AccountHolds
  <2>5. \A k \in Tokens : SessionHolds(k)
    BY <2>1 DEF SessionHolds, Identity!NoSession
  <2>6. \A d \in Desks : OpeningHolds(d) /\ AskingHolds(d)
    BY <2>1 DEF OpeningHolds, AskingHolds, Identity!Closed, Opening, Asking
  <2>7. \A r \in Erasures : RequestHolds(r)
    BY <2>1 DEF RequestHolds
  <2> QED
    BY <2>2, <2>4, <2>5, <2>6, <2>7 DEF IdInv
<1>2. ASSUME IdInv PROVE Identity!ErasureHolds
  <2>1. ASSUME NEW u \in Folks, Identity!Erased(u), ~Identity!Erasing(u), u \notin interrupted
        PROVE  Cleared(u)
    BY <2>1 DEF Cleared, Revoking, Identity!Erasing
  <2>2. \A u \in Folks : AccountHolds(u)
    BY <1>2 DEF IdInv
  <2>3. \A k \in Tokens : SessionHolds(k)
    BY <1>2 DEF IdInv
  <2>4. \A r \in Erasures : RequestHolds(r)
    BY <1>2 DEF IdInv
  <2> QED
    BY <2>1, <2>2, <2>3, <2>4 DEF Identity!ErasureHolds, AccountHolds, SessionHolds, RequestHolds
<1> QED
  BY <1>1, <1>2, IdentityStep

\* auth.service.ts:405-424 and privacy.service.ts:501-527: for any number of users, sessions,
\* requests and calls, and wherever a call is cut, a user who was erased has no password, is
\* deleted unless his status was written again, and once nobody is at work on his erasure and none
\* was cut has no live session but those of calls that began before his sessions were revoked or
\* that the identity provider vouches for; a completed request erased the user it names.
THEOREM ErasureCorrect ==
    ASSUME EmailsAreReal
    PROVE  Identity!Spec => []Identity!ErasureHolds
BY IdentityInductive, PTL DEF Identity!Spec, Identity!Init
-----------------------------------------------------------------------------
(* Signing in: the identity provider and the second factor *)

ArrivalRows == [at : {"idle", "exchange", "link", "member", "session", "consume"},
                with : States \cup {"none"}]

ProviderTypes ==
    /\ state \in [States -> {"new", "out", "old", "gone"}]
    /\ joined \in BOOLEAN /\ belongs \in BOOLEAN /\ halted \in BOOLEAN
    /\ opened \in [States -> Nat]
    /\ arrival \in [Arrivals -> ArrivalRows]

\* The link and the membership are one call's to make: a link without a membership is of a call
\* that has yet to come to it, or that never did.
LinkHolds ==
    /\ joined => belongs \/ halted \/ \E a \in Arrivals : arrival[a].at = "member"
    /\ \A a \in Arrivals : arrival[a].at \in {"member", "session", "consume"} => joined
    /\ \A x \in States : opened[x] > 0 => joined

\* A state that no two calls had has one call at most, and once it opened a session it is deleted
\* or that call is about to delete it.
StateHolds(x) ==
    /\ state[x] = "new" => opened[x] = 0 /\ \A a \in Arrivals : arrival[a].with # x
    /\ x \notin reused =>
           /\ \A a, o \in Arrivals : arrival[a].with = x /\ arrival[o].with = x => a = o
           /\ opened[x] > 0 =>
                  /\ opened[x] = 1
                  /\ \A a \in Arrivals : arrival[a].with = x => arrival[a].at = "consume"
                  /\ state[x] = "gone" \/ \E a \in Arrivals : arrival[a].with = x

ProviderInv ==
    /\ ProviderTypes
    /\ LinkHolds
    /\ \A x \in States : StateHolds(x)
    /\ \A a \in Arrivals : arrival[a].at = "idle" <=> arrival[a].with = "none"

LEMMA IssueStep ==
    ASSUME ProviderInv, NEW a \in Arrivals, Sign!IssueSession(a)
    PROVE  ProviderInv'
<1>0. arrival[a].with \in States
  BY DEF ProviderInv, ProviderTypes, ArrivalRows, Sign!IssueSession
<1>1. /\ arrival[a].at = "session" /\ arrival[a].with \in States
      /\ opened' = [opened EXCEPT ![arrival[a].with] = @ + 1]
      /\ arrival' = [arrival EXCEPT ![a].at = "consume"]
      /\ UNCHANGED <<state, joined, belongs, halted, reused>>
  BY <1>0 DEF Sign!IssueSession, Sign!To
<1>2. /\ arrival'[a].at = "consume" /\ arrival'[a].with = arrival[a].with
      /\ \A o \in Arrivals \ {a} : arrival'[o] = arrival[o]
      /\ arrival' \in [Arrivals -> ArrivalRows] /\ opened' \in [States -> Nat]
      /\ opened'[arrival[a].with] = opened[arrival[a].with] + 1
      /\ \A x \in States \ {arrival[a].with} : opened'[x] = opened[x]
  BY <1>1 DEF ProviderInv, ProviderTypes, ArrivalRows
<1>3. LinkHolds'
  BY <1>1, <1>2 DEF ProviderInv, ProviderTypes, LinkHolds
<1>4. ASSUME NEW x \in States PROVE StateHolds(x)'
  <2>1. StateHolds(x) /\ opened[x] \in Nat
    BY DEF ProviderInv, ProviderTypes
  <2>2. \A o \in Arrivals : arrival'[o].with = arrival[o].with
    BY <1>2
  <2>3. CASE x = arrival[a].with
    BY <1>1, <1>2, <2>1, <2>2, <2>3 DEF StateHolds
  <2>4. CASE x # arrival[a].with
    BY <1>1, <1>2, <2>1, <2>2, <2>4 DEF StateHolds
  <2> QED
    BY <2>3, <2>4
<1> QED
  BY <1>1, <1>2, <1>3, <1>4 DEF ProviderInv, ProviderTypes

LEMMA CallbackStep ==
    ASSUME ProviderInv, NEW a \in Arrivals, NEW y \in States, Sign!Callback(a, y), "none" \notin States
    PROVE  ProviderInv'
<1>1. arrival[a] = Sign!Nobody /\ UNCHANGED <<joined, belongs, opened, halted>>
  BY DEF Sign!Callback
<1>2. CASE state[y] = "old"
  <2>1. /\ state' = [state EXCEPT ![y] = "gone"] /\ UNCHANGED <<arrival, reused>>
    BY <1>2 DEF Sign!Callback
  <2> QED
    BY <1>1, <1>2, <2>1 DEF ProviderInv, ProviderTypes, LinkHolds, StateHolds
<1>3. CASE state[y] # "old"
  <2>1. /\ state[y] = "out" /\ UNCHANGED state
        /\ arrival' = [arrival EXCEPT ![a] = [at |-> "exchange", with |-> y]]
        /\ reused' = IF \E o \in Arrivals : arrival[o].with = y THEN reused \cup {y} ELSE reused
    BY <1>3 DEF Sign!Callback
  <2>2. /\ arrival' \in [Arrivals -> ArrivalRows]
        /\ arrival'[a] = [at |-> "exchange", with |-> y]
        /\ \A o \in Arrivals \ {a} : arrival'[o] = arrival[o]
    BY <2>1 DEF ProviderInv, ProviderTypes, ArrivalRows
  <2>3. LinkHolds'
    BY <1>1, <2>1, <2>2 DEF ProviderInv, LinkHolds, Sign!Nobody
  <2>4. ASSUME NEW x \in States PROVE StateHolds(x)'
    <3>1. StateHolds(x) /\ opened[x] \in Nat
      BY DEF ProviderInv, ProviderTypes
    <3>2. arrival[a].with = "none"
      BY <1>1 DEF Sign!Nobody
    <3>3. CASE x = y
      BY <1>1, <2>1, <2>2, <3>1, <3>2, <3>3 DEF StateHolds
    <3>4. CASE x # y
      BY <1>1, <2>1, <2>2, <3>1, <3>2, <3>4 DEF StateHolds
    <3> QED
      BY <3>3, <3>4
  <2> QED
    BY <1>1, <2>1, <2>2, <2>3, <2>4 DEF ProviderInv, ProviderTypes
<1> QED
  BY <1>2, <1>3

\* A call moves from one statement to the next on the state it came with, before the session.
LEMMA MoveStep ==
    ASSUME ProviderInv, NEW a \in Arrivals, arrival[a].at \notin {"idle", "consume"},
           UNCHANGED <<state, opened, reused>>,
           joined' \in BOOLEAN, belongs' \in BOOLEAN, halted' \in BOOLEAN,
           arrival' \in [Arrivals -> ArrivalRows],
           \A o \in Arrivals \ {a} : arrival'[o] = arrival[o],
           \/ arrival'[a] = Sign!Nobody
           \/ arrival'[a].at \notin {"idle", "consume"} /\ arrival'[a].with = arrival[a].with,
           LinkHolds', "none" \notin States
    PROVE  ProviderInv'
<1>1. ASSUME NEW x \in States PROVE StateHolds(x)'
  <2>1. StateHolds(x) /\ opened[x] \in Nat
    BY DEF ProviderInv, ProviderTypes
  <2>2. \A o \in Arrivals : arrival'[o].with = x => arrival[o].with = x
    BY DEF Sign!Nobody
  <2>3. CASE arrival[a].with = x
    BY <2>1, <2>2, <2>3 DEF StateHolds
  <2>4. CASE arrival[a].with # x
    BY <2>1, <2>2, <2>4 DEF StateHolds, Sign!Nobody
  <2> QED
    BY <2>3, <2>4
<1> QED
  BY <1>1 DEF ProviderInv, ProviderTypes, Sign!Nobody

LEMMA LeavingStep ==
    ASSUME ProviderInv, NEW a \in Arrivals, "none" \notin States,
           Sign!Consume(a) \/ (Sign!Halt(a) /\ arrival[a].at = "consume")
    PROVE  ProviderInv'
<1>1. PICK y \in States : y = arrival[a].with
  BY DEF ProviderInv, ProviderTypes, ArrivalRows, Sign!Consume
<1>2. /\ arrival' = [arrival EXCEPT ![a] = Sign!Nobody]
      /\ joined' = joined /\ belongs' = belongs /\ opened' = opened /\ halted' = halted
      /\ \/ state' = [state EXCEPT ![y] = "gone"] /\ reused' = reused
         \/ state' = state /\ reused' = reused \cup {y}
  BY <1>1 DEF ProviderInv, ProviderTypes, Sign!Consume, Sign!Halt
<1>3. /\ arrival' \in [Arrivals -> ArrivalRows]
      /\ arrival'[a].at = "idle" /\ arrival'[a].with = "none"
      /\ \A o \in Arrivals \ {a} : arrival'[o] = arrival[o]
  BY <1>2 DEF ProviderInv, ProviderTypes, ArrivalRows, Sign!Nobody
<1>4. arrival[a].at = "consume"
  BY DEF Sign!Consume
<1>5. LinkHolds'
  BY <1>2, <1>3, <1>4 DEF ProviderInv, LinkHolds
<1>6. ASSUME NEW x \in States PROVE StateHolds(x)'
  <2>1. StateHolds(x) /\ opened[x] \in Nat /\ opened'[x] = opened[x]
    BY <1>2 DEF ProviderInv, ProviderTypes
  <2>2. /\ \A o \in Arrivals : arrival'[o].with = x => arrival'[o] = arrival[o] /\ o # a
        /\ x # y => state'[x] = state[x] /\ (x \in reused' <=> x \in reused)
        /\ x # y => \A o \in Arrivals : arrival[o].with = x => arrival'[o] = arrival[o]
    BY <1>1, <1>2, <1>3 DEF ProviderInv, ProviderTypes
  <2>3. CASE x = y
    <3>1. state[x] # "new"
      BY <1>1, <2>1, <2>3 DEF StateHolds
    <3>2. x \in reused' \/ (state'[x] = "gone" /\ (x \in reused' <=> x \in reused))
      BY <1>2, <2>3 DEF ProviderInv, ProviderTypes
    <3>3. state'[x] # "new"
      BY <1>2, <2>3, <3>1 DEF ProviderInv, ProviderTypes
    <3> QED
      BY <2>1, <2>2, <3>2, <3>3 DEF StateHolds
  <2>4. CASE x # y
    BY <2>1, <2>2, <2>4 DEF StateHolds
  <2> QED
    BY <2>3, <2>4
<1> QED
  BY <1>2, <1>3, <1>5, <1>6 DEF ProviderInv, ProviderTypes

\* The invariant holds at first, every step keeps it, and it has what is to hold in it.
LEMMA ProviderInductive ==
    ASSUME "none" \notin States
    PROVE  /\ Sign!ProviderInit => ProviderInv
           /\ ProviderInv /\ [Sign!Next]_(Sign!vars) => ProviderInv'
           /\ ProviderInv => Sign!SignInsAreWhole
<1>1. ASSUME Sign!ProviderInit PROVE ProviderInv
  <2>1. /\ state = [x \in States |-> "new"] /\ opened = [x \in States |-> 0]
        /\ joined = FALSE /\ belongs = FALSE /\ halted = FALSE /\ reused = {}
        /\ arrival = [a \in Arrivals |-> [at |-> "idle", with |-> "none"]]
    BY <1>1 DEF Sign!ProviderInit, Sign!Nobody
  <2>2. /\ \A a \in Arrivals : arrival[a].at = "idle" /\ arrival[a].with = "none"
        /\ \A x \in States : opened[x] = 0
    BY <2>1
  <2>3. ProviderTypes
    BY <2>1 DEF ProviderTypes, ArrivalRows
  <2>4. LinkHolds
    BY <2>1, <2>2 DEF LinkHolds
  <2>5. \A x \in States : StateHolds(x)
    BY <2>1, <2>2 DEF StateHolds
  <2> QED
    BY <2>2, <2>3, <2>4, <2>5 DEF ProviderInv
<1>2. ASSUME ProviderInv, [Sign!Next]_Sign!vars PROVE ProviderInv'
  <2> USE <1>2
  <2>1. ASSUME NEW active \in BOOLEAN, Sign!UpsertProvider(active) PROVE ProviderInv'
    BY <2>1 DEF ProviderInv, ProviderTypes, LinkHolds, StateHolds, Sign!UpsertProvider
  <2>2. ASSUME NEW x \in States, Sign!BuildAuthorizeUrl(x) PROVE ProviderInv'
    BY <2>2 DEF ProviderInv, ProviderTypes, LinkHolds, StateHolds, Sign!BuildAuthorizeUrl
  <2>3. ASSUME NEW x \in States, Sign!Expire(x) PROVE ProviderInv'
    BY <2>3 DEF ProviderInv, ProviderTypes, LinkHolds, StateHolds, Sign!Expire
  <2>4. ASSUME NEW a \in Arrivals, NEW x \in States, Sign!Callback(a, x) PROVE ProviderInv'
    BY <2>4, CallbackStep
  <2>5. ASSUME NEW a \in Arrivals,
               Sign!Exchange(a) \/ Sign!Link(a) \/ Sign!Join(a)
                   \/ (Sign!Halt(a) /\ arrival[a].at # "consume")
        PROVE  ProviderInv'
    <3>1. CASE Sign!Exchange(a)
      <4>1. /\ arrival' = [arrival EXCEPT ![a].at = IF joined THEN "session" ELSE "link"]
            /\ arrival[a].at = "exchange"
            /\ UNCHANGED <<state, joined, belongs, opened, halted, reused>>
        BY <3>1 DEF Sign!Exchange, Sign!To
      <4>2. /\ arrival' \in [Arrivals -> ArrivalRows]
            /\ \A o \in Arrivals \ {a} : arrival'[o] = arrival[o]
            /\ arrival'[a].at = (IF joined THEN "session" ELSE "link") /\ arrival'[a].with = arrival[a].with
        BY <4>1 DEF ProviderInv, ProviderTypes, ArrivalRows
      <4>3. LinkHolds'
        BY <4>1, <4>2 DEF ProviderInv, LinkHolds
      <4> QED
        BY <4>1, <4>2, <4>3, MoveStep DEF ProviderInv, ProviderTypes
    <3>2. CASE Sign!Link(a)
      <4>1. /\ arrival' = [arrival EXCEPT ![a] = IF joined THEN Sign!Nobody ELSE [@ EXCEPT !.at = "member"]]
            /\ arrival[a].at = "link" /\ joined' = TRUE
            /\ UNCHANGED <<state, belongs, opened, halted, reused>>
        BY <3>2 DEF Sign!Link
      <4>2. /\ arrival' \in [Arrivals -> ArrivalRows]
            /\ \A o \in Arrivals \ {a} : arrival'[o] = arrival[o]
            /\ joined => arrival'[a] = Sign!Nobody
            /\ ~joined => arrival'[a].at = "member" /\ arrival'[a].with = arrival[a].with
        BY <4>1 DEF ProviderInv, ProviderTypes, ArrivalRows, Sign!Nobody
      <4>3. LinkHolds'
        BY <4>1, <4>2 DEF ProviderInv, LinkHolds
      <4> QED
        BY <4>1, <4>2, <4>3, MoveStep DEF ProviderInv, ProviderTypes
    <3>3. CASE Sign!Join(a)
      <4>1. /\ arrival' = [arrival EXCEPT ![a].at = "session"]
            /\ arrival[a].at = "member" /\ belongs' = TRUE
            /\ UNCHANGED <<state, joined, opened, halted, reused>>
        BY <3>3 DEF Sign!Join, Sign!To
      <4>2. /\ arrival' \in [Arrivals -> ArrivalRows]
            /\ \A o \in Arrivals \ {a} : arrival'[o] = arrival[o]
            /\ arrival'[a].at = "session" /\ arrival'[a].with = arrival[a].with
        BY <4>1 DEF ProviderInv, ProviderTypes, ArrivalRows
      <4>3. LinkHolds'
        BY <4>1, <4>2 DEF ProviderInv, LinkHolds
      <4> QED
        BY <4>1, <4>2, <4>3, MoveStep DEF ProviderInv, ProviderTypes
    <3>4. CASE Sign!Halt(a) /\ arrival[a].at # "consume"
      <4>1. /\ arrival' = [arrival EXCEPT ![a] = Sign!Nobody] /\ arrival[a] # Sign!Nobody
            /\ halted' = (halted \/ arrival[a].at = "member")
            /\ UNCHANGED <<state, joined, belongs, opened, reused>>
        BY <3>4 DEF Sign!Halt
      <4>2. /\ arrival' \in [Arrivals -> ArrivalRows]
            /\ \A o \in Arrivals \ {a} : arrival'[o] = arrival[o]
            /\ arrival'[a] = Sign!Nobody
        BY <4>1 DEF ProviderInv, ProviderTypes, ArrivalRows, Sign!Nobody
      <4>3. LinkHolds'
        BY <4>1, <4>2 DEF ProviderInv, LinkHolds, Sign!Nobody
      <4>4. arrival[a].at # "idle"
        BY <4>1 DEF ProviderInv, ProviderTypes, ArrivalRows, Sign!Nobody
      <4>5. halted' \in BOOLEAN
        BY <4>1
      <4> QED
        BY <3>4, <4>1, <4>2, <4>3, <4>4, <4>5, MoveStep DEF ProviderInv, ProviderTypes
    <3> QED
      BY <2>5, <3>1, <3>2, <3>3, <3>4
  <2>6. ASSUME NEW a \in Arrivals, Sign!IssueSession(a) PROVE ProviderInv'
    BY <2>6, IssueStep
  <2>7. ASSUME NEW a \in Arrivals, Sign!Consume(a) \/ (Sign!Halt(a) /\ arrival[a].at = "consume")
        PROVE  ProviderInv'
    BY <2>7, LeavingStep
  <2>8. CASE Sign!Leave
    <3>1. belongs' = FALSE /\ halted' = TRUE /\ UNCHANGED <<state, joined, opened, arrival, reused>>
      BY <2>8 DEF Sign!Leave
    <3>2. ProviderTypes'
      BY <3>1 DEF ProviderInv, ProviderTypes
    <3>3. LinkHolds' /\ \A x \in States : StateHolds(x)'
      BY <3>1 DEF ProviderInv, LinkHolds, StateHolds
    <3> QED
      BY <3>1, <3>2, <3>3 DEF ProviderInv
  <2>9. CASE UNCHANGED Sign!providerVars
    BY <2>9 DEF ProviderInv, ProviderTypes, LinkHolds, StateHolds, Sign!providerVars
  <2> QED
    BY <2>1, <2>2, <2>3, <2>4, <2>5, <2>6, <2>7, <2>8, <2>9
    DEF Sign!Next, Sign!ProviderNext, Sign!vars
<1>3. ProviderInv => Sign!SignInsAreWhole
  BY DEF ProviderInv, ProviderTypes, LinkHolds, StateHolds, Sign!SignInsAreWhole
<1> QED
  BY <1>1, <1>2, <1>3

\* sso.service.ts:187-345: for any number of callbacks that overlap, whoever was given a session is
\* linked and belongs to the workspace, unless the call that made the link was cut short or has not
\* come to the membership; and a state opens one session, unless two calls had it or one was cut
\* short before deleting it.
THEOREM SignInsCorrect ==
    ASSUME "none" \notin States
    PROVE  Sign!Spec => []Sign!SignInsAreWhole
BY ProviderInductive, PTL DEF Sign!Spec, Sign!Init

FactorRows == [secret : Secrets \cup {"none"}, enabled : BOOLEAN]

FactorTypes ==
    /\ factor \in FactorRows
    /\ tab \in [Tabs -> [op : {"idle", "upsert", "enable", "delete"}, secret : Secrets \cup {"none"},
                         read : FactorRows]]

\* What a call read is what it checked: a secret is enabled on a code of the one that was read, and
\* replaced when the one that was read was not in use.
FactorInv ==
    /\ FactorTypes
    /\ Sign!FactorIsProven
    /\ \A s \in Tabs : /\ tab[s].op = "enable" => tab[s].read.secret \in proven
                       /\ tab[s].op = "upsert" => ~tab[s].read.enabled

\* The invariant holds at first, every step keeps it, and it has what is to hold in it.
LEMMA FactorInductive ==
    /\ Sign!FactorInit => FactorInv
    /\ FactorInv /\ [Sign!Next]_(Sign!vars) => FactorInv'
    /\ FactorInv => Sign!FactorIsProven
<1>1. Sign!FactorInit => FactorInv
  BY DEF Sign!FactorInit, Sign!NoFactor, Sign!Open, FactorRows, FactorInv, FactorTypes,
         Sign!FactorIsProven
<1>2. ASSUME FactorInv, [Sign!Next]_Sign!vars PROVE FactorInv'
  <2> USE <1>2
  <2>1. ASSUME NEW s \in Tabs, NEW x \in Secrets, Sign!EnrollStart(s, x) PROVE FactorInv'
    BY <2>1 DEF FactorInv, FactorTypes, FactorRows, Sign!FactorIsProven, Sign!EnrollStart, Sign!Goto
  <2>2. ASSUME NEW s \in Tabs, NEW next \in FactorRows,
               Sign!Write(s, next), proven' = proven,
               next.enabled => next.secret \in proven' \cup mixed',
               factor.enabled /\ ~next.enabled /\ tab[s].op # "delete" => factor.secret \in mixed'
        PROVE  FactorInv'
    <3>1. /\ factor' = next
          /\ tab' = [tab EXCEPT ![s] = Sign!Open]
          /\ dropped' = dropped \cup {x \in {factor.secret} : factor.enabled /\ ~next.enabled /\ tab[s].op # "delete"}
          /\ mixed' = mixed \cup {x \in {factor.secret, next.secret} : tab[s].read # factor}
      BY <2>2 DEF Sign!Write, Sign!At
    <3>2. FactorTypes'
      BY <2>2, <3>1 DEF FactorInv, FactorTypes, FactorRows, Sign!Open, Sign!NoFactor
    <3>3. Sign!FactorIsProven'
      BY <2>2, <3>1 DEF FactorInv, Sign!FactorIsProven
    <3>4. \A t \in Tabs : /\ tab'[t].op = "enable" => tab'[t].read.secret \in proven'
                          /\ tab'[t].op = "upsert" => ~tab'[t].read.enabled
      BY <2>2, <3>1 DEF FactorInv, FactorTypes, Sign!Open
    <3> QED
      BY <3>2, <3>3, <3>4 DEF FactorInv
  <2>3. ASSUME NEW s \in Tabs, Sign!UpsertSecret(s) PROVE FactorInv'
    <3>1. PICK next : next = [secret |-> tab[s].secret, enabled |-> FALSE]
      OBVIOUS
    <3>2. next \in FactorRows /\ next.enabled = FALSE
      BY <3>1 DEF FactorInv, FactorTypes, FactorRows
    <3>3. Sign!Write(s, next) /\ proven' = proven /\ tab[s].op = "upsert"
      BY <2>3, <3>1 DEF Sign!UpsertSecret, Sign!At
    <3>4. factor.enabled => factor.secret \in mixed'
      BY <3>3 DEF FactorInv, Sign!Write
    <3> QED
      BY <2>2, <3>2, <3>3, <3>4
  <2>4. ASSUME NEW s \in Tabs, Sign!EnrollVerify(s) PROVE FactorInv'
    BY <2>4 DEF FactorInv, FactorTypes, FactorRows, Sign!FactorIsProven, Sign!EnrollVerify, Sign!Goto
  <2>5. ASSUME NEW s \in Tabs, Sign!Enable(s) PROVE FactorInv'
    <3>1. PICK next : next = IF factor = Sign!NoFactor THEN Sign!NoFactor ELSE [factor EXCEPT !.enabled = TRUE]
      OBVIOUS
    <3>2. /\ next \in FactorRows
          /\ next.enabled => next.secret = factor.secret
          /\ factor.enabled => next.enabled
      BY <3>1 DEF FactorInv, FactorTypes, FactorRows, Sign!NoFactor
    <3>3. Sign!Write(s, next) /\ proven' = proven /\ tab[s].op = "enable"
      BY <2>5, <3>1 DEF Sign!Enable, Sign!At
    <3>4. factor.secret \in proven' \cup mixed'
      BY <3>3 DEF FactorInv, Sign!Write
    <3> QED
      BY <2>2, <3>2, <3>3, <3>4
  <2>6. ASSUME NEW s \in Tabs, Sign!Disable(s) PROVE FactorInv'
    BY <2>6 DEF FactorInv, FactorTypes, FactorRows, Sign!FactorIsProven, Sign!Disable, Sign!Goto
  <2>7. ASSUME NEW s \in Tabs, Sign!DeleteFactor(s) PROVE FactorInv'
    <3>1. Sign!NoFactor \in FactorRows /\ ~Sign!NoFactor.enabled
      BY DEF FactorRows, Sign!NoFactor
    <3> QED
      BY <2>2, <2>7, <3>1 DEF Sign!DeleteFactor, Sign!At
  <2>8. CASE Sign!ResetDevice
    BY <2>8 DEF FactorInv, FactorTypes, Sign!FactorIsProven, Sign!ResetDevice
  <2>9. ASSUME NEW s \in Tabs, Sign!CutTab(s) PROVE FactorInv'
    BY <2>9 DEF FactorInv, FactorTypes, FactorRows, Sign!FactorIsProven, Sign!CutTab, Sign!Open, Sign!NoFactor
  <2>10. CASE UNCHANGED Sign!factorVars
    BY <2>10 DEF FactorInv, FactorTypes, Sign!FactorIsProven, Sign!factorVars
  <2> QED
    BY <2>1, <2>3, <2>4, <2>5, <2>6, <2>7, <2>8, <2>9, <2>10 DEF Sign!Next, Sign!FactorNext, Sign!vars
<1>3. FactorInv => Sign!FactorIsProven
  BY DEF FactorInv
<1> QED
  BY <1>1, <1>2, <1>3

\* mfa.service.ts:27-57: for any number of calls, the secret in use is one the user gave a code of,
\* and a secret in use is not replaced, unless a call wrote on a row that had changed since it read.
THEOREM FactorCorrect == Sign!Spec => []Sign!FactorIsProven
BY FactorInductive, PTL DEF Sign!Spec, Sign!Init
-----------------------------------------------------------------------------
(* Accounts: how old what a request is let in on can be *)

CallRows == [at : {"away", "asking", "waiting", "admitted", "refused", "nowhere"},
             left : Seq(Identity!Questions), heard : Seq(Identity!Questions),
             answer : BOOLEAN, since : Nat]

GateTypes ==
    /\ now \in Nat /\ now >= 1
    /\ truth \in [session : BOOLEAN, membership : BOOLEAN, grant : BOOLEAN, open : BOOLEAN]
    /\ turned \in [Identity!Questions -> Nat]
    /\ memo \in [Identity!Questions -> [answer : BOOLEAN, until : Nat]]
    /\ visit \in [Visits -> CallRows]

\* f was b at t or later
Was(f, b, t) == Identity!True(f, truth) = b \/ (turned[f] > 0 /\ turned[f] >= t)

\* How long k lookups can take
Span(k) == Slow * k

\* How old the i-th of n answers can be, which was about f
AgeOf(f, n, i) == Identity!Keep(f) + Span(1 + n - i)

\* An entry was brought by a lookup that ended when it was written.
MemoHolds(f) ==
    memo[f].until > 0 =>
        /\ memo[f].until - Identity!Keep(f) <= now
        /\ Was(f, memo[f].answer, memo[f].until - Identity!Keep(f) - Slow)

\* What a request has heard is as old as its map allows and the lookups since then have taken.
\* While it waits, that is so at the moment its last lookup began.
AllFresh(heard, t) ==
    \A i \in 1 .. Len(heard) : Was(heard[i], TRUE, t - AgeOf(heard[i], Len(heard), i))

LastWas(heard) ==
    LET n == Len(heard) IN n >= 1 /\ Was(heard[n], FALSE, now - AgeOf(heard[n], n, n))

CallHolds(call) ==
    /\ call.at \in {"asking", "waiting"} => call.left # <<>>
    /\ call.at \in {"asking", "admitted"} => AllFresh(call.heard, now)
    /\ call.at = "waiting" =>
           /\ call.since <= now /\ now <= call.since + Slow
           /\ Was(Head(call.left), call.answer, call.since)
           /\ AllFresh(call.heard, call.since)
    /\ call.at \in {"refused", "nowhere"} => LastWas(call.heard)

GateInv ==
    /\ GateTypes
    /\ \A f \in Identity!Questions : MemoHolds(f)
    /\ \A v \in Visits : CallHolds(visit[v])

LEMMA Spans ==
    ASSUME TimesAreNumbers
    PROVE  /\ Span(1) = Slow
           /\ \A k \in Nat : Span(k) \in Nat /\ Span(k + 1) = Span(k) + Slow
           /\ \A f : Identity!Keep(f) \in Nat
<1>1. ASSUME NEW q \in Nat, NEW k \in Nat PROVE q * k \in Nat /\ q * (k + 1) = q * k + q /\ q * 1 = q
  BY <1>1
<1>2. Span(1) = Slow /\ \A k \in Nat : Span(k) \in Nat /\ Span(k + 1) = Span(k) + Slow
  BY <1>1 DEF TimesAreNumbers, Span
<1> QED
  BY <1>2 DEF TimesAreNumbers, Identity!Keep

LEMMA RowFacts ==
    ASSUME NEW call \in CallRows
    PROVE  /\ call.left \in Seq(Identity!Questions) /\ call.heard \in Seq(Identity!Questions)
           /\ Len(call.heard) \in Nat /\ DOMAIN call.heard = 1 .. Len(call.heard)
           /\ \A i \in 1 .. Len(call.heard) : call.heard[i] \in Identity!Questions
           /\ call.left # <<>> => /\ Head(call.left) \in Identity!Questions
                                  /\ Tail(call.left) \in Seq(Identity!Questions)
           /\ call.since \in Nat /\ call.answer \in BOOLEAN
<1>1. /\ call.left \in Seq(Identity!Questions) /\ call.heard \in Seq(Identity!Questions)
      /\ call.since \in Nat /\ call.answer \in BOOLEAN
  BY DEF CallRows
<1>2. ASSUME NEW S, NEW s \in Seq(S)
      PROVE  /\ Len(s) \in Nat /\ DOMAIN s = 1 .. Len(s) /\ \A i \in 1 .. Len(s) : s[i] \in S
             /\ s # <<>> => Head(s) \in S /\ Tail(s) \in Seq(S)
  BY <1>2
<1> QED
  BY <1>1, <1>2

LEMMA TruthIsKnown ==
    ASSUME NEW r \in [session : BOOLEAN, membership : BOOLEAN, grant : BOOLEAN, open : BOOLEAN],
           NEW f \in Identity!Questions
    PROVE  Identity!True(f, r) \in BOOLEAN
BY DEF Identity!True, Identity!Questions

\* An earlier moment is easier.
LEMMA WasBefore ==
    ASSUME NEW f, NEW b, NEW t \in Int, NEW s \in Int, s <= t, turned[f] \in Nat, Was(f, b, t)
    PROVE  Was(f, b, s)
BY DEF Was

\* A request that hears an answer that was right as lately as its map allows
LEMMA HeardHolds ==
    ASSUME TimesAreNumbers, GateTypes, NEW call \in CallRows, call.left # <<>>,
           NEW b \in BOOLEAN,
           Was(Head(call.left), b, now - Identity!Keep(Head(call.left)) - Slow),
           \A i \in 1 .. Len(call.heard) :
               Was(call.heard[i], TRUE, now - AgeOf(call.heard[i], Len(call.heard) + 1, i))
    PROVE  LET next == Identity!Heard(call, Head(call.left), b)
           IN  next \in CallRows /\ CallHolds(next) /\ next.at # "waiting" /\ next.at # "away"
<1>a. PICK f : f = Head(call.left)
  OBVIOUS
<1>b. PICK next : next = Identity!Heard(call, f, b)
  OBVIOUS
<1>c. PICK n : n = Len(call.heard)
  OBVIOUS
<1>1. /\ call.left \in Seq(Identity!Questions) /\ call.heard \in Seq(Identity!Questions) /\ n \in Nat
      /\ f \in Identity!Questions /\ Tail(call.left) \in Seq(Identity!Questions)
  BY <1>a, <1>c, RowFacts
<1>2. /\ next.heard = Append(call.heard, f)
      /\ next.left = IF b THEN Tail(call.left) ELSE <<>>
      /\ next.at = IF ~b THEN (IF f = "home" THEN "nowhere" ELSE "refused")
                   ELSE IF Tail(call.left) = <<>> THEN "admitted" ELSE "asking"
      /\ next.answer = FALSE /\ next.since = 0
      /\ next \in CallRows
  <2>a. PICK rest : rest = IF b THEN Tail(call.left) ELSE <<>>
    OBVIOUS
  <2>b. PICK said : said = Append(call.heard, f)
    OBVIOUS
  <2>c. PICK at : at = IF ~b THEN (IF f = "home" THEN "nowhere" ELSE "refused")
                       ELSE IF Tail(call.left) = <<>> THEN "admitted" ELSE "asking"
    OBVIOUS
  <2>1. rest \in Seq(Identity!Questions) /\ said \in Seq(Identity!Questions)
    BY <1>1, <2>a, <2>b
  <2>2. next = [call EXCEPT !.heard = said, !.left = rest, !.at = at, !.answer = FALSE, !.since = 0]
    BY <1>b, <2>a, <2>b, <2>c DEF Identity!Heard, CallRows
  <2>3. at \in {"nowhere", "refused", "admitted", "asking"}
    BY <2>c
  <2>4. /\ next.heard = said /\ next.left = rest /\ next.at = at /\ next.answer = FALSE /\ next.since = 0
        /\ next \in CallRows
    BY <2>1, <2>2, <2>3 DEF CallRows
  <2> QED
    BY <2>4, <2>a, <2>b, <2>c
<1>3. /\ Len(next.heard) = n + 1 /\ next.heard[n + 1] = f
      /\ \A i \in 1 .. n : next.heard[i] = call.heard[i]
  BY <1>1, <1>2, <1>c
<1>4. Was(f, b, now - AgeOf(f, n + 1, n + 1))
  <2>1. AgeOf(f, n + 1, n + 1) = Identity!Keep(f) + Slow /\ Identity!Keep(f) \in Nat
    <3>1. 1 + (n + 1) - (n + 1) = 1
      BY <1>1
    <3> QED
      BY <3>1, Spans DEF AgeOf
  <2>2. now - AgeOf(f, n + 1, n + 1) = now - Identity!Keep(f) - Slow
    BY <2>1 DEF GateTypes, TimesAreNumbers
  <2> QED
    BY <1>a, <2>2
<1>5. \A i \in 1 .. n + 1 : b => Was(next.heard[i], TRUE, now - AgeOf(next.heard[i], n + 1, i))
  <2>1. \A i \in 1 .. n + 1 : i \in 1 .. n \/ i = n + 1
    BY <1>1
  <2> QED
    BY <1>3, <1>4, <1>c, <2>1
<1>6. CallHolds(next) /\ next.at # "waiting" /\ next.at # "away"
  <2>1. CASE b
    <3>1. next.at \in {"asking", "admitted"} /\ (next.at = "asking" => next.left # <<>>)
      BY <1>2, <2>1
    <3>2. AllFresh(next.heard, now)
      BY <1>3, <1>5, <2>1 DEF AllFresh
    <3> QED
      BY <3>1, <3>2 DEF CallHolds
  <2>2. CASE ~b
    <3>1. next.at \in {"refused", "nowhere"} /\ b = FALSE
      BY <1>2, <2>2
    <3>2. n + 1 >= 1
      BY <1>1
    <3>3. LastWas(next.heard)
      BY <1>3, <1>4, <3>1, <3>2 DEF LastWas
    <3> QED
      BY <3>1, <3>3 DEF CallHolds
  <2> QED
    BY <2>1, <2>2
<1> QED
  BY <1>2, <1>6, <1>a, <1>b

\* More answers make the ones before no younger.
LEMMA AgesGrow ==
    ASSUME TimesAreNumbers, NEW f, NEW n \in Nat, NEW i \in 1 .. n
    PROVE  AgeOf(f, n, i) \in Nat /\ AgeOf(f, n + 1, i) = AgeOf(f, n, i) + Slow
<1>1. 1 + n - i \in Nat /\ 1 + (n + 1) - i = (1 + n - i) + 1
  OBVIOUS
<1>2. Span(1 + n - i) \in Nat /\ Span(1 + (n + 1) - i) = Span(1 + n - i) + Slow /\ Identity!Keep(f) \in Nat
  BY <1>1, Spans
<1> QED
  BY <1>2 DEF AgeOf, TimesAreNumbers

LEMMA AskHolds ==
    ASSUME TimesAreNumbers, GateInv, NEW call \in CallRows, CallHolds(call), call.at # "away"
    PROVE  LET next == Identity!Ask(call)
           IN  next \in CallRows /\ CallHolds(next) /\ next.at # "away"
<1>a. PICK f : f = Head(call.left)
  OBVIOUS
<1>b. PICK n : n = Len(call.heard)
  OBVIOUS
<1>1. CASE call.at # "asking"
  BY <1>1 DEF Identity!Ask
<1>2. CASE call.at = "asking"
  <2>1. /\ call.left # <<>> /\ call.left \in Seq(Identity!Questions) /\ f \in Identity!Questions
        /\ n \in Nat /\ call.heard \in Seq(Identity!Questions)
        /\ \A i \in 1 .. n : Was(call.heard[i], TRUE, now - AgeOf(call.heard[i], n, i))
    BY <1>2, <1>a, <1>b, RowFacts DEF CallHolds, AllFresh
  <2>2. /\ GateTypes /\ now \in Nat /\ memo[f].answer \in BOOLEAN /\ memo[f].until \in Nat
        /\ Identity!Keep(f) \in Nat /\ Slow \in Nat /\ turned[f] \in Nat
    BY <2>1, Spans DEF GateInv, GateTypes, TimesAreNumbers
  <2>3. CASE Identity!Valid(f)
    <3>1. memo[f].until > 0 /\ memo[f].until >= now
      BY <2>2, <2>3 DEF Identity!Valid
    <3>2. Was(f, memo[f].answer, memo[f].until - Identity!Keep(f) - Slow)
      BY <2>1, <3>1 DEF GateInv, MemoHolds
    <3>3. Was(f, memo[f].answer, now - Identity!Keep(f) - Slow)
      <4>1. /\ memo[f].until - Identity!Keep(f) - Slow \in Int /\ now - Identity!Keep(f) - Slow \in Int
            /\ now - Identity!Keep(f) - Slow <= memo[f].until - Identity!Keep(f) - Slow
        BY <2>2, <3>1
      <4> QED
        BY <2>2, <3>2, <4>1, WasBefore
    <3>4. ASSUME NEW i \in 1 .. n PROVE Was(call.heard[i], TRUE, now - AgeOf(call.heard[i], n + 1, i))
      <4>0. call.heard[i] \in Identity!Questions
        BY <1>b, <2>1
      <4>1. call.heard[i] \in Identity!Questions /\ turned[call.heard[i]] \in Nat
        BY <4>0, <2>2 DEF GateTypes
      <4>2. PICK age \in Nat : age = AgeOf(call.heard[i], n, i) /\ AgeOf(call.heard[i], n + 1, i) = age + Slow
        BY <2>1, AgesGrow
      <4>3. /\ now - AgeOf(call.heard[i], n, i) \in Int /\ now - AgeOf(call.heard[i], n + 1, i) \in Int
            /\ now - AgeOf(call.heard[i], n + 1, i) <= now - AgeOf(call.heard[i], n, i)
        BY <2>2, <4>2
      <4> QED
        BY <2>1, <4>1, <4>3, WasBefore
    <3>5. Identity!Ask(call) = Identity!Heard(call, f, memo[f].answer)
      BY <1>2, <1>a, <2>3 DEF Identity!Ask
    <3> QED
      BY <1>a, <1>b, <2>1, <2>2, <3>3, <3>4, <3>5, HeardHolds
  <2>4. CASE ~Identity!Valid(f)
    <3>a. PICK next : next = Identity!Ask(call)
      OBVIOUS
    <3>b. PICK b : b = Identity!True(f, truth)
      OBVIOUS
    <3>1. next = [call EXCEPT !.at = "waiting", !.answer = b, !.since = now]
      BY <1>2, <1>a, <2>4, <3>a, <3>b DEF Identity!Ask
    <3>2. b \in BOOLEAN
      BY <2>1, <2>2, <3>b, TruthIsKnown DEF GateTypes
    <3>3. /\ next \in CallRows
          /\ next.at = "waiting" /\ next.answer = b /\ next.since = now
          /\ next.left = call.left /\ next.heard = call.heard
      BY <2>2, <3>1, <3>2 DEF CallRows
    <3>4. Was(f, b, now)
      BY <3>b DEF Was
    <3>5. CallHolds(next)
      <4>1. now <= now /\ now <= now + Slow
        BY <2>2
      <4>2. AllFresh(call.heard, now)
        BY <1>2 DEF CallHolds
      <4> QED
        BY <1>a, <2>1, <3>3, <3>4, <4>1, <4>2 DEF CallHolds
    <3> QED
      BY <3>3, <3>5, <3>a
  <2> QED
    BY <2>3, <2>4
<1> QED
  BY <1>1, <1>2

LEMMA ProceedHolds ==
    ASSUME TimesAreNumbers, GateInv, NEW call \in CallRows, CallHolds(call), call.at # "away"
    PROVE  Identity!Proceed(call) \in CallRows /\ CallHolds(Identity!Proceed(call))
<1>1. PICK one : one = Identity!Ask(call)
  OBVIOUS
<1>2. one \in CallRows /\ CallHolds(one) /\ one.at # "away"
  BY <1>1, AskHolds
<1>3. PICK two : two = Identity!Ask(one)
  OBVIOUS
<1>4. two \in CallRows /\ CallHolds(two) /\ two.at # "away"
  BY <1>2, <1>3, AskHolds
<1>5. Identity!Ask(two) \in CallRows /\ CallHolds(Identity!Ask(two))
  BY <1>4, AskHolds
<1> QED
  BY <1>1, <1>3, <1>5 DEF Identity!Proceed

LEMMA ArriveStep ==
    ASSUME TimesAreNumbers, GateInv, NEW v \in Visits, NEW route \in Routes, Identity!Arrive(v, route)
    PROVE  GateInv'
<1>a. PICK call : call = [Identity!Away EXCEPT !.at = "asking", !.left = route]
  OBVIOUS
<1>1. /\ call \in CallRows /\ call.at = "asking" /\ call.left = route /\ call.heard = <<>>
      /\ route # <<>>
  <2>1. route \in Seq(Identity!Questions) /\ route # <<>> /\ <<>> \in Seq(Identity!Questions)
    BY DEF TimesAreNumbers
  <2>2. call = [at |-> "asking", left |-> route, heard |-> <<>>, answer |-> FALSE, since |-> 0]
    BY <1>a DEF Identity!Away
  <2> QED
    BY <2>1, <2>2 DEF CallRows
<1>2. CallHolds(call)
  <2>1. Len(call.heard) = 0
    BY <1>1
  <2> QED
    BY <1>1, <2>1 DEF CallHolds, AllFresh
<1>b. PICK next : next = Identity!Proceed(call)
  OBVIOUS
<1>3. next \in CallRows /\ CallHolds(next)
  BY <1>1, <1>2, <1>b, ProceedHolds
<1>4. visit' = [visit EXCEPT ![v] = next] /\ UNCHANGED <<now, truth, turned, turns, memo>>
  BY <1>a, <1>b DEF Identity!Arrive
<1>5. visit' \in [Visits -> CallRows] /\ \A w \in Visits : visit'[w] = next \/ visit'[w] = visit[w]
  BY <1>3, <1>4 DEF GateInv, GateTypes
<1>6. GateTypes' /\ \A f \in Identity!Questions : MemoHolds(f)'
  BY <1>4, <1>5 DEF GateInv, GateTypes, MemoHolds, Was
<1>7. ASSUME NEW w \in Visits PROVE CallHolds(visit[w])'
  BY <1>3, <1>4, <1>5 DEF GateInv, CallHolds, AllFresh, LastWas, Was
<1> QED
  BY <1>6, <1>7 DEF GateInv

LEMMA PutStep ==
    ASSUME TimesAreNumbers, GateInv, NEW v \in Visits, Identity!Put(v)
    PROVE  GateInv'
<1>a. PICK call : call = visit[v]
  OBVIOUS
<1>b. PICK f : f = Head(call.left)
  OBVIOUS
<1>c. PICK n : n = Len(call.heard)
  OBVIOUS
<1>1. /\ call \in CallRows /\ CallHolds(call) /\ call.at = "waiting"
      /\ call.left # <<>> /\ f \in Identity!Questions /\ n \in Nat /\ call.answer \in BOOLEAN
      /\ call.heard \in Seq(Identity!Questions) /\ call.since \in Nat
      /\ call.since <= now /\ now <= call.since + Slow
      /\ Was(f, call.answer, call.since)
      /\ \A i \in 1 .. n : Was(call.heard[i], TRUE, call.since - AgeOf(call.heard[i], n, i))
  <2>1. call \in CallRows /\ CallHolds(call) /\ call.at = "waiting"
    BY <1>a DEF GateInv, GateTypes, Identity!Put
  <2> QED
    BY <1>b, <1>c, <2>1, RowFacts DEF CallHolds, AllFresh
<1>2. /\ GateTypes /\ now \in Nat /\ Identity!Keep(f) \in Nat /\ Slow \in Nat
      /\ \A g \in Identity!Questions : turned[g] \in Nat
  BY Spans DEF GateInv, GateTypes, TimesAreNumbers
<1>3. Was(f, call.answer, now - Slow) /\ Was(f, call.answer, now - Identity!Keep(f) - Slow)
  <2>1. /\ now - Slow \in Int /\ now - Slow <= call.since
        /\ now - Identity!Keep(f) - Slow \in Int /\ now - Identity!Keep(f) - Slow <= call.since
    BY <1>1, <1>2
  <2> QED
    BY <1>1, <1>2, <2>1, WasBefore
<1>4. ASSUME NEW i \in 1 .. n PROVE Was(call.heard[i], TRUE, now - AgeOf(call.heard[i], n + 1, i))
  <2>1. call.heard[i] \in Identity!Questions
    BY <1>1, <1>c
  <2>2. PICK age \in Nat : age = AgeOf(call.heard[i], n, i) /\ AgeOf(call.heard[i], n + 1, i) = age + Slow
    BY <1>1, AgesGrow
  <2>3. /\ now - AgeOf(call.heard[i], n + 1, i) \in Int /\ call.since - AgeOf(call.heard[i], n, i) \in Int
        /\ now - AgeOf(call.heard[i], n + 1, i) <= call.since - AgeOf(call.heard[i], n, i)
    BY <1>1, <1>2, <2>2
  <2> QED
    BY <1>1, <1>2, <2>1, <2>3, WasBefore
<1>d. PICK said : said = Identity!Heard(call, f, call.answer)
  OBVIOUS
<1>5. said \in CallRows /\ CallHolds(said) /\ said.at # "away"
  BY <1>1, <1>2, <1>3, <1>4, <1>b, <1>c, <1>d, HeardHolds
<1>e. PICK next : next = Identity!Proceed(said)
  OBVIOUS
<1>6. next \in CallRows /\ CallHolds(next)
  BY <1>5, <1>e, ProceedHolds
<1>f. PICK kept : kept = [answer |-> call.answer, until |-> now + Identity!Keep(f)]
  OBVIOUS
<1>7. /\ visit' = [visit EXCEPT ![v] = next]
      /\ memo' = memo \/ memo' = [memo EXCEPT ![f] = kept]
      /\ UNCHANGED <<now, truth, turned, turns>>
  BY <1>a, <1>b, <1>d, <1>e, <1>f DEF Identity!Put, GateInv, GateTypes
<1>8. /\ visit' \in [Visits -> CallRows] /\ \A w \in Visits : visit'[w] = next \/ visit'[w] = visit[w]
      /\ memo' \in [Identity!Questions -> [answer : BOOLEAN, until : Nat]]
      /\ \A g \in Identity!Questions : memo'[g] = memo[g] \/ (g = f /\ memo'[g] = kept)
  <2>1. kept \in [answer : BOOLEAN, until : Nat]
    BY <1>1, <1>2, <1>f
  <2> QED
    BY <1>1, <1>2, <1>6, <1>7, <2>1 DEF GateTypes
<1>9. ASSUME NEW g \in Identity!Questions PROVE MemoHolds(g)'
  <2>1. CASE memo'[g] = memo[g]
    BY <1>7, <2>1 DEF GateInv, MemoHolds, Was
  <2>2. CASE g = f /\ memo'[g] = kept
    <3>1. kept.until - Identity!Keep(f) = now /\ kept.answer = call.answer
      BY <1>2, <1>f
    <3> QED
      BY <1>2, <1>3, <1>7, <2>2, <3>1 DEF MemoHolds, Was
  <2> QED
    BY <1>8, <2>1, <2>2
<1>10. ASSUME NEW w \in Visits PROVE CallHolds(visit[w])'
  BY <1>6, <1>7, <1>8 DEF GateInv, CallHolds, AllFresh, LastWas, Was
<1> QED
  BY <1>2, <1>7, <1>8, <1>9, <1>10 DEF GateInv, GateTypes

\* What was so at a moment that is past has been so since, whatever turns.
LEMMA TurnKeeps ==
    ASSUME GateTypes,
           NEW r \in [session : BOOLEAN, membership : BOOLEAN, grant : BOOLEAN, open : BOOLEAN],
           Identity!Turn(r), NEW f \in Identity!Questions, NEW b \in BOOLEAN, NEW t \in Int, t <= now,
           Was(f, b, t)
    PROVE  Was(f, b, t)'
<1>1. /\ truth' = r /\ turned'[f] = (IF Identity!True(f, r) = Identity!True(f, truth) THEN turned[f] ELSE now)
      /\ Identity!True(f, r) \in BOOLEAN /\ Identity!True(f, truth) \in BOOLEAN
      /\ turned[f] \in Nat /\ now \in Nat /\ now >= 1
  BY TruthIsKnown DEF Identity!Turn, GateTypes
<1>2. Identity!True(f, truth)' = Identity!True(f, r)
  BY <1>1 DEF Identity!True
<1> QED
  BY <1>1, <1>2 DEF Was

LEMMA TurnStep ==
    ASSUME TimesAreNumbers, GateInv,
           NEW r \in [session : BOOLEAN, membership : BOOLEAN, grant : BOOLEAN, open : BOOLEAN],
           Identity!Turn(r)
    PROVE  GateInv'
<1>1. /\ GateTypes /\ now \in Nat /\ Slow \in Nat /\ \A f : Identity!Keep(f) \in Nat
      /\ UNCHANGED <<now, memo, visit>> /\ truth' = r
  BY Spans DEF GateInv, GateTypes, TimesAreNumbers, Identity!Turn
<1>2. GateTypes'
  BY <1>1, TruthIsKnown DEF GateTypes, Identity!Turn
<1>3. ASSUME NEW f \in Identity!Questions PROVE MemoHolds(f)'
  <2>1. MemoHolds(f) /\ memo[f].until \in Nat /\ memo[f].answer \in BOOLEAN
    BY <1>1 DEF GateInv, GateTypes
  <2>2. ASSUME memo[f].until > 0
        PROVE  Was(f, memo[f].answer, memo[f].until - Identity!Keep(f) - Slow)'
    <3>1. /\ memo[f].until - Identity!Keep(f) - Slow \in Int
          /\ memo[f].until - Identity!Keep(f) - Slow <= now
      BY <1>1, <2>1, <2>2 DEF MemoHolds
    <3>2. Was(f, memo[f].answer, memo[f].until - Identity!Keep(f) - Slow)
      BY <2>1, <2>2 DEF MemoHolds
    <3>3. PICK b \in BOOLEAN, t \in Int : b = memo[f].answer /\ t = memo[f].until - Identity!Keep(f) - Slow
      BY <2>1, <3>1
    <3>4. Was(f, b, t)'
      BY <1>1, <3>1, <3>2, <3>3, TurnKeeps
    <3> QED
      BY <1>1, <3>3, <3>4 DEF Was
  <2> QED
    BY <1>1, <2>1, <2>2 DEF MemoHolds
<1>4. ASSUME NEW v \in Visits PROVE CallHolds(visit[v])'
  <2>a. PICK call \in CallRows : call = visit[v]
    BY <1>1 DEF GateTypes
  <2>b. PICK n : n = Len(call.heard)
    OBVIOUS
  <2>1. /\ CallHolds(call) /\ n \in Nat /\ call.since \in Nat /\ call.answer \in BOOLEAN
        /\ \A i \in 1 .. n : call.heard[i] \in Identity!Questions
        /\ call.left # <<>> => Head(call.left) \in Identity!Questions
    BY <2>a, <2>b, RowFacts DEF GateInv
  <2>2. ASSUME NEW s \in Nat, s <= now, NEW i \in 1 .. n, NEW b \in BOOLEAN,
               Was(call.heard[i], b, s - AgeOf(call.heard[i], n, i))
        PROVE  Was(call.heard[i], b, s - AgeOf(call.heard[i], n, i))'
    <3>1. PICK f \in Identity!Questions, t \in Int : f = call.heard[i] /\ t = s - AgeOf(call.heard[i], n, i)
      <4>1. PICK age \in Nat : age = AgeOf(call.heard[i], n, i)
        BY <2>1, AgesGrow
      <4> QED
        BY <2>1, <4>1
    <3>2. t <= now
      <4>1. PICK age \in Nat : age = AgeOf(call.heard[i], n, i)
        BY <2>1, AgesGrow
      <4> QED
        BY <1>1, <2>2, <3>1, <4>1
    <3>3. Was(f, b, t)'
      BY <1>1, <2>2, <3>1, <3>2, TurnKeeps
    <3> QED
      BY <3>1, <3>3 DEF Was
  <2>3. ASSUME call.at = "waiting" PROVE Was(Head(call.left), call.answer, call.since)'
    <3>1. PICK f \in Identity!Questions, b \in BOOLEAN, t \in Int :
              f = Head(call.left) /\ b = call.answer /\ t = call.since
      BY <2>1, <2>3 DEF CallHolds
    <3>2. Was(f, b, t) /\ t <= now
      BY <2>1, <2>3, <3>1 DEF CallHolds
    <3>3. Was(f, b, t)'
      BY <1>1, <3>2, TurnKeeps
    <3> QED
      BY <3>1, <3>3 DEF Was
  <2>4. ASSUME NEW s \in Nat, s <= now, AllFresh(call.heard, s) PROVE AllFresh(call.heard, s)'
    BY <2>1, <2>2, <2>4, <2>b DEF AllFresh, AgeOf, Span
  <2>5. ASSUME LastWas(call.heard) PROVE LastWas(call.heard)'
    <3>0. Was(call.heard[n], FALSE, now - AgeOf(call.heard[n], n, n)) /\ n >= 1
      BY <2>5, <2>b DEF LastWas
    <3>1. n \in 1 .. n /\ now <= now
      BY <1>1, <2>1, <3>0
    <3>2. Was(call.heard[n], FALSE, now - AgeOf(call.heard[n], n, n))'
      <4>1. PICK s \in Nat, i \in 1 .. n : s = now /\ i = n
        BY <1>1, <3>1
      <4>2. Was(call.heard[i], FALSE, s - AgeOf(call.heard[i], n, i))'
        BY <2>2, <3>0, <3>1, <4>1
      <4> QED
        BY <1>1, <4>1, <4>2 DEF Was
    <3> QED
      BY <3>0, <3>2, <2>b DEF LastWas
  <2>6. CallHolds(call)'
    BY <1>1, <2>1, <2>3, <2>4, <2>5 DEF CallHolds
  <2> QED
    BY <1>1, <2>6, <2>a DEF CallHolds, AllFresh, LastWas, Was
<1> QED
  BY <1>2, <1>3, <1>4 DEF GateInv

LEMMA TickStep ==
    ASSUME TimesAreNumbers, GateInv, Identity!Tick
    PROVE  GateInv'
<1>1. /\ GateTypes /\ now \in Nat /\ Slow \in Nat /\ now' = now + 1
      /\ UNCHANGED <<truth, turned, visit>>
      /\ memo' = [f \in Identity!Questions |-> IF memo[f].until > now THEN memo[f] ELSE Identity!Unknown]
  BY DEF GateInv, GateTypes, TimesAreNumbers, Identity!Tick
<1>2. GateTypes'
  BY <1>1 DEF GateTypes, Identity!Unknown
<1>3. ASSUME NEW f \in Identity!Questions PROVE MemoHolds(f)'
  <2>1. MemoHolds(f) /\ memo[f].until \in Nat /\ Identity!Keep(f) \in Nat
    BY <1>1, Spans DEF GateInv, GateTypes
  <2>2. memo'[f] = memo[f] \/ memo'[f].until = 0
    BY <1>1 DEF Identity!Unknown
  <2> QED
    BY <1>1, <2>1, <2>2 DEF MemoHolds, Was
<1>4. ASSUME NEW v \in Visits PROVE CallHolds(visit[v])'
  <2>1. CallHolds(visit[v]) /\ visit[v] \in CallRows
    BY <1>1 DEF GateInv, GateTypes
  <2>2. visit[v].at = "away" \/ (visit[v].at = "waiting" /\ now - visit[v].since < Slow)
    BY DEF Identity!Tick
  <2>3. CASE visit[v].at = "away"
    BY <1>1, <2>3 DEF CallHolds
  <2>4. CASE visit[v].at = "waiting" /\ now - visit[v].since < Slow
    <3>1. visit[v].since \in Nat
      BY <2>1, RowFacts
    <3>2. now' <= visit[v].since + Slow /\ visit[v].since <= now'
      BY <1>1, <2>1, <2>4, <3>1 DEF CallHolds
    <3> QED
      BY <1>1, <2>1, <2>4, <3>2 DEF CallHolds, AllFresh, Was
  <2> QED
    BY <2>2, <2>3, <2>4
<1> QED
  BY <1>2, <1>3, <1>4 DEF GateInv

\* The invariant holds at first, every step keeps it, and it has what is to hold in it.
LEMMA GateInductive ==
    ASSUME TimesAreNumbers
    PROVE  /\ Identity!GateInit => GateInv
           /\ GateInv /\ [Identity!Next]_(Identity!vars) => GateInv'
           /\ GateInv => Identity!VerdictsAreFresh
<1>1. ASSUME Identity!GateInit PROVE GateInv
  <2>1. /\ now = 1 /\ truth = [session |-> TRUE, membership |-> TRUE, grant |-> FALSE, open |-> TRUE]
        /\ turned = [f \in Identity!Questions |-> 0]
        /\ memo = [f \in Identity!Questions |-> Identity!Unknown]
        /\ visit = [v \in Visits |-> Identity!Away]
    BY <1>1 DEF Identity!GateInit
  <2>2. GateTypes
    BY <2>1 DEF GateTypes, Identity!Unknown, Identity!Away, CallRows
  <2>3. \A f \in Identity!Questions : MemoHolds(f)
    BY <2>1 DEF MemoHolds, Identity!Unknown
  <2>4. \A v \in Visits : CallHolds(visit[v])
    BY <2>1 DEF CallHolds, Identity!Away
  <2> QED
    BY <2>2, <2>3, <2>4 DEF GateInv
<1>2. ASSUME GateInv, [Identity!Next]_Identity!vars PROVE GateInv'
  <2>0. truth \in [session : BOOLEAN, membership : BOOLEAN, grant : BOOLEAN, open : BOOLEAN]
    BY <1>2 DEF GateInv, GateTypes
  <2>1. ASSUME NEW v \in Visits, NEW route \in Routes, Identity!Arrive(v, route) PROVE GateInv'
    BY <1>2, <2>1, ArriveStep
  <2>2. ASSUME NEW v \in Visits, Identity!Put(v) PROVE GateInv'
    BY <1>2, <2>2, PutStep
  <2>3. ASSUME NEW v \in Visits, Identity!Done(v) PROVE GateInv'
    <3>1. visit' = [visit EXCEPT ![v] = Identity!Away] /\ UNCHANGED <<now, truth, turned, turns, memo>>
      BY <2>3 DEF Identity!Done
    <3>2. Identity!Away \in CallRows /\ Identity!Away.at = "away"
      BY DEF Identity!Away, CallRows
    <3>3. /\ visit' \in [Visits -> CallRows]
          /\ \A w \in Visits : visit'[w] = Identity!Away \/ visit'[w] = visit[w]
      BY <1>2, <3>1, <3>2 DEF GateInv, GateTypes
    <3>4. \A w \in Visits : CallHolds(visit[w])'
      BY <1>2, <3>1, <3>2, <3>3 DEF GateInv, CallHolds, AllFresh, LastWas, Was
    <3> QED
      BY <1>2, <3>1, <3>3, <3>4 DEF GateInv, GateTypes, MemoHolds, Was
  <2>4. CASE Identity!SessionEnds
    BY <1>2, <2>0, <2>4, TurnStep DEF Identity!SessionEnds
  <2>5. CASE Identity!Leave \/ Identity!Join
    BY <1>2, <2>0, <2>5, TurnStep DEF Identity!Leave, Identity!Join
  <2>6. CASE Identity!SetGrant
    BY <1>2, <2>0, <2>6, TurnStep DEF Identity!SetGrant
  <2>7. CASE Identity!Suspend \/ Identity!Reactivate
    BY <1>2, <2>0, <2>7, TurnStep DEF Identity!Suspend, Identity!Reactivate
  <2>8. CASE Identity!Tick
    BY <1>2, <2>8, TickStep
  <2>9. CASE UNCHANGED Identity!gateVars
    BY <1>2, <2>9 DEF GateInv, GateTypes, MemoHolds, CallHolds, AllFresh, LastWas, Was, Identity!gateVars
  <2> QED
    BY <1>2, <2>1, <2>2, <2>3, <2>4, <2>5, <2>6, <2>7, <2>8, <2>9
    DEF Identity!Next, Identity!GateNext, Identity!vars
<1>3. ASSUME GateInv PROVE Identity!VerdictsAreFresh
  <2>1. ASSUME NEW v \in Visits
        PROVE  LET heard == visit[v].heard
                   kept(f) == IF f \in {"session", "open"} THEN Lifetime ELSE 2 * Lifetime
                   age(i) == kept(heard[i]) + Slow * (1 + Len(heard) - i)
                   last == Len(heard)
               IN /\ visit[v].at = "admitted" =>
                         \A i \in DOMAIN heard : Identity!WasLately(heard[i], TRUE, age(i))
                  /\ visit[v].at \in {"refused", "nowhere"} => Identity!WasLately(heard[last], FALSE, age(last))
    <3>a. PICK call \in CallRows : call = visit[v]
      BY <1>3 DEF GateInv, GateTypes
    <3>b. PICK n : n = Len(call.heard)
      OBVIOUS
    <3>1. /\ CallHolds(call) /\ n \in Nat /\ DOMAIN call.heard = 1 .. n
          /\ \A i \in 1 .. n : call.heard[i] \in Identity!Questions
      BY <1>3, <3>a, <3>b, RowFacts DEF GateInv
    <3>2. ASSUME NEW i \in 1 .. n, NEW b \in BOOLEAN, Was(call.heard[i], b, now - AgeOf(call.heard[i], n, i))
          PROVE  Identity!WasLately(call.heard[i], b,
                     (IF call.heard[i] \in {"session", "open"} THEN Lifetime ELSE 2 * Lifetime)
                         + Slow * (1 + n - i))
      <4>1. (IF call.heard[i] \in {"session", "open"} THEN Lifetime ELSE 2 * Lifetime)
                + Slow * (1 + n - i) = AgeOf(call.heard[i], n, i)
        BY <3>1 DEF AgeOf, Span, Identity!Keep, Identity!Questions
      <4>2. PICK age \in Nat : age = AgeOf(call.heard[i], n, i)
        BY <3>1, AgesGrow
      <4>3. now \in Nat /\ turned[call.heard[i]] \in Nat
        BY <1>3, <3>1 DEF GateInv, GateTypes
      <4>4. Identity!WasLately(call.heard[i], b, age)
        BY <3>2, <4>2, <4>3 DEF Was, Identity!WasLately
      <4> QED
        BY <4>1, <4>2, <4>4
    <3>3. CASE visit[v].at = "admitted"
      BY <3>1, <3>2, <3>3, <3>a, <3>b DEF CallHolds, AllFresh
    <3>4. CASE visit[v].at \in {"refused", "nowhere"}
      <4>1. n \in 1 .. n
        <5>1. n >= 1
          BY <3>1, <3>4, <3>a, <3>b DEF CallHolds, LastWas
        <5> QED
          BY <3>1, <5>1
      <4> QED
        BY <3>1, <3>2, <3>4, <3>a, <3>b, <4>1 DEF CallHolds, LastWas
    <3> QED
      BY <3>3, <3>4
  <2> QED
    BY <2>1 DEF Identity!VerdictsAreFresh
<1> QED
  BY <1>1, <1>2, <1>3

\* tenant.middleware.ts:133-285: whatever requests, changes of what is asked about and lookups
\* overlap, what a request is let through or turned away on was so no longer ago than its answer is
\* kept, and the lookups of this request and of the one that left the answer can take.
THEOREM VerdictsCorrect ==
    ASSUME TimesAreNumbers
    PROVE  Identity!Spec => []Identity!VerdictsAreFresh
BY GateInductive, PTL DEF Identity!Spec, Identity!Init
-----------------------------------------------------------------------------
(* The estate: the parts together *)

\* A step of the estate is one of the part in focus, or leaves that part alone.
LEMMA EstateSteps ==
    ASSUME [MCNext]_estateVars
    PROVE  /\ focus' = focus
           /\ focus = "accounts" => [Identity!Next]_(Identity!vars)
           /\ focus = "gate" => [Identity!Next]_(Identity!vars)
           /\ focus = "signin" => [Sign!Next]_(Sign!vars)
           /\ focus = "factor" => [Sign!Next]_(Sign!vars)
<1>1. CASE UNCHANGED estateVars
  BY <1>1 DEF estateVars, accountVars, gateVars, signVars, factorVars, Identity!vars,
         Identity!accountVars, Identity!gateVars, Sign!vars, Sign!providerVars, Sign!factorVars
<1>2. CASE MCNext
  <2>1. focus' = focus
    BY <1>2 DEF MCNext
  <2>2. focus = "accounts" => Identity!Next
    <3>1. focus = "accounts" => Identity!AccountNext /\ UNCHANGED gateVars
      BY <1>2 DEF MCNext
    <3> QED
      BY <3>1 DEF gateVars, Identity!gateVars, Identity!Next
  <2>3. focus = "gate" => Identity!Next
    <3>1. focus = "gate" => Identity!GateNext /\ UNCHANGED accountVars
      BY <1>2 DEF MCNext
    <3> QED
      BY <3>1 DEF accountVars, Identity!accountVars, Identity!Next
  <2>4. focus = "signin" => Sign!Next
    <3>1. focus = "signin" => Sign!ProviderNext /\ UNCHANGED factorVars
      BY <1>2 DEF MCNext
    <3> QED
      BY <3>1 DEF factorVars, Sign!factorVars, Sign!Next
  <2>5. focus = "factor" => Sign!Next
    <3>1. focus = "factor" => Sign!FactorNext /\ UNCHANGED signVars
      BY <1>2 DEF MCNext
    <3> QED
      BY <3>1 DEF signVars, Sign!providerVars, Sign!Next
  <2> QED
    BY <2>1, <2>2, <2>3, <2>4, <2>5
<1> QED
  BY <1>1, <1>2

\* auth.service.ts:405-424, mfa.service.ts:27-57, tenant.middleware.ts:133-285, sso.service.ts:187-345, in
\* the estate: for any users, sessions, secrets, states and requests that overlap, an erased user keeps no
\* session but those excused, a factor in use was proven, an answer is as old as it may be, and whoever was
\* signed in by the provider belongs to the workspace.
THEOREM EstateAccounts == MCSpec => []AccountsHold
<1> DEFINE Inv ==
             /\ focus = "accounts" => IdInv
             /\ focus = "factor" => FactorInv
             /\ focus = "gate" => GateInv
             /\ focus = "signin" => ProviderInv
<1>a. EmailsAreReal /\ TimesAreNumbers /\ "none" \notin States
  BY EstateAssumption
<1>1. MCInit => Inv
  BY <1>a, IdentityInductive, FactorInductive, GateInductive, ProviderInductive DEF MCInit
<1>2. Inv /\ [MCNext]_estateVars => Inv'
  BY <1>a, IdentityInductive, FactorInductive, GateInductive, ProviderInductive, EstateSteps
<1>3. Inv => AccountsHold
  BY <1>a, IdentityInductive, FactorInductive, GateInductive, ProviderInductive DEF AccountsHold
<1> QED
  BY <1>1, <1>2, <1>3, PTL DEF MCSpec
=============================================================================
