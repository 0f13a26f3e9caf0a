-------------------------- MODULE Services_proofs --------------------------
(***************************************************************************)
(* Proofs about the services that MCEstate puts side by side: any rows,    *)
(* any number of calls that overlap.                                       *)
(***************************************************************************)
EXTENDS MCEstate, Sequences, FiniteSetTheorems, SequenceTheorems, TLAPS

-----------------------------------------------------------------------------
(* Stock: how far overlapping calls oversell *)

\* Calls that have read the balance of p and are about to take from it
Pending(p) == {s \in Takers : taking[s].from = p}

\* What k calls may have taken on top of the balance that they all saw
Slack(k) == (Cardinality(Takers) - k) * MaxQuantity

\* A place owes at most what the calls that are not pending may have taken since the pending
\* call that still finds the most of what it asked for read the balance.
Backed(p) ==
    /\ Pending(p) = {} => onHand[p] >= -Slack(1)
    /\ Pending(p) # {} =>
           \E s \in Pending(p) : onHand[p] >= taking[s].qty - Slack(Cardinality(Pending(p)))

StockInv == Inventory!TypeOK /\ \A p \in Places : Backed(p)

LEMMA Slacks ==
    ASSUME StockAssumption
    PROVE  /\ Cardinality(Takers) \in Nat
           /\ \A k \in 1 .. Cardinality(Takers) :
                  /\ Slack(k) \in Nat
                  /\ k # 1 => Slack(k - 1) = Slack(k) + MaxQuantity
                  /\ Slack(k) =< Slack(1)
<1> DEFINE N == Cardinality(Takers)
<1>1. N \in Nat
  BY FS_CardinalityType DEF StockAssumption
<1> HIDE DEF N
<1>2. ASSUME NEW a \in Nat, NEW q \in Nat
      PROVE  a * q \in Nat /\ (a + 1) * q = a * q + q
  BY <1>2
<1>3. ASSUME NEW a \in Nat, NEW b \in Nat, NEW q \in Nat, a =< b PROVE a * q =< b * q
  <2>1. b * q = a * q + (b - a) * q
    BY <1>3
  <2>2. (b - a) * q \in Nat
    BY <1>2, <1>3
  <2> QED
    BY <1>2, <1>3, <2>1, <2>2
<1>4. ASSUME NEW k \in 1 .. N
      PROVE  /\ (N - k) * MaxQuantity \in Nat
             /\ (N - (k - 1)) * MaxQuantity = (N - k) * MaxQuantity + MaxQuantity
             /\ (N - k) * MaxQuantity =< (N - 1) * MaxQuantity
  <2>1. N - k \in Nat /\ N - 1 \in Nat /\ N - k =< N - 1 /\ N - (k - 1) = (N - k) + 1
    BY <1>1, <1>4
  <2>2. MaxQuantity \in Nat
    BY DEF StockAssumption
  <2> QED
    BY <1>2, <1>3, <2>1, <2>2
<1> QED
  BY <1>1, <1>4 DEF Slack, N

\* Pending calls are finitely many, and at least one when there is one.
LEMMA PendingCount ==
    ASSUME StockAssumption, NEW p
    PROVE  /\ IsFiniteSet(Pending(p))
           /\ Cardinality(Pending(p)) \in 0 .. Cardinality(Takers)
           /\ Pending(p) # {} => Cardinality(Pending(p)) >= 1
<1>1. Pending(p) \subseteq Takers
  BY DEF Pending
<1>2. IsFiniteSet(Pending(p)) /\ Cardinality(Pending(p)) =< Cardinality(Takers)
  BY <1>1, FS_Subset DEF StockAssumption
<1>3. Cardinality(Pending(p)) \in Nat /\ Cardinality(Takers) \in Nat
  BY <1>2, FS_CardinalityType DEF StockAssumption
<1>4. Pending(p) # {} => Cardinality(Pending(p)) # 0
  BY <1>2, FS_EmptySet
<1> QED
  BY <1>2, <1>3, <1>4

\* A call that stops being pending takes at most what it asked for.
LEMMA Leaving ==
    ASSUME StockAssumption, StockInv, NEW p \in Places, NEW s \in Takers,
           taking[s].from = p, taking' = [taking EXCEPT ![s] = Inventory!None],
           onHand'[p] \in Int, onHand'[p] >= onHand[p] - taking[s].qty
    PROVE  Backed(p)'
<1> DEFINE P == Pending(p)
           Q == Pending(p)'
           k == Cardinality(P)
<1>1. taking \in [Takers -> Inventory!Movements \cup {Inventory!None}] /\ onHand[p] \in Int
  BY DEF StockInv, Inventory!TypeOK
<1>2. \A t \in P : taking[t].qty \in 1 .. MaxQuantity
  BY <1>1 DEF Pending, Inventory!Movements, Inventory!None, StockAssumption
<1>3. /\ s \in P /\ Q = P \ {s}
      /\ \A t \in Q : taking'[t] = taking[t]
  BY <1>1 DEF Pending, Inventory!None, StockAssumption
<1>4. /\ IsFiniteSet(P) /\ k \in 1 .. Cardinality(Takers)
      /\ Cardinality(Q) = k - 1
      /\ Q = {} <=> k = 1
  <2>1. IsFiniteSet(P) /\ k \in 0 .. Cardinality(Takers) /\ k >= 1
    BY <1>3, PendingCount
  <2>2. Cardinality(Q) = k - 1 /\ IsFiniteSet(Q)
    BY <1>3, <2>1, FS_RemoveElement
  <2>3. Q = {} <=> Cardinality(Q) = 0
    BY <2>2, FS_EmptySet
  <2> QED
    BY <2>1, <2>2, <2>3
<1>5. /\ Slack(k) \in Nat /\ Slack(1) \in Nat /\ Slack(k) =< Slack(1)
      /\ k # 1 => Slack(k - 1) = Slack(k) + MaxQuantity
  BY <1>4, Slacks
<1>6. PICK w \in P : onHand[p] >= taking[w].qty - Slack(k)
  BY <1>3 DEF StockInv, Backed
<1>7. ASSUME Q = {} PROVE onHand'[p] >= -Slack(1)
  <2>1. w = s
    BY <1>3, <1>6, <1>7
  <2> QED
    BY <1>1, <1>2, <1>3, <1>5, <1>6, <2>1
<1>8. ASSUME Q # {} PROVE \E t \in Q : onHand'[p] >= taking'[t].qty - Slack(k - 1)
  <2>1. Slack(k - 1) = Slack(k) + MaxQuantity
    BY <1>4, <1>5, <1>8
  <2>2. CASE w = s
    <3>1. PICK t \in Q : TRUE
      BY <1>8
    <3>2. taking'[t].qty \in 1 .. MaxQuantity /\ taking[s].qty \in Int
      BY <1>2, <1>3, <3>1
    <3>3. onHand'[p] >= taking'[t].qty - Slack(k - 1)
      BY <1>1, <1>5, <1>6, <2>1, <2>2, <3>2 DEF StockAssumption
    <3> QED
      BY <3>1, <3>3
  <2>3. CASE w # s
    <3>1. w \in Q /\ taking'[w] = taking[w]
      BY <1>3, <1>6, <2>3
    <3>2. taking[s].qty \in 1 .. MaxQuantity /\ taking[w].qty \in 1 .. MaxQuantity
      BY <1>2, <1>3, <1>6
    <3>3. onHand'[p] >= taking'[w].qty - Slack(k - 1)
      BY <1>1, <1>5, <1>6, <2>1, <3>1, <3>2 DEF StockAssumption
    <3> QED
      BY <3>1, <3>3
  <2> QED
    BY <2>2, <2>3
<1> HIDE DEF P, Q, k
<1>9. /\ Q = {} => onHand'[p] >= -Slack(1)
      /\ Q # {} => \E t \in Q : onHand'[p] >= taking'[t].qty - Slack(Cardinality(Q))
  BY <1>4, <1>7, <1>8
<1> QED
  BY <1>9 DEF Backed, Slack, Q

\* A balance that grows, with the same calls pending, stays backed.
LEMMA Growing ==
    ASSUME StockAssumption, StockInv, NEW p \in Places, Pending(p)' = Pending(p),
           \A t \in Pending(p) : taking'[t] = taking[t],
           onHand'[p] \in Int, onHand'[p] >= onHand[p]
    PROVE  Backed(p)'
<1>1. onHand[p] \in Int /\ taking \in [Takers -> Inventory!Movements \cup {Inventory!None}]
  BY DEF StockInv, Inventory!TypeOK
<1>2. \A t \in Pending(p) : taking[t].qty \in Int
  BY <1>1 DEF Pending, Inventory!Movements, Inventory!None, StockAssumption
<1>3. /\ Slack(1) \in Nat
      /\ Pending(p) # {} => Slack(Cardinality(Pending(p))) \in Nat
  <2>1. Cardinality(Takers) \in Nat /\ Cardinality(Takers) # 0
    BY FS_EmptySet, FS_CardinalityType DEF StockAssumption
  <2> QED
    BY <2>1, Slacks, PendingCount
<1>4. /\ Pending(p) = {} => onHand[p] >= -Slack(1)
      /\ Pending(p) # {} =>
             \E s \in Pending(p) : onHand[p] >= taking[s].qty - Slack(Cardinality(Pending(p)))
  BY DEF StockInv, Backed
<1>5. /\ Pending(p)' = {} => onHand'[p] >= -Slack(1)
      /\ Pending(p)' # {} =>
            \E t \in Pending(p)' : onHand'[p] >= taking'[t].qty - Slack(Cardinality(Pending(p)'))
  BY <1>1, <1>2, <1>3, <1>4
<1> QED
  BY <1>5 DEF Backed, Slack

LEMMA StockInit == ASSUME StockAssumption PROVE Inventory!Init => StockInv
<1> SUFFICES ASSUME Inventory!Init PROVE StockInv
  OBVIOUS
<1>1. Inventory!TypeOK
  BY DEF Inventory!Init, Inventory!TypeOK
<1>2. ASSUME NEW p \in Places PROVE Backed(p)
  <2>1. Pending(p) = {}
    BY DEF Pending, Inventory!Init, Inventory!None, StockAssumption
  <2>2. Slack(1) \in Nat /\ onHand[p] = 0
    <3>1. Cardinality(Takers) \in Nat /\ Cardinality(Takers) # 0
      BY FS_EmptySet, FS_CardinalityType DEF StockAssumption
    <3> QED
      BY <3>1, Slacks DEF Inventory!Init
  <2> QED
    BY <2>1, <2>2 DEF Backed
<1> QED
  BY <1>1, <1>2 DEF StockInv

LEMMA StockStep ==
    ASSUME StockAssumption
    PROVE  StockInv /\ [Inventory!Next]_(Inventory!vars) => StockInv'
<1> SUFFICES ASSUME StockInv, [Inventory!Next]_(Inventory!vars) PROVE StockInv'
  OBVIOUS
<1>1. /\ onHand \in [Places -> Int]
      /\ taking \in [Takers -> Inventory!Movements \cup {Inventory!None}]
  BY DEF StockInv, Inventory!TypeOK
<1>2. ASSUME NEW s \in Takers, NEW m \in Inventory!Movements, Inventory!CheckBalance(s, m)
      PROVE  StockInv'
  <2>1. /\ taking[s] = Inventory!None /\ taking' = [taking EXCEPT ![s] = m] /\ onHand' = onHand
        /\ m.from # "none" => onHand[m.from] >= m.qty
    BY <1>2 DEF Inventory!CheckBalance
  <2>2. Inventory!TypeOK'
    BY <1>1, <2>1 DEF Inventory!TypeOK
  <2>3. ASSUME NEW p \in Places PROVE Backed(p)'
    <3>1. CASE m.from # p
      <4>1. Pending(p)' = Pending(p) /\ \A t \in Pending(p) : taking'[t] = taking[t]
        BY <1>1, <2>1, <3>1 DEF Pending, Inventory!None, StockAssumption
      <4> QED
        BY <1>1, <2>1, <4>1, Growing
    <3>2. CASE m.from = p
      <4>1. s \in Pending(p)' /\ taking'[s] = m /\ onHand'[p] >= m.qty
        BY <1>1, <2>1, <3>2 DEF Pending, StockAssumption
      <4>2. Slack(Cardinality(Pending(p)')) \in Nat
        <5>1. Pending(p)' \subseteq Takers
          BY DEF Pending
        <5>2. /\ IsFiniteSet(Pending(p)') /\ Cardinality(Pending(p)') =< Cardinality(Takers)
              /\ Cardinality(Pending(p)') \in Nat /\ Cardinality(Takers) \in Nat
          BY <5>1, FS_Subset, FS_CardinalityType DEF StockAssumption
        <5>3. Cardinality(Pending(p)') # 0
          BY <4>1, <5>2, FS_EmptySet
        <5>4. Cardinality(Pending(p)') \in 1 .. Cardinality(Takers)
          BY <5>2, <5>3
        <5> QED
          BY <5>4, Slacks
      <4>3. m.qty \in Int /\ onHand'[p] \in Int
        BY <1>1, <2>1 DEF Inventory!Movements, StockAssumption
      <4>4. onHand'[p] >= taking'[s].qty - Slack(Cardinality(Pending(p)'))
        BY <4>1, <4>2, <4>3
      <4> QED
        BY <4>1, <4>4 DEF Backed, Slack
    <3> QED
      BY <3>1, <3>2
  <2> QED
    BY <2>2, <2>3 DEF StockInv
<1>3. ASSUME NEW s \in Takers, Inventory!InsertMovement(s) \/ Inventory!Throw(s) PROVE StockInv'
  <2> DEFINE m == taking[s]
  <2>1. m # Inventory!None /\ taking' = [taking EXCEPT ![s] = Inventory!None]
    BY <1>3 DEF Inventory!InsertMovement, Inventory!Throw
  <2>2. m \in Inventory!Movements /\ m.qty \in Nat /\ m.from # m.to
    BY <1>1, <2>1 DEF Inventory!Movements, StockAssumption
  <2>3. \A p \in Places : /\ onHand'[p] \in Int
                          /\ m.from # p => onHand'[p] >= onHand[p]
                          /\ m.from = p => onHand'[p] >= onHand[p] - m.qty
    <3>1. CASE Inventory!InsertMovement(s)
      BY <1>1, <2>2, <3>1 DEF Inventory!InsertMovement, Inventory!Delta
    <3>2. CASE Inventory!Throw(s)
      BY <1>1, <2>2, <3>2 DEF Inventory!Throw
    <3> QED
      BY <1>3, <3>1, <3>2
  <2>4. onHand' \in [Places -> Int]
    <3>1. CASE Inventory!InsertMovement(s)
      BY <1>1, <2>2, <3>1 DEF Inventory!InsertMovement, Inventory!Delta
    <3>2. CASE Inventory!Throw(s)
      BY <1>1, <3>2 DEF Inventory!Throw
    <3> QED
      BY <1>3, <3>1, <3>2
  <2>5. Inventory!TypeOK'
    BY <1>1, <2>1, <2>4 DEF Inventory!TypeOK
  <2>6. ASSUME NEW p \in Places PROVE Backed(p)'
    <3>1. CASE m.from # p
      <4>1. Pending(p)' = Pending(p) /\ \A t \in Pending(p) : taking'[t] = taking[t]
        BY <1>1, <2>1, <3>1 DEF Pending, Inventory!None, StockAssumption
      <4> QED
        BY <2>3, <3>1, <4>1, Growing
    <3>2. CASE m.from = p
      BY <2>1, <2>3, <3>2, Leaving
    <3> QED
      BY <3>1, <3>2
  <2> QED
    BY <2>5, <2>6 DEF StockInv
<1>4. CASE UNCHANGED Inventory!vars
  BY <1>4 DEF Inventory!vars, StockInv, Inventory!TypeOK, Backed, Pending, Slack
<1> QED
  BY <1>2, <1>3, <1>4 DEF Inventory!Next

\* How many calls there are, counted in the service as everywhere.
LEMMA CardinalityOfStock == \A S : Inventory!Cardinality(S) = Cardinality(S)
BY DEF Inventory!Cardinality, Cardinality

\* The invariant holds at first, every step keeps it, and it has what is to hold in it.
LEMMA StockInductive ==
    ASSUME StockAssumption
    PROVE  /\ Inventory!Init => StockInv
           /\ StockInv /\ [Inventory!Next]_(Inventory!vars) => StockInv'
           /\ StockInv => Inventory!OversellBound
<1>1. StockInv => Inventory!OversellBound
  <2> SUFFICES ASSUME StockInv, NEW p \in Places
               PROVE  onHand[p] >= -((Cardinality(Takers) - 1) * MaxQuantity)
    BY CardinalityOfStock DEF Inventory!OversellBound
  <2>1. onHand[p] \in Int /\ taking \in [Takers -> Inventory!Movements \cup {Inventory!None}]
    BY DEF StockInv, Inventory!TypeOK
  <2>2. CASE Pending(p) = {}
    BY <2>2 DEF StockInv, Backed, Slack
  <2>3. CASE Pending(p) # {}
    <3> DEFINE k == Cardinality(Pending(p))
    <3>1. PICK s \in Pending(p) : onHand[p] >= taking[s].qty - Slack(k)
      BY <2>3 DEF StockInv, Backed
    <3>2. taking[s].qty \in Nat
      BY <2>1 DEF Pending, Inventory!Movements, Inventory!None, StockAssumption
    <3>3. /\ Slack(k) \in Nat /\ Slack(k) =< Slack(1)
      BY <2>3, PendingCount, Slacks
    <3>4. Slack(1) \in Nat
      <4>1. Cardinality(Takers) \in Nat /\ Cardinality(Takers) # 0
        BY FS_EmptySet, FS_CardinalityType DEF StockAssumption
      <4> QED
        BY <4>1, Slacks
    <3>5. onHand[p] >= -Slack(1)
      BY <2>1, <3>1, <3>2, <3>3, <3>4
    <3> QED
      BY <3>5 DEF Slack
  <2> QED
    BY <2>2, <2>3
<1> QED
  BY <1>1, StockInit, StockStep

\* inventory.service.ts:225-229: however many calls take stock, and wherever they are cut, a place
\* is oversold by at most one largest movement for each call but one.
THEOREM OversellCorrect ==
    ASSUME StockAssumption
    PROVE  Inventory!Spec => []Inventory!OversellBound
BY StockInductive, PTL DEF Inventory!Spec
-----------------------------------------------------------------------------
(* Buildings: what the times of a building say of its life *)

\* What a call that has read a building may rely on when it writes: the row has been made, and
\* a time of publication that it saw is still there unless the building is gone.
ReadHolds(s) ==
    /\ moves[s].op # "none" => moves[s].b \in Buildings /\ life[moves[s].b] # "none"
    /\ moves[s].op = "active" /\ moves[s].stamped =>
           life[moves[s].b] = "gone" \/ "published" \in stamps[moves[s].b]

LifeInv ==
    /\ Lifecycle!TypeOK
    /\ \A b \in Buildings : life[b] \in {"none", "gone"} => stamps[b] = {}
    /\ Lifecycle!StampsMatchLife
    /\ \A s \in Lanes : ReadHolds(s)

LEMMA LifeStep == LifeInv /\ [Lifecycle!Next]_(Lifecycle!vars) => LifeInv'
<1> SUFFICES ASSUME LifeInv, [Lifecycle!Next]_(Lifecycle!vars) PROVE LifeInv'
  OBVIOUS
<1> USE DEF LifeInv, ReadHolds, Lifecycle!TypeOK, Lifecycle!StampsMatchLife, Lifecycle!NoCall, Lifecycle!Rows
<1>1. ASSUME NEW s \in Lanes, NEW b \in Buildings, Lifecycle!Create(s, b) PROVE LifeInv'
  BY <1>1 DEF Lifecycle!Create
<1>2. ASSUME NEW s \in Lanes, NEW b \in Buildings, NEW to \in {"active", "archived"},
             Lifecycle!ReadForTransition(s, b, to)
      PROVE  LifeInv'
  BY <1>2 DEF Lifecycle!ReadForTransition
<1>3. ASSUME NEW s \in Lanes, Lifecycle!CreateRest(s) PROVE LifeInv'
  <2> DEFINE b == moves[s].b
  <2>1. /\ UNCHANGED <<life, stamps>>
        /\ b \in Buildings
        /\ moves[s].op \in {"settings", "manager", "backlog"}
    BY <1>3 DEF Lifecycle!CreateRest
  <2>2. setup' \in [Buildings -> SUBSET {"settings", "manager", "backlog"}] /\ createCut' \subseteq Buildings
    BY <1>3, <2>1 DEF Lifecycle!CreateRest
  <2>3. moves' = [moves EXCEPT ![s] = Lifecycle!NoCall]
        \/ \E o \in {"none", "manager", "backlog"} : moves' = [moves EXCEPT ![s] = [@ EXCEPT !.op = o]]
    BY <1>3, <2>1 DEF Lifecycle!CreateRest, Lifecycle!After
  <2>4. moves' \in [Lanes -> [op : {"none", "settings", "manager", "backlog", "active", "archived"},
                             b : Buildings \cup {"none"},
                             from : {"none", "draft", "active", "archived"}, stamped : BOOLEAN]]
    <3>1. CASE moves' = [moves EXCEPT ![s] = Lifecycle!NoCall]
      BY <3>1
    <3>2. ASSUME NEW o \in {"none", "manager", "backlog"}, moves' = [moves EXCEPT ![s] = [@ EXCEPT !.op = o]]
          PROVE  moves' \in [Lanes -> [op : {"none", "settings", "manager", "backlog", "active", "archived"},
                                      b : Buildings \cup {"none"},
                                      from : {"none", "draft", "active", "archived"}, stamped : BOOLEAN]]
      BY <3>2
    <3> QED
      BY <2>3, <3>1, <3>2
  <2>5. \A t \in Lanes : ReadHolds(t)'
    BY <2>1, <2>3
  <2> QED
    BY <2>1, <2>2, <2>4, <2>5
<1>4. ASSUME NEW s \in Lanes, Lifecycle!WriteTransition(s) PROVE LifeInv'
  <2> DEFINE b == moves[s].b
  <2>1. /\ UNCHANGED <<setup, createCut>> /\ moves' = [moves EXCEPT ![s] = Lifecycle!NoCall]
        /\ moves[s].op \in {"active", "archived"} /\ b \in Buildings
    BY <1>4 DEF Lifecycle!WriteTransition
  <2>2. CASE b \notin Lifecycle!Rows
    BY <1>4, <2>1, <2>2 DEF Lifecycle!WriteTransition
  <2>3. CASE b \in Lifecycle!Rows
    <3>1. /\ life' = [life EXCEPT ![b] = moves[s].op]
          /\ stamps' = [stamps EXCEPT ![b] = Lifecycle!Stamp(moves[s], stamps[b])]
      BY <1>4, <2>3 DEF Lifecycle!WriteTransition
    <3>2. /\ stamps'[b] \in SUBSET {"published", "archived"}
          /\ "published" \in stamps[b] => "published" \in stamps'[b]
          /\ moves[s].op = "active" => "published" \in stamps'[b]
          /\ moves[s].op = "archived" => "archived" \in stamps'[b]
      BY <2>1, <2>3, <3>1 DEF Lifecycle!Stamp
    <3>3. Lifecycle!TypeOK'
      BY <2>1, <3>1, <3>2
    <3>4. \A t \in Lanes : ReadHolds(t)'
      BY <2>1, <2>3, <3>1, <3>2
    <3> QED
      BY <2>1, <2>3, <3>1, <3>2, <3>3, <3>4
  <2> QED
    BY <2>2, <2>3
<1>5. ASSUME NEW b \in Buildings, Lifecycle!Delete(b) PROVE LifeInv'
  BY <1>5 DEF Lifecycle!Delete
<1>6. CASE UNCHANGED Lifecycle!vars
  BY <1>6 DEF Lifecycle!vars
<1> QED
  BY <1>1, <1>2, <1>3, <1>4, <1>5, <1>6 DEF Lifecycle!Next

\* The invariant holds at first, every step keeps it, and it has what is to hold in it.
LEMMA LifeInductive ==
    /\ Lifecycle!Init => LifeInv
    /\ LifeInv /\ [Lifecycle!Next]_(Lifecycle!vars) => LifeInv'
    /\ LifeInv => Lifecycle!StampsMatchLife
<1>1. Lifecycle!Init => LifeInv
  BY DEF Lifecycle!Init, LifeInv, ReadHolds, Lifecycle!TypeOK, Lifecycle!StampsMatchLife, Lifecycle!NoCall
<1>2. LifeInv => Lifecycle!StampsMatchLife
  BY DEF LifeInv
<1> QED
  BY <1>1, <1>2, LifeStep

\* buildings.service.ts:450-467: whatever transitions, creations and destructions overlap, an
\* active building has the time of its publication and an archived one that of its archival.
THEOREM StampsCorrect == Lifecycle!Spec => []Lifecycle!StampsMatchLife
BY LifeInductive, PTL DEF Lifecycle!Spec
-----------------------------------------------------------------------------
(* Documents: what is on legal hold can be read *)

ArchiveTypes ==
    /\ document \in [Papers -> [content : Contents \cup {"none"}, hold : BOOLEAN, expired : BOOLEAN,
                                scan : {"pending", "clean"}]]
    /\ clerk \in [Clerks -> [op : {"idle", "upload", "delete", "drop", "redeem"},
                             id : Papers \cup {"none"}, content : Contents \cup {"none"}]]

\* A call that uploads has put its object and has the row to itself; one that deletes has read
\* the content the row still has, and no hold that came before it looked.
ClerkHolds(c) ==
    /\ clerk[c].op = "upload" =>
           /\ clerk[c].id \in Papers /\ clerk[c].id # "none" /\ ~Archive!Exists(clerk[c].id)
           /\ \A b \in Clerks \ {c} : clerk[b].id # clerk[c].id
           /\ clerk[c].content \in stored \cup disturbed
    /\ clerk[c].op \in {"delete", "drop"} =>
           /\ clerk[c].id \in Papers
           /\ Archive!Exists(clerk[c].id) => document[clerk[c].id].content = clerk[c].content
    /\ clerk[c].op = "delete" => ~document[clerk[c].id].hold \/ clerk[c].id \in unheld

ArchiveInv ==
    /\ ArchiveTypes
    /\ \A c \in Clerks : ClerkHolds(c)
    /\ Archive!HeldIsReadable

\* A call that is in no deletion's second half moves on, and nothing else.
LEMMA ClerkMoves ==
    ASSUME ArchiveInv, NEW c \in Clerks, clerk[c].op # "drop",
           NEW call \in [op : {"idle", "upload", "delete", "drop", "redeem"},
                         id : Papers \cup {"none"}, content : Contents \cup {"none"}],
           clerk' = [clerk EXCEPT ![c] = call],
           UNCHANGED <<document, disturbed, unheld, halved>>, stored \subseteq stored',
           ClerkHolds(c)',
           \A b \in Clerks \ {c} : clerk[b].op = "upload" => call.id # clerk[b].id
    PROVE  ArchiveInv'
<1>1. ArchiveTypes' /\ \A b \in Clerks \ {c} : clerk'[b] = clerk[b]
  BY DEF ArchiveInv, ArchiveTypes
<1>2. ASSUME NEW b \in Clerks \ {c} PROVE ClerkHolds(b)'
  BY <1>1, <1>2 DEF ArchiveInv, ArchiveTypes, ClerkHolds, Archive!Exists
<1>3. Archive!HeldIsReadable'
  BY <1>1 DEF ArchiveInv, Archive!HeldIsReadable, Archive!Exists
<1> QED
  BY <1>1, <1>2, <1>3 DEF ArchiveInv

\* A column of a row that no call relies on changes.
LEMMA PaperChanges ==
    ASSUME ArchiveInv, UNCHANGED <<stored, clerk, disturbed, halved>>, unheld \subseteq unheld',
           document' \in [Papers -> [content : Contents \cup {"none"}, hold : BOOLEAN, expired : BOOLEAN,
                                     scan : {"pending", "clean"}]],
           \A d \in Papers : /\ document'[d].content = document[d].content
                             /\ \/ document'[d].hold => document[d].hold
                                \/ d \in unheld'
                                \/ \A c \in Clerks : ~(clerk[c].op \in {"delete", "drop"} /\ clerk[c].id = d)
    PROVE  ArchiveInv'
<1>1. ASSUME NEW c \in Clerks PROVE ClerkHolds(c)'
  BY <1>1 DEF ArchiveInv, ArchiveTypes, ClerkHolds, Archive!Exists
<1>2. Archive!HeldIsReadable'
  BY DEF ArchiveInv, ArchiveTypes, Archive!HeldIsReadable, Archive!Exists
<1> QED
  BY <1>1, <1>2 DEF ArchiveInv, ArchiveTypes

LEMMA ArchiveStep == ArchiveInv /\ [Archive!Next]_(Archive!vars) => ArchiveInv'
<1> SUFFICES ASSUME ArchiveInv, [Archive!Next]_(Archive!vars) PROVE ArchiveInv'
  OBVIOUS
<1>1. /\ ArchiveTypes /\ Archive!HeldIsReadable
      /\ \A c \in Clerks : ClerkHolds(c)
  BY DEF ArchiveInv
<1>2. ASSUME NEW c \in Clerks, NEW d \in Papers, Archive!ReadToDelete(c, d) PROVE ArchiveInv'
  <2> DEFINE call == [op |-> "delete", id |-> d, content |-> document[d].content]
  <2>1. /\ UNCHANGED <<document, stored, disturbed, unheld, halved>> /\ clerk' = [clerk EXCEPT ![c] = call]
        /\ clerk[c].op = "idle" /\ Archive!Exists(d) /\ ~document[d].hold
    BY <1>2 DEF Archive!ReadToDelete, Archive!Goes, Archive!Idle
  <2>2. call \in [op : {"idle", "upload", "delete", "drop", "redeem"},
                  id : Papers \cup {"none"}, content : Contents \cup {"none"}]
    BY <1>1 DEF ArchiveTypes
  <2>3. ClerkHolds(c)'
    BY <1>1, <2>1 DEF ArchiveTypes, ClerkHolds, Archive!Exists
  <2>4. \A b \in Clerks \ {c} : clerk[b].op = "upload" => call.id # clerk[b].id
    BY <1>1, <2>1 DEF ClerkHolds
  <2> HIDE DEF call
  <2> QED
    BY <2>1, <2>2, <2>3, <2>4, ClerkMoves
<1>3. ASSUME NEW c \in Clerks, NEW d \in Papers, NEW k \in Contents, Archive!Put(c, d, k) PROVE ArchiveInv'
  <2> DEFINE call == [op |-> "upload", id |-> d, content |-> k]
  <2>1. /\ UNCHANGED <<document, disturbed, unheld, halved>> /\ clerk' = [clerk EXCEPT ![c] = call]
        /\ stored' = stored \cup {k}
        /\ clerk[c].op = "idle" /\ clerk[c].id = "none" /\ ~Archive!Exists(d)
        /\ \A b \in Clerks : clerk[b].id # d
    BY <1>3 DEF Archive!Put, Archive!Goes, Archive!Idle
  <2>2. ClerkHolds(c)'
    BY <1>1, <2>1 DEF ArchiveTypes, ClerkHolds, Archive!Exists
  <2>3. call.id = d /\ call \in [op : {"idle", "upload", "delete", "drop", "redeem"},
                                 id : Papers \cup {"none"}, content : Contents \cup {"none"}]
    OBVIOUS
  <2> HIDE DEF call
  <2> QED
    BY <2>1, <2>2, <2>3, ClerkMoves
<1>4. ASSUME NEW c \in Clerks, Archive!CreateRow(c) PROVE ArchiveInv'
  <2> DEFINE d == clerk[c].id
             doc == [Archive!NoDocument EXCEPT !.content = clerk[c].content]
  <2>1. /\ clerk[c].op = "upload" /\ UNCHANGED <<stored, disturbed, unheld, halved>>
        /\ document' = [document EXCEPT ![d] = doc] /\ clerk' = [clerk EXCEPT ![c] = Archive!Idle]
    BY <1>4 DEF Archive!CreateRow, Archive!Returns
  <2>2. /\ d \in Papers /\ clerk[c].content \in stored \cup disturbed
        /\ \A b \in Clerks \ {c} : clerk[b].id # d
    BY <1>1, <2>1 DEF ClerkHolds
  <2>3. /\ doc.content = clerk[c].content
        /\ doc \in [content : Contents \cup {"none"}, hold : BOOLEAN, expired : BOOLEAN,
                    scan : {"pending", "clean"}]
    BY <1>1 DEF ArchiveTypes, Archive!NoDocument
  <2> HIDE DEF doc, d
  <2>4. /\ ArchiveTypes'
        /\ \A b \in Clerks \ {c} : clerk'[b] = clerk[b]
        /\ clerk'[c] = Archive!Idle
        /\ document'[d] = doc /\ \A e \in Papers \ {d} : document'[e] = document[e]
    BY <1>1, <2>1, <2>2, <2>3 DEF ArchiveTypes, Archive!Idle
  <2>5. ASSUME NEW b \in Clerks PROVE ClerkHolds(b)'
    <3>1. CASE b = c
      BY <2>4, <3>1 DEF ClerkHolds, Archive!Idle
    <3>2. CASE b # c
      <4>1. ClerkHolds(b)
        BY <1>1
      <4>2. clerk'[b] = clerk[b] /\ clerk[b].id # d
        BY <2>2, <2>4, <3>2
      <4>3. \A a \in Clerks \ {b} : clerk[b].op = "upload" => clerk'[a].id # clerk[b].id
        BY <2>4, <4>1 DEF ClerkHolds, Archive!Idle
      <4> QED
        BY <2>1, <2>4, <4>1, <4>2, <4>3 DEF ClerkHolds, Archive!Exists
    <3> QED
      BY <3>1, <3>2
  <2>6. Archive!HeldIsReadable'
    BY <1>1, <2>1, <2>2, <2>3, <2>4 DEF Archive!HeldIsReadable, Archive!Exists
  <2> QED
    BY <2>4, <2>5, <2>6 DEF ArchiveInv
<1>5. ASSUME NEW d \in Papers, NEW on \in BOOLEAN, Archive!SetLegalHold(d, on) PROVE ArchiveInv'
  <2>1. /\ UNCHANGED <<stored, clerk, disturbed, halved>> /\ document' = [document EXCEPT ![d].hold = on]
        /\ unheld' = IF on /\ \E c \in Clerks : clerk[c].op \in {"delete", "drop"} /\ clerk[c].id = d
                     THEN unheld \cup {d} ELSE unheld
    BY <1>5 DEF Archive!SetLegalHold
  <2>2. /\ document' \in [Papers -> [content : Contents \cup {"none"}, hold : BOOLEAN, expired : BOOLEAN,
                                     scan : {"pending", "clean"}]]
        /\ document'[d].content = document[d].content /\ document'[d].hold = on
        /\ \A e \in Papers \ {d} : document'[e] = document[e]
    BY <1>1, <2>1 DEF ArchiveTypes
  <2>3. \A e \in Papers : /\ document'[e].content = document[e].content
                          /\ \/ document'[e].hold => document[e].hold
                             \/ e \in unheld'
                             \/ \A c \in Clerks : ~(clerk[c].op \in {"delete", "drop"} /\ clerk[c].id = e)
    BY <2>1, <2>2
  <2> QED
    BY <2>1, <2>2, <2>3, PaperChanges
<1>6. ASSUME NEW d \in Papers, Archive!RecordVirusScan(d, "clean") \/ Archive!Expire(d) PROVE ArchiveInv'
  <2>1. UNCHANGED <<stored, clerk, disturbed, unheld, halved>>
    BY <1>6 DEF Archive!RecordVirusScan, Archive!Expire
  <2>2. /\ document' \in [Papers -> [content : Contents \cup {"none"}, hold : BOOLEAN, expired : BOOLEAN,
                                     scan : {"pending", "clean"}]]
        /\ \A e \in Papers : document'[e].content = document[e].content /\ document'[e].hold = document[e].hold
    <3>1. CASE Archive!RecordVirusScan(d, "clean")
      BY <1>1, <3>1 DEF ArchiveTypes, Archive!RecordVirusScan
    <3>2. CASE Archive!Expire(d)
      BY <1>1, <3>2 DEF ArchiveTypes, Archive!Expire
    <3> QED
      BY <1>6, <3>1, <3>2
  <2> QED
    BY <2>1, <2>2, PaperChanges
<1>7. ASSUME NEW c \in Clerks, Archive!DeleteObject(c) PROVE ArchiveInv'
  <2> DEFINE k == clerk[c].content
             d == clerk[c].id
  <2>1. /\ clerk[c].op = "delete" /\ UNCHANGED <<document, unheld, halved>> /\ stored' = stored \ {k}
        /\ disturbed' = IF Archive!Sharers(k, d, c) = {} THEN disturbed ELSE disturbed \cup {k}
        /\ clerk' = [clerk EXCEPT ![c] = [op |-> "drop", id |-> d, content |-> k]]
    BY <1>7 DEF Archive!DeleteObject, Archive!Goes
  <2>2. /\ d \in Papers /\ (~document[d].hold \/ d \in unheld)
        /\ Archive!Exists(d) => document[d].content = k
    BY <1>1, <2>1 DEF ClerkHolds
  <2>3. /\ ArchiveTypes'
        /\ \A b \in Clerks \ {c} : clerk'[b] = clerk[b]
        /\ clerk'[c].op = "drop" /\ clerk'[c].id = d /\ clerk'[c].content = k
    BY <1>1, <2>1 DEF ArchiveTypes
  <2> HIDE DEF k, d
  <2>4. /\ \A e \in Papers \ {d} : document[e].content = k => k \in disturbed'
        /\ \A b \in Clerks \ {c} : clerk[b].op = "upload" /\ clerk[b].content = k => k \in disturbed'
        /\ disturbed \subseteq disturbed'
    BY <2>1 DEF Archive!Sharers
  <2>5. ASSUME NEW b \in Clerks PROVE ClerkHolds(b)'
    <3>1. CASE b = c
      BY <2>1, <2>2, <2>3, <3>1 DEF ClerkHolds, Archive!Exists
    <3>2. CASE b # c
      <4>1. ClerkHolds(b) /\ clerk'[b] = clerk[b]
        BY <1>1, <2>3, <3>2
      <4>2. \A a \in Clerks : clerk'[a].id = clerk[a].id
        BY <2>3 DEF d
      <4> QED
        BY <2>1, <2>4, <3>2, <4>1, <4>2 DEF ClerkHolds, Archive!Exists
    <3> QED
      BY <3>1, <3>2
  <2>6. Archive!HeldIsReadable'
    BY <1>1, <2>1, <2>2, <2>3, <2>4 DEF Archive!HeldIsReadable, Archive!Exists
  <2> QED
    BY <2>3, <2>5, <2>6 DEF ArchiveInv
<1>8. ASSUME NEW c \in Clerks, Archive!DeleteRow(c) PROVE ArchiveInv'
  <2> DEFINE d == clerk[c].id
  <2>1. /\ clerk[c].op = "drop" /\ UNCHANGED <<stored, disturbed>>
        /\ unheld' = unheld \ {d} /\ halved' = halved \ {d}
        /\ document' = [document EXCEPT ![d] = Archive!NoDocument]
        /\ clerk' = [clerk EXCEPT ![c] = Archive!Idle]
    BY <1>8 DEF Archive!DeleteRow, Archive!Returns
  <2>2. d \in Papers
    BY <1>1, <2>1 DEF ClerkHolds
  <2> HIDE DEF d
  <2>3. /\ ArchiveTypes'
        /\ \A b \in Clerks \ {c} : clerk'[b] = clerk[b]
        /\ clerk'[c] = Archive!Idle
        /\ document'[d] = Archive!NoDocument /\ \A e \in Papers \ {d} : document'[e] = document[e]
    BY <1>1, <2>1, <2>2 DEF ArchiveTypes, Archive!Idle, Archive!NoDocument
  <2>4. ASSUME NEW b \in Clerks PROVE ClerkHolds(b)'
    <3>1. CASE b = c
      BY <2>3, <3>1 DEF ClerkHolds, Archive!Idle
    <3>2. CASE b # c
      <4>1. ClerkHolds(b) /\ clerk'[b] = clerk[b]
        BY <1>1, <2>3, <3>2
      <4>2. \A a \in Clerks \ {b} : clerk[b].op = "upload" => clerk'[a].id # clerk[b].id
        BY <2>3, <4>1 DEF ClerkHolds, Archive!Idle
      <4> QED
        BY <2>1, <2>3, <4>1, <4>2 DEF ClerkHolds, Archive!Exists, Archive!NoDocument
    <3> QED
      BY <3>1, <3>2
  <2>5. Archive!HeldIsReadable'
    BY <1>1, <2>1, <2>2, <2>3 DEF Archive!HeldIsReadable, Archive!Exists, Archive!NoDocument, d
  <2> QED
    BY <2>3, <2>4, <2>5 DEF ArchiveInv
<1>9. ASSUME NEW c \in Clerks, Archive!ReadUses(c) PROVE ArchiveInv'
  <2> DEFINE call == [op |-> "redeem", id |-> "none", content |-> "none"]
  <2>1. /\ UNCHANGED <<document, stored, disturbed, unheld, halved>> /\ clerk' = [clerk EXCEPT ![c] = call]
        /\ clerk[c].op = "idle"
    BY <1>9 DEF Archive!ReadUses, Archive!Goes, Archive!Idle
  <2>2. /\ ClerkHolds(c)'
        /\ \A b \in Clerks \ {c} : clerk[b].op = "upload" => call.id # clerk[b].id
    BY <1>1, <2>1 DEF ArchiveTypes, ClerkHolds
  <2>3. call \in [op : {"idle", "upload", "delete", "drop", "redeem"},
                  id : Papers \cup {"none"}, content : Contents \cup {"none"}]
    OBVIOUS
  <2> HIDE DEF call
  <2> QED
    BY <2>1, <2>2, <2>3, ClerkMoves
<1>10. ASSUME NEW c \in Clerks, clerk[c].op # "drop",
              UNCHANGED <<document, stored, disturbed, unheld, halved>>, clerk' = [clerk EXCEPT ![c] = Archive!Idle]
       PROVE  ArchiveInv'
  <2>1. /\ ClerkHolds(c)'
        /\ \A b \in Clerks \ {c} : clerk[b].op = "upload" => Archive!Idle.id # clerk[b].id
        /\ Archive!Idle \in [op : {"idle", "upload", "delete", "drop", "redeem"},
                             id : Papers \cup {"none"}, content : Contents \cup {"none"}]
    BY <1>1, <1>10 DEF ArchiveTypes, ClerkHolds, Archive!Idle
  <2> QED
    BY <1>10, <2>1, ClerkMoves
<1>11. ASSUME NEW c \in Clerks, Archive!Redeem(c) PROVE ArchiveInv'
  BY <1>10, <1>11 DEF Archive!Redeem, Archive!Returns
<1>12. ASSUME NEW c \in Clerks, Archive!Throw(c) PROVE ArchiveInv'
  <2>1. CASE clerk[c].op # "drop"
    BY <1>10, <1>12, <2>1 DEF Archive!Throw, Archive!Returns
  <2>2. CASE clerk[c].op = "drop"
    <3>1. /\ UNCHANGED <<document, stored, disturbed, unheld>>
          /\ halved' = halved \cup {d \in Papers : clerk[c].id = d /\ Archive!Exists(d)}
          /\ clerk' = [clerk EXCEPT ![c] = Archive!Idle]
      BY <1>12, <2>2 DEF Archive!Throw, Archive!Returns
    <3>2. /\ ArchiveTypes'
          /\ \A b \in Clerks \ {c} : clerk'[b] = clerk[b]
          /\ clerk'[c] = Archive!Idle
      BY <1>1, <3>1 DEF ArchiveTypes, Archive!Idle
    <3>3. ASSUME NEW b \in Clerks PROVE ClerkHolds(b)'
      <4>1. CASE b = c
        BY <3>2, <4>1 DEF ClerkHolds, Archive!Idle
      <4>2. CASE b # c
        <5>1. ClerkHolds(b) /\ clerk'[b] = clerk[b]
          BY <1>1, <3>2, <4>2
        <5>2. \A a \in Clerks \ {b} : clerk[b].op = "upload" => clerk'[a].id # clerk[b].id
          BY <3>2, <5>1 DEF ClerkHolds, Archive!Idle
        <5> QED
          BY <3>1, <5>1, <5>2 DEF ClerkHolds, Archive!Exists
      <4> QED
        BY <4>1, <4>2
    <3>4. \A d \in Papers : clerk[c].id = d /\ Archive!Exists(d) => d \in halved'
      BY <3>1
    <3>5. Archive!HeldIsReadable'
      BY <1>1, <3>1, <3>2, <3>4 DEF Archive!HeldIsReadable, Archive!Exists
    <3> QED
      BY <3>2, <3>3, <3>5 DEF ArchiveInv
  <2> QED
    BY <2>1, <2>2
<1>13. CASE UNCHANGED Archive!paperVars
  BY <1>1, <1>13 DEF Archive!paperVars, ArchiveInv, ArchiveTypes, ClerkHolds, Archive!HeldIsReadable,
                     Archive!Exists
<1>14. CASE Archive!PaperNext
  BY <1>2, <1>3, <1>4, <1>5, <1>6, <1>7, <1>8, <1>9, <1>11, <1>12, <1>14 DEF Archive!PaperNext
<1> QED
  BY <1>13, <1>14 DEF Archive!Next, Archive!vars

\* The invariant holds at first, every step keeps it, and it has what is to hold in it.
LEMMA ArchiveInductive ==
    /\ Archive!PaperInit => ArchiveInv
    /\ ArchiveInv /\ [Archive!Next]_(Archive!vars) => ArchiveInv'
    /\ ArchiveInv => Archive!HeldIsReadable
<1>1. Archive!PaperInit => ArchiveInv
  BY DEF Archive!Init, Archive!PaperInit, Archive!NoDocument, Archive!Idle, Archive!Exists, ArchiveInv,
         ArchiveTypes, ClerkHolds, Archive!HeldIsReadable
<1>2. ArchiveInv => Archive!HeldIsReadable
  BY DEF ArchiveInv
<1> QED
  BY <1>1, <1>2, ArchiveStep

\* documents.service.ts:89-91 and :158-169: whatever uploads, holds and deletions overlap or are cut
\* short, a document on legal hold can be read, unless its object was deleted for another document
\* of the same content, it was put on hold after its own deletion had checked, or a deletion of it
\* was cut between the object and the row; every other document can be read until its deletion
\* begins.
THEOREM HeldCorrect == Archive!Spec => []Archive!HeldIsReadable
BY ArchiveInductive, PTL DEF Archive!Spec, Archive!Init
-----------------------------------------------------------------------------
(* Leases: the flag and the grant that follow another rec *)

LeaseCalls ==
    {Occupancy!NoCall}
    \cup [op : {"flag", "recount", "clear"}, x : Spots, who : {"none"}, before : {"none"}, alone : BOOLEAN]
    \cup [op : {"link", "revoke"}, x : Companies, who : People \cup {"none"},
          before : People \cup {"none"}, alone : BOOLEAN]
    \cup [op : {"grant"}, x : Companies, who : People, before : People \cup {"none"}, alone : BOOLEAN]

LeaseTypes ==
    /\ leased \subseteq Spots
    /\ admin \in [Companies -> People \cup {"none"}]
    /\ grant \in [People -> Companies \cup {"none"}]
    /\ leaseCall \in [Hands -> LeaseCalls]
    /\ leaseCut \subseteq Spots \cup Companies

Let(s) == \E k \in Contracts : <<k, s>> \in allocations
Holders(c) == {u \in People : grant[u] = c}

\* What a call that has nobody beside it knows of the rows it is about to write
Knows(call) ==
    /\ call.op = "flag" => Let(call.x)
    /\ call.op = "recount" => call.x \in leaseCut \cup leased
    /\ call.op = "clear" => ~Let(call.x)
    /\ call.op = "link" /\ call.x \notin leaseCut =>
           call.before = admin[call.x] /\ Holders(call.x) \subseteq {call.before}
    /\ call.op = "revoke" /\ call.x \notin leaseCut =>
           call.who = admin[call.x] /\ Holders(call.x) \subseteq {call.before, call.who}
    /\ call.op = "grant" /\ call.x \notin leaseCut =>
           call.who = admin[call.x] /\ Holders(call.x) \subseteq {call.who}

\* A call that has had another beside it left its mark, and the mark outlives it.
LeaseHolds(h) ==
    leaseCall[h].op # "none" =>
        IF leaseCall[h].alone
        THEN Knows(leaseCall[h]) /\ \A g \in Hands \ {h} : leaseCall[g].x # leaseCall[h].x
        ELSE leaseCall[h].x \in leaseCut

\* Both rows say the same of x
Agreed(x) ==
    /\ x \in Spots => (x \in leased <=> Let(x))
    /\ x \in Companies => Holders(x) \subseteq {admin[x]}

LeaseInv ==
    /\ LeaseTypes
    /\ \A h \in Hands : LeaseHolds(h)
    /\ \A x \in (Spots \cup Companies) \ leaseCut : Occupancy!AtWork(x) \/ Agreed(x)

LEMMA LeaseCallTypes ==
    ASSUME IdsDiffer, NEW call \in LeaseCalls
    PROVE  /\ call.op \in {"none", "flag", "recount", "clear", "link", "revoke", "grant"}
           /\ call.op = "none" <=> call = Occupancy!NoCall
           /\ call.op = "none" <=> call.x = "none"
           /\ call.op \in {"flag", "recount", "clear"} => call.x \in Spots /\ call.x \notin Companies
           /\ call.op \in {"link", "revoke", "grant"} => call.x \in Companies /\ call.x \notin Spots
           /\ call.who \in People \cup {"none"} /\ call.before \in People \cup {"none"}
           /\ call.alone \in BOOLEAN
           /\ call.op # "none" => \A b \in BOOLEAN : [call EXCEPT !.alone = b] \in LeaseCalls
<1>1. CASE call = Occupancy!NoCall
  BY <1>1 DEF Occupancy!NoCall
<1>2. CASE call \in [op : {"flag", "recount", "clear"}, x : Spots, who : {"none"}, before : {"none"},
                     alone : BOOLEAN]
  BY <1>2 DEF LeaseCalls, Occupancy!NoCall, IdsDiffer
<1>3. CASE call \in [op : {"link", "revoke"}, x : Companies, who : People \cup {"none"},
                     before : People \cup {"none"}, alone : BOOLEAN]
  BY <1>3 DEF LeaseCalls, Occupancy!NoCall, IdsDiffer
<1>4. CASE call \in [op : {"grant"}, x : Companies, who : People, before : People \cup {"none"},
                     alone : BOOLEAN]
  BY <1>4 DEF LeaseCalls, Occupancy!NoCall, IdsDiffer
<1> QED
  BY <1>1, <1>2, <1>3, <1>4 DEF LeaseCalls

\* A call that writes its rows, leaves or goes on to its next statement: what it does not write
\* stays as the other calls know it.
LEMMA LeaseMoves ==
    ASSUME IdsDiffer, LeaseInv, NEW h \in Hands, leaseCall[h].op # "none",
           NEW x, x = leaseCall[h].x, NEW next \in LeaseCalls,
           next.op # "none" => next.x = x /\ next.alone = leaseCall[h].alone,
           leaseCall' = [leaseCall EXCEPT ![h] = next],
           allocations' = allocations,
           leased' \subseteq Spots, \A s \in Spots \ {x} : s \in leased' <=> s \in leased,
           admin' \in [Companies -> People \cup {"none"}],
           \A c \in Companies \ {x} : admin'[c] = admin[c],
           grant' \in [People -> Companies \cup {"none"}],
           \A u \in People : grant'[u] \in {grant[u], "none", x},
           leaseCut' \in {leaseCut, leaseCut \cup {x}, leaseCut \ {x}},
           x \in leaseCut /\ x \notin leaseCut' => leaseCall[h].alone,
           leaseCall[h].alone /\ next.op # "none" => Knows(next)',
           leaseCall[h].alone /\ next.op = "none" /\ x \notin leaseCut' => Agreed(x)'
    PROVE  LeaseInv'
<1>1. x \in Spots \cup Companies /\ leaseCall[h] \in LeaseCalls
  BY LeaseCallTypes DEF LeaseInv, LeaseTypes
<1>2. LeaseTypes'
  BY <1>1 DEF LeaseInv, LeaseTypes
<1>3. leaseCall'[h] = next /\ \A g \in Hands \ {h} : leaseCall'[g] = leaseCall[g]
  BY DEF LeaseInv, LeaseTypes
<1>4. \A s : Let(s)' <=> Let(s)
  BY DEF Let
<1>5. \A c \in Companies \ {x} : Holders(c)' \subseteq Holders(c)
  BY IdsDiffer DEF Holders, IdsDiffer
<1>6. \A y : y # x => (y \in leaseCut' <=> y \in leaseCut)
  OBVIOUS
<1>7. x \notin leaseCut' /\ x \in leaseCut => \A g \in Hands \ {h} : leaseCall[g].x # x
  BY DEF LeaseInv, LeaseHolds
<1>8. ASSUME NEW g \in Hands \ {h} PROVE LeaseHolds(g)'
  <2>1. SUFFICES ASSUME leaseCall[g].op # "none"
                 PROVE  LeaseHolds(g)'
    BY <1>3, <1>8 DEF LeaseHolds
  <2>2. LeaseHolds(g) /\ leaseCall[g] \in LeaseCalls
    BY <1>8 DEF LeaseInv, LeaseTypes
  <2>3. CASE leaseCall[g].alone
    <3>1. leaseCall[g].x # x /\ leaseCall[g].x # "none" /\ leaseCall[g].x # next.x
      BY <2>1, <2>2, <2>3, <1>8, LeaseCallTypes DEF LeaseHolds
    <3>2. Knows(leaseCall[g])
      BY <2>1, <2>2, <2>3 DEF LeaseHolds
    <3>3. ASSUME NEW call \in LeaseCalls, call = leaseCall[g] PROVE Knows(call)'
      BY <1>4, <1>5, <1>6, <2>1, <3>1, <3>2, <3>3, LeaseCallTypes DEF Knows
    <3>4. \A f \in Hands \ {g} : leaseCall'[f].x # leaseCall'[g].x
      BY <1>3, <1>8, <2>1, <2>2, <2>3, <3>1 DEF LeaseHolds
    <3> QED
      BY <1>3, <1>8, <2>2, <2>3, <3>3, <3>4 DEF LeaseHolds
  <2>4. CASE ~leaseCall[g].alone
    <3>1. leaseCall[g].x \in leaseCut
      BY <2>1, <2>2, <2>4 DEF LeaseHolds
    <3>2. leaseCall[g].x \in leaseCut'
      BY <1>6, <1>7, <1>8, <3>1
    <3> QED
      BY <1>3, <1>8, <2>4, <3>2 DEF LeaseHolds
  <2> QED
    BY <2>3, <2>4
<1>9. LeaseHolds(h)'
  <2>1. CASE next.op = "none"
    BY <1>3, <2>1 DEF LeaseHolds
  <2>2. CASE next.op # "none" /\ leaseCall[h].alone
    <3>1. \A g \in Hands \ {h} : leaseCall[g].x # x
      BY <2>2 DEF LeaseInv, LeaseHolds
    <3> QED
      BY <1>3, <2>2, <3>1 DEF LeaseHolds
  <2>3. CASE next.op # "none" /\ ~leaseCall[h].alone
    <3>1. x \in leaseCut'
      BY <2>3 DEF LeaseInv, LeaseHolds
    <3> QED
      BY <1>3, <2>3, <3>1 DEF LeaseHolds
  <2> QED
    BY <2>1, <2>2, <2>3
<1>10. ASSUME NEW y \in (Spots \cup Companies) \ leaseCut' PROVE Occupancy!AtWork(y)' \/ Agreed(y)'
  <2>1. CASE y # x
    <3>1. y \notin leaseCut /\ (Occupancy!AtWork(y) \/ Agreed(y))
      BY <1>6, <1>10, <2>1 DEF LeaseInv
    <3>2. Occupancy!AtWork(y) => Occupancy!AtWork(y)'
      BY <1>3, <2>1 DEF Occupancy!AtWork
    <3>3. Agreed(y) => Agreed(y)'
      BY <1>4, <1>5, <2>1 DEF Agreed
    <3> QED
      BY <3>1, <3>2, <3>3
  <2>2. CASE y = x /\ next.op # "none"
    BY <1>3, <2>2 DEF Occupancy!AtWork
  <2>3. CASE y = x /\ next.op = "none"
    <3>1. leaseCall[h].alone
      BY <1>10, <2>3 DEF LeaseInv, LeaseHolds
    <3> QED
      BY <1>10, <2>3, <3>1
  <2> QED
    BY <2>1, <2>2, <2>3
<1> QED
  BY <1>2, <1>8, <1>9, <1>10 DEF LeaseInv

\* A call that begins on x takes the knowledge of the calls that are on x already.
LEMMA LeaseBegins ==
    ASSUME IdsDiffer, LeaseInv, NEW h \in Hands, NEW call \in LeaseCalls, call.op # "none",
           Occupancy!Begin(h, call),
           \A s \in Spots \ {call.x} : Let(s)' <=> Let(s),
           UNCHANGED <<leased, admin, grant>>,
           (\A g \in Hands \ {h} : leaseCall[g].x # call.x) => Knows(call)'
    PROVE  LeaseInv'
<1> DEFINE x == call.x
           beside == \E g \in Hands \ {h} : leaseCall[g].x = x
           own == [call EXCEPT !.alone = ~beside]
<1>1. /\ leaseCall[h].op = "none" /\ leaseCall[h].x = "none"
      /\ x \in Spots \cup Companies /\ x # "none"
      /\ \A g \in Hands : leaseCall[g] \in LeaseCalls
  BY LeaseCallTypes DEF LeaseInv, LeaseTypes, Occupancy!Begin, Occupancy!At
<1>2. /\ leaseCut' = IF beside THEN leaseCut \cup {x} ELSE leaseCut
      /\ leaseCall'[h] = own
      /\ \A g \in Hands \ {h} :
             leaseCall'[g] = IF leaseCall[g].x = x THEN [leaseCall[g] EXCEPT !.alone = FALSE] ELSE leaseCall[g]
  BY DEF Occupancy!Begin, Occupancy!Shared
<1>3. /\ own \in LeaseCalls /\ own.op = call.op /\ own.x = x /\ own.alone = ~beside
      /\ own.who = call.who /\ own.before = call.before
  <2>1. own \in LeaseCalls
    BY LeaseCallTypes
  <2>2. call = [op |-> call.op, x |-> call.x, who |-> call.who, before |-> call.before,
                alone |-> call.alone]
    BY DEF LeaseCalls, Occupancy!NoCall
  <2> QED
    BY <2>1, <2>2
<1>4. ASSUME NEW g \in Hands \ {h}
      PROVE  /\ leaseCall'[g] \in LeaseCalls
             /\ leaseCall'[g].x = leaseCall[g].x /\ leaseCall'[g].op = leaseCall[g].op
             /\ leaseCall[g].x = x => ~leaseCall'[g].alone
             /\ leaseCall[g].x # x => leaseCall'[g] = leaseCall[g]
  <2>1. CASE leaseCall[g].x # x
    BY <1>1, <1>2, <1>4, <2>1
  <2>2. CASE leaseCall[g].x = x
    <3>1. ASSUME NEW rec \in LeaseCalls, rec.op # "none"
          PROVE  /\ [rec EXCEPT !.alone = FALSE] \in LeaseCalls
                 /\ [rec EXCEPT !.alone = FALSE].x = rec.x /\ [rec EXCEPT !.alone = FALSE].op = rec.op
                 /\ [rec EXCEPT !.alone = FALSE].alone = FALSE
      <4>1. rec = [op |-> rec.op, x |-> rec.x, who |-> rec.who, before |-> rec.before,
                   alone |-> rec.alone]
        BY <3>1 DEF LeaseCalls, Occupancy!NoCall
      <4> QED
        BY <3>1, <4>1, LeaseCallTypes
    <3>2. leaseCall[g].op # "none"
      BY <1>1, <1>4, <2>2, LeaseCallTypes
    <3> QED
      BY <1>1, <1>2, <1>4, <2>2, <3>1, <3>2
  <2> QED
    BY <2>1, <2>2
<1>5. leaseCall' \in [Hands -> LeaseCalls]
  BY <1>2, <1>3, <1>4 DEF Occupancy!Begin
<1>6. LeaseTypes'
  BY <1>1, <1>2, <1>5 DEF LeaseInv, LeaseTypes
<1>7. \A c : Holders(c)' = Holders(c)
  BY DEF Holders
<1>8. \A y : y # x => (y \in leaseCut' <=> y \in leaseCut)
  BY <1>2
<1> HIDE DEF own, x
<1>9. LeaseHolds(h)'
  <2>1. CASE beside
    BY <1>2, <1>3, <2>1 DEF LeaseHolds
  <2>2. CASE ~beside
    <3>1. Knows(call)'
      BY <2>2 DEF x
    <3>2. ASSUME NEW rec, rec = own PROVE Knows(rec)'
      BY <1>3, <3>1, <3>2 DEF Knows, x
    <3>3. \A g \in Hands \ {h} : leaseCall'[g].x # x
      BY <1>4, <2>2
    <3> QED
      BY <1>2, <1>3, <2>2, <3>2, <3>3 DEF LeaseHolds
  <2> QED
    BY <2>1, <2>2
<1>10. ASSUME NEW g \in Hands \ {h} PROVE LeaseHolds(g)'
  <2>1. SUFFICES ASSUME leaseCall[g].op # "none"
                 PROVE  LeaseHolds(g)'
    BY <1>4, <1>10 DEF LeaseHolds
  <2>2. CASE leaseCall[g].x = x
    BY <1>2, <1>4, <1>10, <2>2 DEF LeaseHolds
  <2>3. CASE leaseCall[g].x # x
    <3>1. leaseCall'[g] = leaseCall[g] /\ LeaseHolds(g)
      BY <1>4, <1>10, <2>3 DEF LeaseInv
    <3>2. ASSUME NEW rec \in LeaseCalls, rec = leaseCall[g], Knows(rec) PROVE Knows(rec)'
      <4>1. rec.x # x /\ rec.op # "none"
        BY <2>1, <2>3, <3>2
      <4> QED
        BY <1>7, <1>8, <3>2, <4>1, LeaseCallTypes DEF Knows, x
    <3>3. \A f \in Hands \ {g} : leaseCall[g].alone => leaseCall'[f].x # leaseCall[g].x
      BY <1>1, <1>2, <1>3, <1>4, <1>10, <2>1, <2>3, <3>1 DEF LeaseHolds
    <3> QED
      BY <1>1, <1>8, <1>10, <2>1, <2>3, <3>1, <3>2, <3>3 DEF LeaseHolds
  <2> QED
    BY <2>2, <2>3
<1>11. ASSUME NEW y \in (Spots \cup Companies) \ leaseCut' PROVE Occupancy!AtWork(y)' \/ Agreed(y)'
  <2>1. CASE y = x
    BY <1>2, <1>3, <2>1 DEF Occupancy!AtWork
  <2>2. CASE y # x
    <3>1. Occupancy!AtWork(y) \/ Agreed(y)
      BY <1>8, <1>11, <2>2 DEF LeaseInv
    <3>2. ASSUME Occupancy!AtWork(y) PROVE Occupancy!AtWork(y)'
      <4>1. PICK g \in Hands : leaseCall[g].x = y
        BY <3>2 DEF Occupancy!AtWork
      <4>2. CASE g = h
        BY <1>1, <1>11, <4>1, <4>2 DEF IdsDiffer
      <4>3. CASE g # h
        BY <1>4, <4>1, <4>3 DEF Occupancy!AtWork
      <4> QED
        BY <4>2, <4>3
    <3>3. Agreed(y) => Agreed(y)'
      BY <1>7, <2>2 DEF Agreed, x
    <3> QED
      BY <3>1, <3>2, <3>3
  <2> QED
    BY <2>1, <2>2
<1> QED
  BY <1>6, <1>9, <1>10, <1>11 DEF LeaseInv

\* What the invariant says of allocations is said of those of spots.
LEMMA LeaseStill ==
    ASSUME IdsDiffer, LeaseInv, UNCHANGED <<leased, admin, grant, leaseCall, leaseCut>>,
           \A s \in Spots : Let(s)' <=> Let(s)
    PROVE  LeaseInv'
<1>1. LeaseTypes'
  BY DEF LeaseInv, LeaseTypes
<1>2. \A c : Holders(c)' = Holders(c)
  BY DEF Holders
<1>3. ASSUME NEW h \in Hands PROVE LeaseHolds(h)'
  <2>1. LeaseHolds(h) /\ leaseCall[h] \in LeaseCalls
    BY <1>3 DEF LeaseInv, LeaseTypes
  <2>2. ASSUME NEW rec \in LeaseCalls, Knows(rec) PROVE Knows(rec)'
    BY <1>2, <2>2, LeaseCallTypes DEF Knows
  <2>3. leaseCall' = leaseCall /\ leaseCut' = leaseCut
    OBVIOUS
  <2>4. ASSUME NEW rec, rec = leaseCall[h] PROVE Knows(rec) => Knows(rec)'
    BY <2>1, <2>2, <2>4
  <2> QED
    BY <2>1, <2>3, <2>4 DEF LeaseHolds
<1>4. ASSUME NEW x PROVE Agreed(x) => Agreed(x)'
  BY <1>2 DEF Agreed
<1> QED
  BY <1>1, <1>3, <1>4 DEF LeaseInv, Occupancy!AtWork

LEMMA LeaseStep ==
    ASSUME IdsDiffer, LeaseInv, [Occupancy!Next]_Occupancy!vars
    PROVE  LeaseInv'
<1> USE DEF Occupancy!leaseVars, Occupancy!adminVars, Occupancy!At, Occupancy!NoCall
<1>1. ASSUME NEW h \in Hands
      PROVE  /\ leaseCall[h] \in LeaseCalls /\ LeaseHolds(h)
             /\ LeaseTypes
             /\ Occupancy!NoCall \in LeaseCalls
  BY DEF LeaseInv, LeaseTypes, LeaseCalls
<1>2. ASSUME NEW h \in Hands, NEW k \in Contracts, NEW t \in Occupancy!Targets, Occupancy!AddAllocation(h, k, t)
      PROVE  LeaseInv'
  <2> DEFINE call == [Occupancy!NoCall EXCEPT !.op = "flag", !.x = t]
  <2>1. \A s : s # t => (Let(s)' <=> Let(s))
    BY <1>2 DEF Occupancy!AddAllocation, Let
  <2>2. CASE t \in Spots
    <3>1. call \in LeaseCalls /\ call.op = "flag" /\ call.x = t
      BY <2>2 DEF LeaseCalls
    <3>2. Occupancy!Begin(h, call) /\ UNCHANGED <<leased, admin, grant>>
      BY <1>2, <2>2 DEF Occupancy!AddAllocation
    <3>3. Let(t)'
      BY <1>2 DEF Occupancy!AddAllocation, Let
    <3>4. Knows(call)'
      BY <3>1, <3>3 DEF Knows
    <3> HIDE DEF call
    <3> QED
      BY <2>1, <3>1, <3>2, <3>4, LeaseBegins
  <2>3. CASE t \notin Spots
    <3>1. UNCHANGED <<leased, admin, grant, leaseCall, leaseCut>>
      BY <1>2, <2>3 DEF Occupancy!AddAllocation
    <3>2. \A s \in Spots : Let(s)' <=> Let(s)
      BY <2>1, <2>3
    <3> QED
      BY <3>1, <3>2, LeaseStill
  <2> QED
    BY <2>2, <2>3
<1>3. ASSUME NEW h \in Hands, NEW k \in Contracts, NEW t \in Occupancy!Targets,
             Occupancy!RemoveAllocation(h, k, t)
      PROVE  LeaseInv'
  <2> DEFINE call == [Occupancy!NoCall EXCEPT !.op = "recount", !.x = t]
  <2>1. \A s : s # t => (Let(s)' <=> Let(s))
    BY <1>3 DEF Occupancy!RemoveAllocation, Let
  <2>2. CASE t \in Spots
    <3>1. call \in LeaseCalls /\ call.op = "recount" /\ call.x = t
      BY <2>2 DEF LeaseCalls
    <3>2. Occupancy!Begin(h, call) /\ UNCHANGED <<leased, admin, grant>> /\ Let(t)
      BY <1>3, <2>2 DEF Occupancy!RemoveAllocation, Let
    <3>3. ASSUME \A g \in Hands \ {h} : leaseCall[g].x # call.x PROVE Knows(call)'
      <4>1. leaseCall[h].x # t
        BY <1>1, <2>2, <3>2, LeaseCallTypes DEF Occupancy!Begin, IdsDiffer
      <4>2. ~Occupancy!AtWork(t)
        BY <3>1, <3>3, <4>1 DEF Occupancy!AtWork
      <4>3. t \in leaseCut \cup leased
        BY <2>2, <3>2, <4>2 DEF LeaseInv, Agreed
      <4>4. t \in leaseCut => t \in leaseCut'
        BY <3>2 DEF Occupancy!Begin
      <4> QED
        BY <3>1, <3>2, <4>3, <4>4 DEF Knows
    <3> HIDE DEF call
    <3> QED
      BY <2>1, <3>1, <3>2, <3>3, LeaseBegins
  <2>3. CASE t \notin Spots
    <3>1. UNCHANGED <<leased, admin, grant, leaseCall, leaseCut>>
      BY <1>3, <2>3 DEF Occupancy!RemoveAllocation
    <3>2. \A s \in Spots : Let(s)' <=> Let(s)
      BY <2>1, <2>3
    <3> QED
      BY <3>1, <3>2, LeaseStill
  <2> QED
    BY <2>2, <2>3
<1>4. ASSUME NEW h \in Hands, Occupancy!Flag(h) PROVE LeaseInv'
  <2> SUFFICES ASSUME NEW x, x = leaseCall[h].x PROVE LeaseInv'
    OBVIOUS
  <2>1. /\ leaseCall[h].op = "flag" /\ x \in Spots /\ x \notin Companies
        /\ leased' = leased \cup {x}
        /\ leaseCall' = [leaseCall EXCEPT ![h] = Occupancy!NoCall]
        /\ leaseCut' = IF leaseCall[h].alone THEN leaseCut \ {x} ELSE leaseCut
        /\ UNCHANGED <<allocations, admin, grant>>
    BY <1>1, <1>4, LeaseCallTypes DEF Occupancy!Flag, Occupancy!Done, Occupancy!Leave
  <2>2. leaseCall[h].alone => Agreed(x)'
    BY <1>1, <1>4, <2>1 DEF LeaseHolds, Knows, Agreed, Let
  <2> QED
    BY <1>1, <1>4, <2>1, <2>2, LeaseMoves DEF LeaseTypes
<1>5. ASSUME NEW h \in Hands, Occupancy!Recount(h) PROVE LeaseInv'
  <2> SUFFICES ASSUME NEW x, x = leaseCall[h].x,
                      NEW clear, clear = [leaseCall[h] EXCEPT !.op = "clear"],
                      NEW next, next = IF Let(x) THEN Occupancy!NoCall ELSE clear
               PROVE  LeaseInv'
    OBVIOUS
  <2>1. leaseCall[h].op = "recount" /\ x \in Spots /\ x \notin Companies /\ leaseCall[h] \in LeaseCalls
    BY <1>1, <1>5, LeaseCallTypes DEF Occupancy!Recount
  <2>2. clear \in LeaseCalls /\ clear.op = "clear" /\ clear.x = x /\ clear.alone = leaseCall[h].alone
    BY <2>1 DEF LeaseCalls
  <2>3. /\ leaseCall' = [leaseCall EXCEPT ![h] = next]
        /\ UNCHANGED <<allocations, leased, admin, grant, leaseCut>>
    BY <1>1, <1>5 DEF Occupancy!Recount, Occupancy!Leave, Occupancy!Goto, Let, LeaseTypes
  <2>4. ~Let(x) => Knows(clear)'
    BY <2>2, <2>3 DEF Knows, Let
  <2>5. leaseCall[h].alone /\ Let(x) /\ x \notin leaseCut' => Agreed(x)'
    BY <1>1, <1>5, <2>1, <2>3 DEF LeaseHolds, Knows, Agreed, Let
  <2>6. CASE Let(x)
    <3>1. next = Occupancy!NoCall /\ next \in LeaseCalls /\ next.op = "none"
      BY <1>1, <2>6
    <3> QED
      BY <1>1, <1>5, <2>1, <2>3, <2>5, <2>6, <3>1, LeaseMoves DEF LeaseTypes
  <2>7. CASE ~Let(x)
    <3>1. next = clear
      BY <2>7
    <3> QED
      BY <1>1, <1>5, <2>1, <2>2, <2>3, <2>4, <2>7, <3>1, LeaseMoves DEF LeaseTypes
  <2> QED
    BY <2>6, <2>7
<1>6. ASSUME NEW h \in Hands, Occupancy!Clear(h) PROVE LeaseInv'
  <2> SUFFICES ASSUME NEW x, x = leaseCall[h].x PROVE LeaseInv'
    OBVIOUS
  <2>1. /\ leaseCall[h].op = "clear" /\ x \in Spots /\ x \notin Companies
        /\ leased' = leased \ {x}
        /\ leaseCall' = [leaseCall EXCEPT ![h] = Occupancy!NoCall]
        /\ leaseCut' = IF leaseCall[h].alone THEN leaseCut \ {x} ELSE leaseCut
        /\ UNCHANGED <<allocations, admin, grant>>
    BY <1>1, <1>6, LeaseCallTypes DEF Occupancy!Clear, Occupancy!Done, Occupancy!Leave
  <2>2. leaseCall[h].alone => Agreed(x)'
    BY <1>1, <1>6, <2>1 DEF LeaseHolds, Knows, Agreed, Let
  <2> QED
    BY <1>1, <1>6, <2>1, <2>2, LeaseMoves DEF LeaseTypes
<1>7. ASSUME NEW h \in Hands, NEW c \in Companies, NEW who \in People \cup {"none"},
             Occupancy!ReadAdmin(h, c, who)
      PROVE  LeaseInv'
  <2> SUFFICES ASSUME NEW call,
                      call = [Occupancy!NoCall EXCEPT !.op = "link", !.x = c, !.who = who, !.before = admin[c]]
               PROVE  LeaseInv'
    OBVIOUS
  <2>1. Occupancy!Begin(h, call) /\ UNCHANGED <<allocations, leased, admin, grant>>
    BY <1>7 DEF Occupancy!ReadAdmin
  <2>2. admin[c] \in People \cup {"none"}
    BY <1>1, <1>7 DEF LeaseTypes
  <2>3. call \in LeaseCalls /\ call.op = "link" /\ call.x = c /\ call.before = admin[c]
    BY <1>7, <2>2 DEF LeaseCalls
  <2>4. ASSUME \A g \in Hands \ {h} : leaseCall[g].x # call.x PROVE Knows(call)'
    <3>1. leaseCall[h].x # c
      BY <1>1, <1>7, <2>1, LeaseCallTypes DEF Occupancy!Begin, IdsDiffer
    <3>2. ~Occupancy!AtWork(c)
      BY <2>3, <2>4, <3>1 DEF Occupancy!AtWork
    <3>3. c \notin leaseCut => Holders(c) \subseteq {admin[c]}
      BY <3>2 DEF LeaseInv, Agreed
    <3>4. c \in leaseCut => c \in leaseCut'
      BY <2>1 DEF Occupancy!Begin
    <3>5. Holders(c)' = Holders(c) /\ admin' = admin
      BY <2>1 DEF Holders
    <3> QED
      BY <2>3, <3>3, <3>4, <3>5 DEF Knows
  <2>5. \A s \in Spots \ {call.x} : Let(s)' <=> Let(s)
    BY <2>1 DEF Let
  <2> QED
    BY <2>1, <2>3, <2>4, <2>5, LeaseBegins
<1>8. ASSUME NEW h \in Hands, Occupancy!SetAdmin(h) PROVE LeaseInv'
  <2> SUFFICES ASSUME NEW x, x = leaseCall[h].x,
                      NEW next, next = [leaseCall[h] EXCEPT !.op = "revoke"]
               PROVE  LeaseInv'
    OBVIOUS
  <2>1. leaseCall[h].op = "link" /\ x \in Companies /\ x \notin Spots /\ leaseCall[h] \in LeaseCalls
    BY <1>1, <1>8, LeaseCallTypes DEF Occupancy!SetAdmin
  <2>2. /\ next \in LeaseCalls /\ next.op = "revoke" /\ next.x = x /\ next.alone = leaseCall[h].alone
        /\ next.who = leaseCall[h].who /\ next.before = leaseCall[h].before
        /\ next.who \in People \cup {"none"}
    BY <2>1 DEF LeaseCalls
  <2>3. /\ leaseCall' = [leaseCall EXCEPT ![h] = next]
        /\ admin' = [admin EXCEPT ![x] = next.who]
        /\ UNCHANGED <<allocations, leased, grant, leaseCut>>
    BY <1>8, <2>2 DEF Occupancy!SetAdmin, Occupancy!Goto
  <2>4. ASSUME leaseCall[h].alone PROVE Knows(next)'
    <3>1. x \notin leaseCut => Holders(x) \subseteq {next.before}
      BY <1>1, <1>8, <2>1, <2>2, <2>4 DEF LeaseHolds, Knows
    <3>2. Holders(x)' = Holders(x)
      BY <2>3 DEF Holders
    <3>3. admin'[x] = next.who
      BY <1>1, <1>8, <2>1, <2>3 DEF LeaseTypes
    <3> QED
      BY <2>2, <2>3, <3>1, <3>2, <3>3 DEF Knows
  <2> QED
    BY <1>1, <1>8, <2>1, <2>2, <2>3, <2>4, LeaseMoves DEF LeaseTypes
<1>9. ASSUME NEW h \in Hands, Occupancy!RevokePrior(h) PROVE LeaseInv'
  <2> SUFFICES ASSUME NEW x, x = leaseCall[h].x, NEW call, call = leaseCall[h],
                      NEW next, next = IF call.who = "none" THEN Occupancy!NoCall
                                       ELSE [leaseCall[h] EXCEPT !.op = "grant"]
               PROVE  LeaseInv'
    OBVIOUS
  <2>1. call.op = "revoke" /\ x \in Companies /\ x \notin Spots /\ call \in LeaseCalls
    BY <1>1, <1>9, LeaseCallTypes DEF Occupancy!RevokePrior
  <2>2. /\ leaseCall' = [leaseCall EXCEPT ![h] = next]
        /\ grant' = [u \in People |->
               IF u = call.before /\ u # call.who /\ grant[u] = x THEN "none" ELSE grant[u]]
        /\ UNCHANGED <<allocations, leased, admin, leaseCut>>
    BY <1>9 DEF Occupancy!RevokePrior, Occupancy!Leave, Occupancy!Goto
  <2>3. /\ grant' \in [People -> Companies \cup {"none"}]
        /\ \A u \in People : grant'[u] \in {grant[u], "none", x}
    BY <1>1, <1>9, <2>2 DEF LeaseTypes
  <2>4. ASSUME call.alone, x \notin leaseCut PROVE call.who = admin[x] /\ Holders(x)' \subseteq {call.who}
    <3>1. call.who = admin[x] /\ Holders(x) \subseteq {call.before, call.who}
      BY <1>1, <1>9, <2>1, <2>4 DEF LeaseHolds, Knows
    <3>2. ASSUME NEW u \in People, grant'[u] = x PROVE u = call.who
      <4>1. grant[u] = x /\ ~(u = call.before /\ u # call.who)
        BY <2>1, <2>2, <3>2 DEF IdsDiffer
      <4> QED
        BY <3>1, <3>2, <4>1 DEF Holders
    <3> QED
      BY <3>1, <3>2 DEF Holders
  <2>5. CASE call.who = "none"
    <3>1. next = Occupancy!NoCall /\ next \in LeaseCalls /\ next.op = "none"
      BY <1>1, <1>9, <2>5
    <3>2. call.alone /\ x \notin leaseCut' => Agreed(x)'
      BY <2>1, <2>2, <2>4 DEF Agreed
    <3> QED
      BY <1>1, <1>9, <2>1, <2>2, <2>3, <3>1, <3>2, LeaseMoves DEF LeaseTypes
  <2>6. CASE call.who # "none"
    <3>1. /\ next \in LeaseCalls /\ next.op = "grant" /\ next.x = x /\ next.alone = call.alone
          /\ next.who = call.who
      BY <2>1, <2>6 DEF LeaseCalls
    <3>2. call.alone => Knows(next)'
      BY <2>2, <2>4, <3>1 DEF Knows
    <3> QED
      BY <1>1, <1>9, <2>1, <2>2, <2>3, <3>1, <3>2, LeaseMoves DEF LeaseTypes
  <2> QED
    BY <2>5, <2>6
<1>10. ASSUME NEW h \in Hands, Occupancy!Grant(h) PROVE LeaseInv'
  <2> SUFFICES ASSUME NEW x, x = leaseCall[h].x, NEW call, call = leaseCall[h]
               PROVE  LeaseInv'
    OBVIOUS
  <2>1. /\ call.op = "grant" /\ x \in Companies /\ x \notin Spots /\ call \in LeaseCalls
    BY <1>1, <1>10, LeaseCallTypes DEF Occupancy!Grant
  <2>2. call.who \in People
    BY <2>1 DEF LeaseCalls
  <2>3. /\ leaseCall' = [leaseCall EXCEPT ![h] = Occupancy!NoCall]
        /\ grant' = [grant EXCEPT ![call.who] = x]
        /\ UNCHANGED <<allocations, leased, admin, leaseCut>>
    BY <1>10 DEF Occupancy!Grant, Occupancy!Leave
  <2>4. /\ grant' \in [People -> Companies \cup {"none"}]
        /\ \A u \in People : grant'[u] \in {grant[u], "none", x}
    BY <1>1, <1>10, <2>1, <2>2, <2>3 DEF LeaseTypes
  <2>5. ASSUME call.alone, x \notin leaseCut' PROVE Agreed(x)'
    <3>1. call.who = admin[x] /\ Holders(x) \subseteq {call.who}
      BY <1>1, <1>10, <2>1, <2>3, <2>5 DEF LeaseHolds, Knows
    <3>2. Holders(x)' \subseteq {call.who}
      BY <1>1, <1>10, <2>3, <3>1 DEF Holders, LeaseTypes
    <3> QED
      BY <2>1, <2>3, <3>1, <3>2 DEF Agreed
  <2> QED
    BY <1>1, <1>10, <2>1, <2>3, <2>4, <2>5, LeaseMoves DEF LeaseTypes
<1>11. ASSUME NEW h \in Hands, Occupancy!Throw(h) PROVE LeaseInv'
  <2> SUFFICES ASSUME NEW x, x = leaseCall[h].x PROVE LeaseInv'
    OBVIOUS
  <2>1. /\ leaseCall[h].op # "none"
        /\ leaseCut' = leaseCut \cup {x}
        /\ leaseCall' = [leaseCall EXCEPT ![h] = Occupancy!NoCall]
        /\ UNCHANGED <<allocations, leased, admin, grant>>
    BY <1>11 DEF Occupancy!Throw, Occupancy!Leave
  <2> QED
    BY <1>1, <1>11, <2>1, LeaseMoves DEF LeaseTypes
<1>12. CASE UNCHANGED Occupancy!leasingVars
  BY <1>12, LeaseStill DEF Occupancy!leasingVars, Let
<1>13. CASE Occupancy!LeasingNext
  BY <1>2, <1>3, <1>4, <1>5, <1>6, <1>7, <1>8, <1>9, <1>10, <1>11, <1>13
     DEF Occupancy!LeasingNext, Occupancy!AllocationNext, Occupancy!AdminNext
<1> QED
  BY <1>12, <1>13 DEF Occupancy!Next, Occupancy!vars

\* The invariant holds at first, every step keeps it, and it has what is to hold in it.
LEMMA LeaseInductive ==
    ASSUME IdsDiffer
    PROVE  /\ Occupancy!LeasingInit => LeaseInv
           /\ LeaseInv /\ [Occupancy!Next]_(Occupancy!vars) => LeaseInv'
           /\ LeaseInv => Occupancy!LeasesAgree
<1>1. Occupancy!LeasingInit => LeaseInv
  BY DEF Occupancy!Init, Occupancy!LeasingInit, Occupancy!NoCall, LeaseInv, LeaseTypes, LeaseCalls, LeaseHolds,
         Agreed, Let, Holders, IdsDiffer
<1>2. LeaseInv => Occupancy!LeasesAgree
  <2> SUFFICES ASSUME LeaseInv PROVE Occupancy!LeasesAgree
    OBVIOUS
  <2>1. Occupancy!FlagMatchesAllocations
    BY DEF LeaseInv, Agreed, Let, Occupancy!FlagMatchesAllocations
  <2>2. ASSUME NEW u \in People, grant[u] \notin leaseCut \cup {"none"}, ~Occupancy!AtWork(grant[u])
        PROVE  admin[grant[u]] = u
    <3>1. grant[u] \in Companies
      BY <2>2 DEF LeaseInv, LeaseTypes
    <3> QED
      BY <2>2, <3>1 DEF LeaseInv, Agreed, Holders
  <2> QED
    BY <2>1, <2>2 DEF Occupancy!LeasesAgree, Occupancy!GrantIsTheAdmins
<1> QED
  BY <1>1, <1>2, LeaseStep

\* leases.service.ts:118-138 and tenant-companies.service.ts:108-119: whatever allocations and
\* appointments overlap or are cut short, the isLeased flag of a spot says whether an allocation
\* points at it and a grant is that of the present administrator, unless a call is still at work
\* there, was cut short or overlapped another and nobody has written the flag alone since.
THEOREM LeasesCorrect ==
    ASSUME IdsDiffer
    PROVE  Occupancy!Spec => []Occupancy!LeasesAgree
BY LeaseInductive, PTL DEF Occupancy!Spec, Occupancy!Init
-----------------------------------------------------------------------------
(* Registers: how many versions are in force *)

VersionRows == [version : Nat, floor : Floors \cup {0}, active : BOOLEAN]
EditRows == [on : Register!Registered \cup {"none"}, prev : Nat, active : BOOLEAN, floor : Floors \cup {0}]

RegisterTypes ==
    /\ rows \in [Register!Registered -> Seq(VersionRows)]
    /\ editing \in [Editors -> EditRows]
    /\ stale \in [Register!Registered -> Nat]

Live(r) == Cardinality(Register!InForce(r))

\* One of the newest versions is out of force only when one fewer than may be is in force: the
\* edit that reads it has none to retire.
Bounded(r) ==
    /\ Live(r) <= 1 + stale[r]
    /\ (\E i \in Register!Newest(r) : ~rows[r][i].active) => Live(r) <= stale[r]

\* As long as every edit wrote a new version, the last row is the newest and only it is in force.
Ordered(r) ==
    \A i \in DOMAIN rows[r] :
        /\ rows[r][i].version >= 1
        /\ stale[r] = 0 /\ i < Len(rows[r]) =>
               rows[r][i].version < rows[r][Len(rows[r])].version /\ ~rows[r][i].active

\* What an edit read as out of force stays so.
EditHolds(e) ==
    LET edit == editing[e] IN
    edit.on \in Register!Registered =>
        /\ edit.prev \in 0 .. Len(rows[edit.on])
        /\ edit.prev = 0 => ~edit.active
        /\ edit.prev # 0 /\ ~edit.active => ~rows[edit.on][edit.prev].active

RegisterInv ==
    /\ RegisterTypes
    /\ \A r \in Register!Registered : Bounded(r) /\ Ordered(r)
    /\ \A r \in DpaKeys : stale[r] = 0
    /\ \A e \in Editors : EditHolds(e)

LEMMA CardinalityOfRegister == \A S : Register!Cardinality(S) = Cardinality(S)
  BY DEF Register!Cardinality, Cardinality

LEMMA FunctionIsSeq ==
    ASSUME NEW S, NEW n \in Nat, NEW f \in [1 .. n -> S]
    PROVE  f \in Seq(S) /\ Len(f) = n
OBVIOUS

LEMMA FinitelyMany ==
    ASSUME RegisterInv, NEW r \in Register!Registered
    PROVE  /\ Len(rows[r]) \in Nat /\ DOMAIN rows[r] = 1 .. Len(rows[r])
           /\ \A i \in 1 .. Len(rows[r]) : rows[r][i] \in VersionRows
           /\ IsFiniteSet(Register!InForce(r))
           /\ Live(r) \in Nat
<1>1. rows[r] \in Seq(VersionRows)
  BY DEF RegisterInv, RegisterTypes
<1>2. /\ Len(rows[r]) \in Nat /\ DOMAIN rows[r] = 1 .. Len(rows[r])
      /\ \A i \in 1 .. Len(rows[r]) : rows[r][i] \in VersionRows
  BY <1>1
<1>3. IsFiniteSet(1 .. Len(rows[r]))
  BY <1>2, FS_Interval
<1>4. IsFiniteSet(Register!InForce(r))
  BY <1>2, <1>3, FS_Subset DEF Register!InForce
<1> QED
  BY <1>2, <1>4, FS_CardinalityType DEF Live

\* The rows of a register after a version was written: the one the edit read is out of force.
Written(r, edit, x) == Append(Register!Retire(rows[r], edit), x)
LiveIn(s) == Cardinality({i \in DOMAIN s : s[i].active})

\* What a list is after version x took the place of prev in it: longer by x, and nothing else in
\* force changed.
Appended(next, r, n, prev, x) ==
    /\ next \in Seq(VersionRows) /\ Len(next) = n + 1 /\ DOMAIN next = 1 .. n + 1
    /\ \A i \in 1 .. n : /\ next[i].version = rows[r][i].version
                         /\ next[i].active <=> rows[r][i].active /\ i # prev
    /\ next[n + 1] = x
    /\ LiveIn(next) = Live(r) + (IF prev \in Register!InForce(r) THEN 0 ELSE 1)

LEMMA VersionAppended ==
    ASSUME RegisterInv, NEW e \in Editors, NEW r \in Register!Registered, editing[e].on = r,
           NEW n, n = Len(rows[r]), NEW x \in VersionRows, x.active
    PROVE  Appended(Written(r, editing[e], x), r, n, editing[e].prev, x)
<1>a. PICK old : old = rows[r]
  OBVIOUS
<1>b. PICK edit : edit = editing[e]
  OBVIOUS
<1>c. PICK next : next = Written(r, edit, x)
  OBVIOUS
<1>1. /\ n \in Nat /\ DOMAIN old = 1 .. n /\ old \in Seq(VersionRows)
      /\ \A i \in 1 .. n : old[i] \in VersionRows
  BY <1>a, FinitelyMany DEF RegisterInv, RegisterTypes
<1>2. edit \in EditRows /\ EditHolds(e) /\ edit.on = r
  BY <1>b DEF RegisterInv, RegisterTypes
<1> DEFINE retired == Register!Retire(old, edit)
<1>3. /\ retired \in [1 .. n -> VersionRows]
      /\ \A i \in 1 .. n : /\ retired[i].version = old[i].version
                           /\ retired[i].active <=> old[i].active /\ i # edit.prev
  <2>1. retired = [i \in 1 .. n |-> IF edit.active /\ i = edit.prev
                                    THEN [version |-> old[i].version, floor |-> old[i].floor, active |-> FALSE]
                                    ELSE old[i]]
    BY <1>1 DEF Register!Retire
  <2>2. ASSUME NEW i \in 1 .. n
        PROVE  /\ retired[i] \in VersionRows
               /\ retired[i].version = old[i].version
               /\ retired[i].active <=> old[i].active /\ i # edit.prev
    <3>1. CASE edit.active /\ i = edit.prev
      <4>1. retired[i] = [version |-> old[i].version, floor |-> old[i].floor, active |-> FALSE]
        BY <2>1, <3>1
      <4> QED
        BY <1>1, <3>1, <4>1 DEF VersionRows
    <3>2. CASE i # edit.prev
      BY <1>1, <2>1, <3>2
    <3>3. CASE ~edit.active /\ i = edit.prev
      <4>1. retired[i] = old[i]
        BY <2>1, <3>3
      <4>2. ~old[i].active
        BY <1>2, <1>a, <1>b, <3>3 DEF EditHolds
      <4> QED
        BY <1>1, <3>3, <4>1, <4>2
    <3> QED
      BY <3>1, <3>2, <3>3
  <2> HIDE DEF retired
  <2> QED
    BY <2>1, <2>2
<1> HIDE DEF retired
<1>4. retired \in Seq(VersionRows) /\ Len(retired) = n
  <2>1. n \in Nat /\ retired \in [1 .. n -> VersionRows]
    BY <1>1, <1>3
  <2> QED
    BY <2>1, FunctionIsSeq
<1>5. next = Append(retired, x)
  BY <1>a, <1>c DEF retired, Written
<1>6. /\ next \in Seq(VersionRows) /\ Len(next) = n + 1 /\ DOMAIN next = 1 .. n + 1
      /\ \A i \in 1 .. n : next[i] = retired[i]
      /\ next[n + 1] = x
  BY <1>1, <1>4, <1>5, AppendProperties
<1>7. {i \in DOMAIN next : next[i].active} = (Register!InForce(r) \ {edit.prev}) \cup {n + 1}
  <2>1. Register!InForce(r) = {i \in 1 .. n : old[i].active}
    BY <1>1, <1>a DEF Register!InForce
  <2> QED
    BY <1>1, <1>3, <1>6, <2>1
<1>8. LiveIn(next) = Live(r) + (IF edit.prev \in Register!InForce(r) THEN 0 ELSE 1)
  <2> DEFINE A == Register!InForce(r)
             B == A \ {edit.prev}
  <2>1. IsFiniteSet(A) /\ Cardinality(A) \in Nat
    BY FinitelyMany DEF Live
  <2>2. n + 1 \notin B
    BY <1>1, <1>a DEF Register!InForce
  <2> SUFFICES Cardinality(B \cup {n + 1}) = Cardinality(A) + (IF edit.prev \in A THEN 0 ELSE 1)
    BY <1>7 DEF Live, LiveIn
  <2> HIDE DEF A, B
  <2>3. IsFiniteSet(B) /\ Cardinality(B) = IF edit.prev \in A THEN Cardinality(A) - 1 ELSE Cardinality(A)
    BY <2>1, FS_RemoveElement DEF B
  <2>4. Cardinality(B \cup {n + 1}) = Cardinality(B) + 1
    BY <2>2, <2>3, FS_AddElement
  <2> QED
    BY <2>1, <2>3, <2>4
<1> QED
  BY <1>3, <1>6, <1>8, <1>a, <1>b, <1>c DEF Appended

\* A step that leaves a register and its edits alone
LEMMA RegisterKept ==
    ASSUME RegisterInv, NEW r \in Register!Registered, rows'[r] = rows[r], stale'[r] = stale[r]
    PROVE  Bounded(r)' /\ Ordered(r)'
BY DEF RegisterInv, Bounded, Ordered, Live, Register!InForce, Register!Newest

LEMMA WriteVersionStep ==
    ASSUME RegisterInv, NEW e \in Editors, Register!WriteVersion(e)
    PROVE  RegisterInv'
<1>a. PICK edit : edit = editing[e]
  OBVIOUS
<1>b. PICK r : r = edit.on
  OBVIOUS
<1>c. PICK n : n = Len(rows[r])
  OBVIOUS
<1>d. PICK version : version = IF edit.prev = 0 THEN 1 ELSE rows[r][edit.prev].version + 1
  OBVIOUS
<1>e. PICK x : x = [version |-> version, floor |-> edit.floor, active |-> TRUE]
  OBVIOUS
<1> DEFINE taken == \E i \in DOMAIN rows[r] : rows[r][i].version >= version
<1>1. /\ RegisterTypes /\ edit \in EditRows /\ EditHolds(e)
      /\ r \in Register!Registered
      /\ \/ r \in DpaKeys /\ taken /\ UNCHANGED <<rows, stale>>
         \/ /\ ~(r \in DpaKeys /\ taken)
            /\ rows' = [rows EXCEPT ![r] = Append(Register!Retire(rows[r], edit), x)]
            /\ stale' = IF taken THEN [stale EXCEPT ![r] = stale[r] + 1] ELSE stale
      /\ editing' = [editing EXCEPT ![e] = Register!NoEdit]
  <2>1. RegisterTypes /\ edit \in EditRows /\ EditHolds(e)
    BY <1>a DEF RegisterInv, RegisterTypes
  <2>2. r \in Register!Registered
    BY <1>a, <1>b, <2>1 DEF EditRows, Register!WriteVersion
  <2> QED
    BY <1>a, <1>b, <1>d, <1>e, <2>1, <2>2 DEF RegisterTypes, Register!WriteVersion
<1>2. /\ n \in Nat /\ DOMAIN rows[r] = 1 .. n
      /\ \A i \in 1 .. n : rows[r][i] \in VersionRows
      /\ Live(r) \in Nat
      /\ Bounded(r) /\ Ordered(r) /\ stale[r] \in Nat
  BY <1>1, <1>c, FinitelyMany DEF RegisterInv, RegisterTypes
<1>3. edit.prev \in 0 .. n
  BY <1>1, <1>a, <1>b, <1>c DEF EditHolds
<1>4. version \in Nat /\ version >= 1 /\ x \in VersionRows /\ x.active /\ x.version = version
  <2>1. edit.prev # 0 => rows[r][edit.prev].version \in Nat
    <3>1. edit.prev # 0 => edit.prev \in 1 .. n
      BY <1>2, <1>3
    <3> QED
      BY <1>2, <3>1 DEF VersionRows
  <2>2. version \in Nat /\ version >= 1
    BY <1>d, <2>1
  <2>3. edit.floor \in Floors \cup {0}
    BY <1>1 DEF EditRows
  <2> QED
    BY <1>e, <2>2, <2>3 DEF VersionRows
<1>5. /\ editing' \in [Editors -> EditRows]
      /\ EditHolds(e)'
      /\ \A f \in Editors \ {e} : editing'[f] = editing[f]
  <2>1. Register!NoEdit \in EditRows
    BY DEF Register!NoEdit, EditRows
  <2>2. /\ editing' \in [Editors -> EditRows] /\ editing'[e] = Register!NoEdit
        /\ \A f \in Editors \ {e} : editing'[f] = editing[f]
    BY <1>1, <2>1 DEF RegisterTypes
  <2>3. rows'[editing'[e].on] \in Seq(VersionRows) => Len(rows'[editing'[e].on]) \in Nat
    OBVIOUS
  <2> QED
    BY <2>2 DEF EditHolds, Register!NoEdit
<1>6. CASE UNCHANGED <<rows, stale>>
  <2>1. \A q \in Register!Registered : Bounded(q)' /\ Ordered(q)'
    BY <1>6, RegisterKept
  <2>2. \A f \in Editors \ {e} : EditHolds(f)'
    BY <1>5, <1>6 DEF RegisterInv, EditHolds
  <2> QED
    BY <1>1, <1>5, <1>6, <2>1, <2>2 DEF RegisterInv, RegisterTypes
<1>7. ASSUME ~(r \in DpaKeys /\ taken),
             rows' = [rows EXCEPT ![r] = Append(Register!Retire(rows[r], edit), x)],
             stale' = IF taken THEN [stale EXCEPT ![r] = stale[r] + 1] ELSE stale
      PROVE  RegisterInv'
  <2>a. PICK next : next = Written(r, edit, x)
    OBVIOUS
  <2> HIDE DEF taken
  <2>1. /\ rows' \in [Register!Registered -> Seq(VersionRows)]
        /\ rows'[r] = next /\ \A q \in Register!Registered \ {r} : rows'[q] = rows[q]
        /\ Len(next) = n + 1 /\ DOMAIN next = 1 .. n + 1
        /\ \A i \in 1 .. n : /\ next[i].version = rows[r][i].version
                             /\ next[i].active <=> rows[r][i].active /\ i # edit.prev
        /\ next[n + 1] = x
        /\ Live(r)' = Live(r) + (IF edit.prev \in Register!InForce(r) THEN 0 ELSE 1)
    <3>1. editing[e].on = r /\ edit = editing[e] /\ n = Len(rows[r]) /\ r \in Register!Registered
      BY <1>1, <1>a, <1>b, <1>c
    <3>2. x \in VersionRows /\ x.active
      BY <1>4
    <3>3. /\ next \in Seq(VersionRows) /\ Len(next) = n + 1 /\ DOMAIN next = 1 .. n + 1
          /\ \A i \in 1 .. n : /\ next[i].version = rows[r][i].version
                               /\ next[i].active <=> rows[r][i].active /\ i # edit.prev
          /\ next[n + 1] = x
          /\ LiveIn(next) = Live(r) + (IF edit.prev \in Register!InForce(r) THEN 0 ELSE 1)
      <4> DEFINE w == Written(r, editing[e], x)
      <4>1. editing[e].on = r /\ n = Len(rows[r]) /\ r \in Register!Registered
        BY <3>1
      <4>2. Appended(w, r, n, editing[e].prev, x)
        BY <3>2, <4>1, VersionAppended
      <4>3. w = next
        BY <2>a, <3>1
      <4> HIDE DEF w
      <4> QED
        BY <3>1, <4>2, <4>3 DEF Appended
    <3>4. rows' = [rows EXCEPT ![r] = next]
      BY <1>7, <2>a DEF Written
    <3>5. /\ rows' \in [Register!Registered -> Seq(VersionRows)]
          /\ rows'[r] = next /\ \A q \in Register!Registered \ {r} : rows'[q] = rows[q]
      BY <1>1, <3>3, <3>4 DEF RegisterTypes
    <3>6. Live(r)' = LiveIn(next)
      BY <3>5 DEF Live, LiveIn, Register!InForce
    <3> QED
      BY <3>3, <3>5, <3>6
  <2>2. /\ stale' \in [Register!Registered -> Nat]
        /\ stale'[r] = IF taken THEN stale[r] + 1 ELSE stale[r]
        /\ \A q \in Register!Registered \ {r} : stale'[q] = stale[q]
    BY <1>1, <1>2, <1>7 DEF RegisterTypes
  <2>3. edit.prev \in Register!InForce(r) <=> edit.prev # 0 /\ rows[r][edit.prev].active
    BY <1>2, <1>3 DEF Register!InForce
  <2>4. ~taken /\ edit.prev = 0 => n = 0 /\ Live(r) = 0
    <3>1. ASSUME ~taken, edit.prev = 0, n # 0 PROVE FALSE
      <4>1. 1 \in 1 .. n /\ rows[r][1].version >= 1 /\ version = 1
        BY <1>2, <1>d, <3>1 DEF Ordered
      <4> QED
        BY <1>2, <3>1, <4>1 DEF taken
    <3>2. n = 0 => Register!InForce(r) = {}
      BY <1>2 DEF Register!InForce
    <3> QED
      BY <3>1, <3>2, FS_EmptySet DEF Live
  <2>5. ~taken /\ edit.prev # 0 => edit.prev \in Register!Newest(r)
    <3>1. ASSUME ~taken, edit.prev # 0, NEW i \in 1 .. n PROVE rows[r][i].version <= rows[r][edit.prev].version
      <4>1. rows[r][i].version \in Nat /\ rows[r][edit.prev].version \in Nat
        BY <1>2, <1>3, <3>1 DEF VersionRows
      <4>2. ~(rows[r][i].version >= rows[r][edit.prev].version + 1)
        BY <1>2, <1>d, <3>1 DEF taken
      <4> QED
        BY <4>1, <4>2
    <3> QED
      BY <1>2, <1>3, <3>1 DEF Register!Newest
  <2>6. ~taken => Live(r)' <= 1 + stale[r]
    <3>1. CASE edit.prev = 0
      BY <1>2, <2>1, <2>3, <2>4, <3>1
    <3>2. CASE edit.prev # 0
      BY <1>2, <2>1, <2>3, <2>5, <3>2 DEF Bounded
    <3> QED
      BY <3>1, <3>2
  <2>7. Live(r)' \in Nat /\ Live(r)' <= Live(r) + 1
    BY <1>2, <2>1
  <2>8. Live(r)' <= 1 + stale'[r]
    BY <1>2, <2>2, <2>6, <2>7 DEF Bounded
  <2>9. ASSUME NEW i \in Register!Newest(r)', ~rows'[r][i].active PROVE Live(r)' <= stale'[r]
    <3>1. i \in 1 .. n /\ \A j \in 1 .. n + 1 : next[j].version <= next[i].version
      BY <1>2, <1>4, <2>1, <2>9 DEF Register!Newest
    <3>2. taken
      <4>1. n + 1 \in 1 .. n + 1 /\ next[n + 1].version = version /\ next[i].version = rows[r][i].version
        BY <1>2, <1>4, <2>1, <3>1
      <4>2. rows[r][i].version \in Nat
        BY <1>2, <3>1 DEF VersionRows
      <4>3. rows[r][i].version >= version
        BY <1>4, <3>1, <4>1, <4>2
      <4> QED
        BY <1>2, <3>1, <4>3 DEF taken
    <3>3. i \in Register!Newest(r)
      BY <1>2, <2>1, <3>1 DEF Register!Newest
    <3>4. CASE rows[r][i].active
      <4>1. i = edit.prev
        BY <2>1, <2>9, <3>1, <3>4
      <4> QED
        BY <1>2, <2>1, <2>2, <2>3, <3>1, <3>2, <3>4, <4>1 DEF Bounded
    <3>5. CASE ~rows[r][i].active
      BY <1>2, <2>2, <2>7, <3>2, <3>3, <3>5 DEF Bounded
    <3> QED
      BY <3>4, <3>5
  <2>10. Bounded(r)'
    BY <2>8, <2>9 DEF Bounded
  <2>11. ASSUME NEW i \in 1 .. n + 1
         PROVE  /\ next[i].version >= 1
                /\ stale'[r] = 0 /\ i < n + 1 => next[i].version < next[n + 1].version /\ ~next[i].active
    <3>1. CASE i = n + 1
      BY <1>2, <1>4, <2>1, <3>1
    <3>2. CASE i \in 1 .. n
      <4>1. next[i].version >= 1 /\ rows[r][i].version \in Nat
        BY <1>2, <2>1, <3>2 DEF Ordered, VersionRows
      <4>2. ASSUME stale'[r] = 0 PROVE next[i].version < version /\ ~next[i].active
        <5>1. ~taken /\ stale[r] = 0
          BY <1>2, <2>2, <4>2
        <5>2. next[i].version < version
          <6>1. ~(rows[r][i].version >= version) /\ next[i].version = rows[r][i].version
            BY <1>2, <2>1, <3>2, <5>1 DEF taken
          <6>2. version \in Nat
            BY <1>4
          <6> QED
            BY <4>1, <6>1, <6>2
        <5>3. edit.prev # 0 /\ edit.prev \in Register!Newest(r)
          BY <1>2, <2>4, <2>5, <3>2, <5>1
        <5>4. edit.prev = n
          <6>1. rows[r][n].version <= rows[r][edit.prev].version
            BY <1>2, <3>2, <5>3 DEF Register!Newest
          <6>2. edit.prev < n => rows[r][edit.prev].version < rows[r][n].version
            BY <1>2, <1>3, <5>1, <5>3 DEF Ordered
          <6>3. rows[r][n].version \in Nat /\ rows[r][edit.prev].version \in Nat
            BY <1>2, <1>3, <3>2, <5>3 DEF VersionRows
          <6> QED
            BY <1>2, <1>3, <6>1, <6>2, <6>3
        <5>5. ~next[i].active
          <6>1. next[i].active => rows[r][i].active /\ i # edit.prev
            BY <2>1, <3>2
          <6>2. i # n => i < n
            BY <1>2, <3>2
          <6>3. i < n => ~rows[r][i].active
            BY <1>2, <3>2, <5>1 DEF Ordered
          <6> QED
            BY <5>4, <6>1, <6>2, <6>3
        <5> QED
          BY <5>2, <5>5
      <4> QED
        BY <1>4, <2>1, <4>1, <4>2
    <3> QED
      BY <1>2, <3>1, <3>2
  <2>12. Ordered(r)'
    BY <2>1, <2>11 DEF Ordered
  <2>13. \A q \in Register!Registered : Bounded(q)' /\ Ordered(q)'
    BY <2>1, <2>2, <2>10, <2>12, RegisterKept
  <2>14. \A q \in DpaKeys : stale'[q] = 0
    <3>1. ASSUME NEW q \in DpaKeys PROVE stale'[q] = 0
      <4>1. q \in Register!Registered /\ stale[q] = 0
        BY DEF RegisterInv, Register!Registered
      <4> QED
        BY <1>7, <2>2, <4>1
    <3> QED
      BY <3>1
  <2>15. ASSUME NEW f \in Editors \ {e} PROVE EditHolds(f)'
    <3>1. EditHolds(f) /\ editing[f] \in EditRows /\ editing'[f] = editing[f]
      BY <1>5, <2>15 DEF RegisterInv, RegisterTypes
    <3>2. CASE editing[f].on = r
      <4>1. editing[f].prev \in 0 .. n
        BY <1>1, <1>c, <3>1, <3>2 DEF EditHolds
      <4>2. editing[f].prev # 0 => editing[f].prev \in 1 .. n
        BY <1>2, <4>1
      <4> QED
        BY <1>1, <1>2, <2>1, <3>1, <3>2, <4>1, <4>2 DEF EditHolds
    <3>3. CASE editing[f].on # r
      BY <2>1, <3>1, <3>3 DEF EditHolds
    <3> QED
      BY <3>2, <3>3
  <2> QED
    BY <1>5, <2>1, <2>2, <2>13, <2>14, <2>15 DEF RegisterInv, RegisterTypes
<1> QED
  BY <1>1, <1>6, <1>7

LEMMA ReadNewestStep ==
    ASSUME RegisterInv, NEW e \in Editors, NEW r \in Register!Registered, NEW floor \in Floors \cup {0},
           Register!ReadNewest(e, r, floor)
    PROVE  RegisterInv'
<1>1. RegisterTypes /\ Len(rows[r]) \in Nat /\ DOMAIN rows[r] = 1 .. Len(rows[r])
      /\ \A i \in 1 .. Len(rows[r]) : rows[r][i] \in VersionRows
  BY FinitelyMany DEF RegisterInv
<1>2. PICK i \in 0 .. Len(rows[r]), b \in BOOLEAN :
          /\ editing' = [editing EXCEPT ![e] = [on |-> r, prev |-> i, active |-> b, floor |-> floor]]
          /\ i = 0 => ~b
          /\ i # 0 => b = rows[r][i].active
  <2>1. CASE editing' = [editing EXCEPT ![e] = [on |-> r, prev |-> 0, active |-> FALSE, floor |-> floor]]
    <3>1. 0 \in 0 .. Len(rows[r])
      BY <1>1
    <3> QED
      BY <2>1, <3>1
  <2>2. ASSUME NEW i \in Register!Newest(r),
               editing' = [editing EXCEPT ![e] = [on |-> r, prev |-> i, active |-> rows[r][i].active, floor |-> floor]]
        PROVE  \E j \in 0 .. Len(rows[r]), b \in BOOLEAN :
                   /\ editing' = [editing EXCEPT ![e] = [on |-> r, prev |-> j, active |-> b, floor |-> floor]]
                   /\ j = 0 => ~b
                   /\ j # 0 => b = rows[r][j].active
    <3>1. i \in 1 .. Len(rows[r]) /\ rows[r][i].active \in BOOLEAN
      BY <1>1, <2>2 DEF Register!Newest, VersionRows
    <3>2. i \in 0 .. Len(rows[r]) /\ i # 0
      BY <1>1, <3>1
    <3> QED
      BY <2>2, <3>1, <3>2
  <2> QED
    BY <2>1, <2>2 DEF Register!ReadNewest
<1> SUFFICES ASSUME NEW next, next = [on |-> r, prev |-> i, active |-> b, floor |-> floor] PROVE RegisterInv'
  OBVIOUS
<1>3. next \in EditRows
  BY <1>1 DEF EditRows
<1>4. /\ editing' \in [Editors -> EditRows]
      /\ editing'[e] = next /\ \A f \in Editors \ {e} : editing'[f] = editing[f]
      /\ UNCHANGED <<rows, stale>>
  BY <1>1, <1>2, <1>3 DEF RegisterTypes, Register!ReadNewest
<1>5. EditHolds(e)'
  BY <1>1, <1>2, <1>4 DEF EditHolds
<1>6. \A f \in Editors \ {e} : EditHolds(f)'
  BY <1>4 DEF RegisterInv, EditHolds
<1>7. \A q \in Register!Registered : Bounded(q)' /\ Ordered(q)'
  BY <1>4, RegisterKept
<1> QED
  BY <1>1, <1>4, <1>5, <1>6, <1>7 DEF RegisterInv, RegisterTypes

LEMMA DeactivateStep ==
    ASSUME RegisterInv, NEW r \in PolicyNames, NEW i \in DOMAIN rows[r], Register!Deactivate(r, i)
    PROVE  RegisterInv'
<1>a. PICK n : n = Len(rows[r])
  OBVIOUS
<1>b. PICK next : next = [rows[r] EXCEPT ![i].active = FALSE]
  OBVIOUS
<1>1. r \in Register!Registered
  BY DEF Register!Registered
<1>2. /\ RegisterTypes /\ n \in Nat /\ DOMAIN rows[r] = 1 .. n /\ rows[r] \in Seq(VersionRows)
      /\ \A j \in 1 .. n : rows[r][j] \in VersionRows
      /\ IsFiniteSet(Register!InForce(r)) /\ Live(r) \in Nat
      /\ Bounded(r) /\ Ordered(r) /\ stale[r] \in Nat
  BY <1>1, <1>a, FinitelyMany DEF RegisterInv, RegisterTypes
<1>3. /\ rows[r][i].active /\ rows' = [rows EXCEPT ![r] = next] /\ UNCHANGED <<editing, stale>>
  BY <1>1, <1>2, <1>b DEF Register!Deactivate, RegisterTypes
<1>4. /\ [rows[r][i] EXCEPT !.active = FALSE] \in VersionRows
      /\ next = [rows[r] EXCEPT ![i] = [rows[r][i] EXCEPT !.active = FALSE]]
  BY <1>2, <1>b DEF VersionRows
<1>5. /\ next \in Seq(VersionRows) /\ Len(next) = n /\ DOMAIN next = 1 .. n
      /\ \A j \in 1 .. n : /\ next[j].version = rows[r][j].version
                           /\ next[j].active <=> rows[r][j].active /\ j # i
  BY <1>2, <1>4, <1>a DEF VersionRows
<1>6. /\ rows' \in [Register!Registered -> Seq(VersionRows)]
      /\ rows'[r] = next /\ \A q \in Register!Registered \ {r} : rows'[q] = rows[q]
  BY <1>1, <1>2, <1>3, <1>5 DEF RegisterTypes
<1>7. Live(r)' = Live(r) - 1
  <2>1. Register!InForce(r) = {j \in 1 .. n : rows[r][j].active}
    BY <1>2 DEF Register!InForce
  <2>2. Register!InForce(r)' = {j \in 1 .. n : next[j].active}
    BY <1>5, <1>6 DEF Register!InForce
  <2>3. Register!InForce(r)' = Register!InForce(r) \ {i} /\ i \in Register!InForce(r)
    BY <1>2, <1>3, <1>5, <2>1, <2>2
  <2> QED
    BY <1>2, <2>3, FS_RemoveElement DEF Live
<1>8. Bounded(r)'
  BY <1>2, <1>3, <1>7 DEF Bounded
<1>9. Ordered(r)'
  BY <1>2, <1>3, <1>5, <1>6, <1>a DEF Ordered
<1>10. \A q \in Register!Registered : Bounded(q)' /\ Ordered(q)'
  BY <1>3, <1>6, <1>8, <1>9, RegisterKept
<1>11. ASSUME NEW f \in Editors PROVE EditHolds(f)'
  <2>1. EditHolds(f) /\ editing[f] \in EditRows /\ editing'[f] = editing[f]
    BY <1>2, <1>3, <1>11 DEF RegisterInv, RegisterTypes
  <2>2. CASE editing[f].on = r
    <3>1. editing[f].prev \in 0 .. n
      BY <1>1, <1>a, <2>1, <2>2 DEF EditHolds
    <3>2. editing[f].prev # 0 => editing[f].prev \in 1 .. n
      BY <1>2, <3>1
    <3> QED
      BY <1>1, <1>2, <1>5, <1>6, <2>1, <2>2, <3>1, <3>2 DEF EditHolds
  <2>3. CASE editing[f].on # r
    BY <1>6, <2>1, <2>3 DEF EditHolds
  <2> QED
    BY <2>2, <2>3
<1> QED
  BY <1>2, <1>3, <1>6, <1>10, <1>11 DEF RegisterInv, RegisterTypes

\* The invariant holds at first, every step keeps it, and it has what is to hold in it.
LEMMA RegisterInductive ==
    /\ Register!Init => RegisterInv
    /\ RegisterInv /\ [Register!Next]_(Register!vars) => RegisterInv'
    /\ RegisterInv => Register!OneInForce
<1>1. ASSUME Register!Init PROVE RegisterInv
  <2>1. /\ rows = [r \in Register!Registered |-> <<>>]
        /\ editing = [e \in Editors |-> Register!NoEdit]
        /\ stale = [r \in Register!Registered |-> 0]
    BY <1>1 DEF Register!Init
  <2>2. RegisterTypes
    BY <2>1 DEF RegisterTypes, Register!NoEdit, EditRows
  <2>3. ASSUME NEW r \in Register!Registered PROVE Bounded(r) /\ Ordered(r)
    <3>1. DOMAIN rows[r] = {}
      BY <2>1
    <3>2. Register!InForce(r) = {} /\ Register!Newest(r) = {} /\ stale[r] = 0
      BY <2>1, <3>1 DEF Register!InForce, Register!Newest
    <3> QED
      BY <3>1, <3>2, FS_EmptySet DEF Bounded, Ordered, Live
  <2>4. \A e \in Editors : EditHolds(e)
    BY <2>1 DEF EditHolds, Register!NoEdit
  <2>5. \A r \in DpaKeys : stale[r] = 0
    BY <2>1 DEF Register!Registered
  <2> QED
    BY <2>2, <2>3, <2>4, <2>5 DEF RegisterInv
<1>2. ASSUME RegisterInv, [Register!Next]_Register!vars PROVE RegisterInv'
  <2>1. ASSUME NEW e \in Editors, NEW r \in PolicyNames, NEW floor \in Floors, Register!ReadNewest(e, r, floor)
        PROVE  RegisterInv'
    BY <1>2, <2>1, ReadNewestStep DEF Register!Registered
  <2>2. ASSUME NEW e \in Editors, NEW r \in DpaKeys, Register!ReadNewest(e, r, 0) PROVE RegisterInv'
    BY <1>2, <2>2, ReadNewestStep DEF Register!Registered
  <2>3. CASE UNCHANGED Register!vars
    <3>1. UNCHANGED <<rows, editing, stale>>
      BY <2>3 DEF Register!vars
    <3>2. \A r \in Register!Registered : Bounded(r)' /\ Ordered(r)'
      BY <1>2, <3>1, RegisterKept
    <3>3. \A e \in Editors : EditHolds(e)'
      BY <1>2, <3>1 DEF RegisterInv, EditHolds
    <3> QED
      BY <1>2, <3>1, <3>2, <3>3 DEF RegisterInv, RegisterTypes
  <2> QED
    BY <1>2, <2>1, <2>2, <2>3, WriteVersionStep, DeactivateStep DEF Register!Next
<1>3. ASSUME RegisterInv PROVE Register!OneInForce
  <2>1. ASSUME NEW r \in Register!Registered
        PROVE  /\ Cardinality(Register!InForce(r)) <= 1 + stale[r]
               /\ stale[r] = 0 => Register!InForce(r) \subseteq {Len(rows[r])}
    <3>1. Len(rows[r]) \in Nat /\ DOMAIN rows[r] = 1 .. Len(rows[r])
      BY <1>3, FinitelyMany
    <3>2. Bounded(r) /\ Ordered(r)
      BY <1>3 DEF RegisterInv
    <3>3. ASSUME stale[r] = 0, NEW i \in Register!InForce(r) PROVE i = Len(rows[r])
      <4>1. i \in 1 .. Len(rows[r]) /\ rows[r][i].active
        BY <3>1, <3>3 DEF Register!InForce
      <4>2. ~(i < Len(rows[r]))
        BY <3>1, <3>2, <3>3, <4>1 DEF Ordered
      <4> QED
        BY <3>1, <4>1, <4>2
    <3> QED
      BY <3>2, <3>3 DEF Bounded, Live
  <2>2. \A r, amount : Register!Resolved(r, amount) \subseteq Register!InForce(r)
    BY DEF Register!Resolved
  <2>3. ASSUME NEW r \in DpaKeys PROVE r \in Register!Registered /\ stale[r] = 0
    BY <1>3 DEF RegisterInv, Register!Registered
  <2>4. ASSUME NEW r \in DpaKeys PROVE Cardinality(Register!InForce(r)) <= 1
    BY <2>1, <2>3
  <2>5. PolicyNames \subseteq Register!Registered
    BY DEF Register!Registered
  <2> QED
    BY <2>1, <2>2, <2>4, <2>5, CardinalityOfRegister DEF Register!OneInForce
<1> QED
  BY <1>1, <1>2, <1>3

\* approval-policies.service.ts:67-100 and privacy.service.ts:358-381: for any number of edits that
\* overlap, a register has one version in force and one more at most for every edit that wrote a
\* version already written; with no such edit the policy resolved is the last one written, and a
\* template never has two versions in force.
THEOREM VersionsCorrect == Register!Spec => []Register!OneInForce
BY RegisterInductive, PTL DEF Register!Spec
-----------------------------------------------------------------------------
(* Documents: the templates *)

FormTypes ==
    /\ form \in [Forms -> FormKeys \cup {"none"}]
    /\ programme \subseteq Forms
    /\ sitting \in [Sittings -> [op : {"idle", "create", "delete"}, on : Forms \cup FormKeys \cup {"none"}]]

\* A deletion in progress is of a template that no programme counts on, so that it can go.
FormInv ==
    /\ FormTypes
    /\ Archive!TemplatesAreThere
    /\ \A s \in Sittings : sitting[s].op = "create" => sitting[s].on \in FormKeys
    /\ \A s \in Sittings : sitting[s].op = "delete" => sitting[s].on \notin programme \ dangling

\* The invariant holds at first, every step keeps it, and it has what is to hold in it.
LEMMA FormInductive ==
    /\ Archive!FormInit => FormInv
    /\ FormInv /\ [Archive!Next]_(Archive!vars) => FormInv'
    /\ FormInv => Archive!TemplatesAreThere
<1>1. Archive!FormInit => FormInv
  BY DEF Archive!Init, Archive!FormInit, Archive!Seated, Archive!Rows, FormInv, FormTypes,
         Archive!TemplatesAreThere
<1>2. ASSUME FormInv, [Archive!Next]_Archive!vars PROVE FormInv'
  <2> USE <1>2
  <2>1. ASSUME NEW s \in Sittings, NEW k \in FormKeys, Archive!ReadToCreate(s, k) PROVE FormInv'
    BY <2>1 DEF FormInv, FormTypes, Archive!TemplatesAreThere, Archive!ReadToCreate, Archive!Sit,
                Archive!Rows
  <2>2. ASSUME NEW s \in Sittings, NEW f \in Forms, Archive!ReadToDeleteForm(s, f) PROVE FormInv'
    BY <2>2 DEF FormInv, FormTypes, Archive!TemplatesAreThere, Archive!ReadToDeleteForm, Archive!Sit,
                Archive!Rows
  <2>3. ASSUME NEW s \in Sittings, Archive!Create(s) PROVE FormInv'
    <3>1. /\ sitting' \in [Sittings -> [op : {"idle", "create", "delete"}, on : Forms \cup FormKeys \cup {"none"}]]
          /\ \A t \in Sittings : sitting'[t].op # "idle" => sitting'[t] = sitting[t]
          /\ UNCHANGED <<programme, dangling>>
      BY <2>3 DEF FormInv, FormTypes, Archive!Create, Archive!Sit
    <3>2. CASE Archive!Taken(sitting[s].on)
      BY <2>3, <3>1, <3>2 DEF FormInv, FormTypes, Archive!Create, Archive!TemplatesAreThere, Archive!Rows
    <3>3. CASE ~Archive!Taken(sitting[s].on)
      <4>1. PICK f \in Forms \ (Archive!Rows \cup programme \cup waypoint) :
                form' = [form EXCEPT ![f] = sitting[s].on]
        BY <2>3, <3>3 DEF Archive!Create
      <4>2. sitting[s].on \in FormKeys /\ form \in [Forms -> FormKeys \cup {"none"}]
        BY <2>3 DEF FormInv, FormTypes, Archive!Create
      <4>3. FormTypes'
        BY <3>1, <4>1, <4>2 DEF FormInv, FormTypes
      <4>4. \A t \in Sittings : /\ sitting'[t].op = "delete" => sitting'[t].on \notin programme' \ dangling'
                                /\ sitting'[t].op = "create" => sitting'[t].on \in FormKeys
        BY <3>1 DEF FormInv
      <4>5. Archive!Rows' = Archive!Rows \cup (IF sitting[s].on = "none" THEN {} ELSE {f})
        BY <4>1, <4>2 DEF Archive!Rows
      <4>6. ASSUME NEW a \in Archive!Rows', NEW b \in Archive!Rows', form'[a] = form'[b] PROVE a = b
        BY <3>3, <4>1, <4>2, <4>5, <4>6 DEF FormInv, Archive!TemplatesAreThere, Archive!Taken, Archive!Rows
      <4>7. programme' \ dangling' \subseteq Archive!Rows'
        BY <3>1, <4>5 DEF FormInv, Archive!TemplatesAreThere
      <4> QED
        BY <4>3, <4>4, <4>6, <4>7 DEF FormInv, Archive!TemplatesAreThere
    <3> QED
      BY <3>2, <3>3
  <2>4. ASSUME NEW s \in Sittings, Archive!Delete(s) PROVE FormInv'
    BY <2>4 DEF FormInv, FormTypes, Archive!TemplatesAreThere, Archive!Delete, Archive!Sit, Archive!Rows
  <2>5. ASSUME NEW f \in Forms, Archive!ApplyProgramme(f) PROVE FormInv'
    BY <2>5 DEF FormInv, FormTypes, Archive!TemplatesAreThere, Archive!ApplyProgramme, Archive!Rows
  <2>6. ASSUME NEW f \in Forms, Archive!AddWaypoint(f) PROVE FormInv'
    BY <2>6 DEF FormInv, FormTypes, Archive!TemplatesAreThere, Archive!AddWaypoint, Archive!Rows
  <2>7. ASSUME NEW f \in Forms, Archive!DropProgramme(f) PROVE FormInv'
    BY <2>7 DEF FormInv, FormTypes, Archive!TemplatesAreThere, Archive!DropProgramme, Archive!Rows
  <2>8. CASE UNCHANGED Archive!formVars
    BY <2>8 DEF FormInv, FormTypes, Archive!TemplatesAreThere, Archive!Rows, Archive!formVars
  <2> QED
    BY <2>1, <2>2, <2>3, <2>4, <2>5, <2>6, <2>7, <2>8 DEF Archive!Next, Archive!FormNext, Archive!vars
<1>3. FormInv => Archive!TemplatesAreThere
  BY DEF FormInv
<1> QED
  BY <1>1, <1>2, <1>3

\* document-templates.service.ts:75-171: for any number of calls, a template that a programme refers
\* to is there, unless it was not when the programme took it or its deletion had begun, and two
\* templates never have one key.
THEOREM TemplatesCorrect == Archive!Spec => []Archive!TemplatesAreThere
BY FormInductive, PTL DEF Archive!Spec, Archive!Init
-----------------------------------------------------------------------------
(* Occupiers: which companies are listed *)

HandRows == [on : Occupiers \cup {"none"}, kind : {"none", "create", "patch", "settings"},
             type : {"lessee", "vendor", "padded", "untyped", "none"}, given : SUBSET Fields]

\* A company is entered where there is none, by one call alone, and edited where there is one.
OccupierInv ==
    /\ company \in [Occupiers -> {"lessee", "vendor", "padded", "untyped", "none"}]
    /\ hand \in [Hands -> HandRows]
    /\ settings \in [Occupiers -> [there : BOOLEAN, given : SUBSET Fields]]
    /\ \A o \in Occupiers : o \in recast <=> company[o] \in {"vendor", "untyped"}
    /\ \A o \in Occupiers : settings[o].there \/ settings[o].given # {} => company[o] # "none"
    /\ \A h \in Hands :
           /\ hand[h].kind # "none" => hand[h].on \in Occupiers
           /\ hand[h].kind = "create" =>
                  /\ company[hand[h].on] = "none" /\ hand[h].type \in {"lessee", "padded", "untyped"}
                  /\ \A g \in Hands \ {h} : hand[g].on # hand[h].on
           /\ hand[h].kind \in {"patch", "settings"} => company[hand[h].on] # "none"
           /\ hand[h].kind = "patch" => hand[h].type # "none"

\* The invariant holds at first, every step keeps it, and it has what is to hold in it.
LEMMA OccupierInductive ==
    ASSUME "none" \notin Occupiers
    PROVE  /\ Occupancy!OccupierInit => OccupierInv
           /\ OccupierInv /\ [Occupancy!Next]_(Occupancy!vars) => OccupierInv'
           /\ OccupierInv => Occupancy!OccupiersAreListed
<1>1. Occupancy!OccupierInit => OccupierInv
  BY DEF Occupancy!Init, Occupancy!OccupierInit, Occupancy!Free, OccupierInv, HandRows
<1>2. ASSUME OccupierInv, [Occupancy!Next]_Occupancy!vars PROVE OccupierInv'
  <2> USE <1>2
  <2>1. ASSUME NEW h \in Hands, NEW u \in Managers, NEW o \in Occupiers, NEW type \in Occupancy!Types,
               Occupancy!CheckCreate(h, u, o, type)
        PROVE  OccupierInv'
    <3>1. /\ hand' = [hand EXCEPT ![h] = [on |-> o, kind |-> "create", type |-> type, given |-> {}]]
          /\ UNCHANGED <<company, settings, recast>> /\ company[o] = "none"
          /\ type \in {"lessee", "padded", "untyped"} /\ \A g \in Hands : hand[g].on # o
      BY <2>1 DEF Occupancy!CheckCreate, Occupancy!Types, Occupancy!Enterable
    <3>2. /\ hand' \in [Hands -> HandRows] /\ hand'[h].on = o /\ hand'[h].kind = "create" /\ hand'[h].type = type
          /\ \A g \in Hands \ {h} : hand'[g] = hand[g]
      BY <3>1 DEF OccupierInv, HandRows
    <3> QED
      BY <3>1, <3>2 DEF OccupierInv
  <2>2. ASSUME NEW h \in Hands, NEW u \in Managers, NEW o \in Occupiers, NEW edit \in {"patch", "settings"},
               NEW type \in Occupancy!Types \cup {"none"}, NEW named \in SUBSET Fields,
               edit = "patch" => type # "none", Occupancy!CheckEdit(h, u, o, edit, type, named)
        PROVE  OccupierInv'
    <3>1. /\ hand' = [hand EXCEPT ![h] = [on |-> o, kind |-> edit, type |-> type, given |-> named]]
          /\ UNCHANGED <<company, settings, recast>> /\ company[o] # "none"
      BY <2>2 DEF Occupancy!CheckEdit
    <3>2. /\ hand' \in [Hands -> HandRows] /\ hand'[h].on = o /\ hand'[h].kind = edit /\ hand'[h].type = type
          /\ \A g \in Hands \ {h} : hand'[g] = hand[g]
      BY <2>2, <3>1 DEF OccupierInv, HandRows, Occupancy!Types
    <3> QED
      BY <2>2, <3>1, <3>2 DEF OccupierInv
  <2>3. ASSUME NEW h \in Hands, Occupancy!CreateTenant(h) PROVE OccupierInv'
    <3>a. PICK o \in Occupiers, type \in {"lessee", "padded", "untyped"} : o = hand[h].on /\ type = hand[h].type
      BY <2>3 DEF OccupierInv, Occupancy!CreateTenant
    <3>1. /\ company' = [company EXCEPT ![o] = Occupancy!Trimmed(type)]
          /\ recast' = IF type \in {"padded", "untyped"} THEN recast \cup {o} ELSE recast
          /\ hand' = [hand EXCEPT ![h] = Occupancy!Free] /\ settings' = settings /\ hand[h].kind = "create"
      BY <2>3, <3>a DEF Occupancy!CreateTenant
    <3>2. /\ hand' \in [Hands -> HandRows] /\ hand'[h].kind = "none" /\ hand'[h].on = "none"
          /\ \A g \in Hands \ {h} : hand'[g] = hand[g] /\ hand[g].on # o
      BY <3>1, <3>a DEF OccupierInv, HandRows, Occupancy!Free
    <3>3. /\ company'[o] = Occupancy!Trimmed(type) /\ \A x \in Occupiers \ {o} : company'[x] = company[x]
          /\ company' \in [Occupiers -> {"lessee", "vendor", "padded", "untyped", "none"}]
          /\ company[o] = "none" /\ company'[o] # "none"
          /\ company'[o] \in {"vendor", "untyped"} <=> type \in {"padded", "untyped"}
      BY <3>1, <3>a DEF OccupierInv, Occupancy!Trimmed
    <3> QED
      BY <3>1, <3>2, <3>3 DEF OccupierInv
  <2>4. ASSUME NEW h \in Hands, Occupancy!PatchProfile(h) PROVE OccupierInv'
    <3>a. PICK o \in Occupiers, type \in {"lessee", "vendor", "padded", "untyped"} :
              o = hand[h].on /\ type = hand[h].type
      BY <2>4 DEF OccupierInv, HandRows, Occupancy!PatchProfile
    <3>1. /\ company' = [company EXCEPT ![o] = type]
          /\ recast' = IF type \in {"vendor", "untyped"} THEN recast \cup {o} ELSE recast \ {o}
          /\ hand' = [hand EXCEPT ![h] = Occupancy!Free] /\ settings' = settings /\ hand[h].kind = "patch"
      BY <2>4, <3>a DEF Occupancy!PatchProfile
    <3>2. /\ hand' \in [Hands -> HandRows] /\ hand'[h].kind = "none" /\ hand'[h].on = "none"
          /\ \A g \in Hands \ {h} : hand'[g] = hand[g] /\ (hand[g].kind = "create" => hand[g].on # o)
      BY <3>1, <3>a DEF OccupierInv, HandRows, Occupancy!Free
    <3>3. /\ company'[o] = type /\ \A x \in Occupiers \ {o} : company'[x] = company[x]
          /\ company' \in [Occupiers -> {"lessee", "vendor", "padded", "untyped", "none"}]
          /\ company[o] # "none" /\ company'[o] # "none"
      BY <3>1, <3>a DEF OccupierInv
    <3> QED
      BY <3>1, <3>2, <3>3 DEF OccupierInv
  <2>5. ASSUME NEW h \in Hands, Occupancy!UpsertSettings(h) PROVE OccupierInv'
    <3>a. PICK o \in Occupiers : o = hand[h].on
      BY <2>5 DEF OccupierInv, Occupancy!UpsertSettings
    <3>1. /\ settings' = [settings EXCEPT ![o] = [there |-> TRUE, given |-> @.given \cup hand[h].given]]
          /\ hand' = [hand EXCEPT ![h] = Occupancy!Free] /\ UNCHANGED <<company, recast>> /\ hand[h].kind = "settings"
      BY <2>5, <3>a DEF Occupancy!UpsertSettings
    <3>2. /\ hand' \in [Hands -> HandRows] /\ hand'[h].kind = "none" /\ hand'[h].on = "none"
          /\ \A g \in Hands \ {h} : hand'[g] = hand[g]
      BY <3>1 DEF OccupierInv, HandRows, Occupancy!Free
    <3>3. /\ settings' \in [Occupiers -> [there : BOOLEAN, given : SUBSET Fields]]
          /\ \A x \in Occupiers \ {o} : settings'[x] = settings[x]
      BY <3>1 DEF OccupierInv, HandRows
    <3> QED
      BY <3>1, <3>2, <3>3, <3>a DEF OccupierInv
  <2>6. ASSUME NEW o \in Occupiers, Occupancy!SeedVendor(o) PROVE OccupierInv'
    BY <2>6 DEF OccupierInv, Occupancy!SeedVendor
  <2>7. CASE UNCHANGED <<company, settings, hand, recast>>
    BY <2>7 DEF OccupierInv
  <2>8. ASSUME Occupancy!OccupierNext PROVE OccupierInv'
    <3>1. ASSUME NEW u \in Managers, Occupancy!Dismiss(u) PROVE OccupierInv'
      BY <2>7, <3>1 DEF Occupancy!Dismiss
    <3>2. ASSUME NEW h \in Hands, NEW u \in Managers, NEW o \in Occupiers, NEW type \in Occupancy!Types,
                 Occupancy!CheckEdit(h, u, o, "patch", type, {})
          PROVE  OccupierInv'
      BY <2>2, <3>2 DEF Occupancy!Types
    <3>3. ASSUME NEW h \in Hands, NEW u \in Managers, NEW o \in Occupiers, NEW named \in SUBSET Fields,
                 Occupancy!CheckEdit(h, u, o, "settings", "none", named)
          PROVE  OccupierInv'
      BY <2>2, <3>3
    <3> QED
      BY <2>1, <2>3, <2>4, <2>5, <2>6, <2>8, <3>1, <3>2, <3>3 DEF Occupancy!OccupierNext
  <2> QED
    BY <2>7, <2>8 DEF Occupancy!Next, Occupancy!vars, Occupancy!occupierVars
<1>3. OccupierInv => Occupancy!OccupiersAreListed
  BY DEF OccupierInv, Occupancy!OccupiersAreListed, Occupancy!Listed
<1> QED
  BY <1>1, <1>2, <1>3

\* occupants.service.ts:43-411: for any companies, managers and overlapping calls, a company is on the
\* lists exactly when no call gave or left it a type that is none, and settings are of a company there is.
THEOREM OccupiersCorrect ==
    ASSUME "none" \notin Occupiers
    PROVE  Occupancy!Spec => []Occupancy!OccupiersAreListed
BY OccupierInductive, PTL DEF Occupancy!Spec, Occupancy!Init
-----------------------------------------------------------------------------
(* The register of assets *)

\* What create asks of a row, but for what free says it did not have to satisfy
RowHolds(r, free) ==
    /\ r = [type |-> r.type, family |-> r.family, level |-> r.level, serial |-> r.serial,
            covered |-> r.covered, place |-> r.place, life |-> r.life, active |-> r.active]
    /\ r.family \in Registry!Critical => r.covered = TRUE \/ free \cap {"inherited", "family", "covered"} # {}
    /\ r.type # "none" /\ assetType[r.type].serialized /\ r.level = "unit" =>
           r.serial = TRUE \/ free \cap {"defaulted", "type", "serial", "level", "retyped"} # {}
    /\ r.place = "elsewhere" => "place" \in free
    /\ r # Registry!NoRow => r.active = TRUE \/ r.life = "disposed" \/ "life" \in free

\* The call that is to announce a row says so; the row it is to insert is sound already.
CallHolds(call) ==
    /\ call = [op |-> call.op, id |-> call.id, row |-> call.row, waived |-> call.waived, left |-> call.left]
    /\ call.id \in Equipment \cup {"none"}
    /\ call.op # "announce" => call.id = "none"
    /\ RowHolds(call.row, call.waived)

AssetHolds(a) ==
    /\ RowHolds(asset[a], lax[a])
    /\ asset[a] # Registry!NoRow =>
           a \in announced \/ (\E c \in Registrars : creating[c].id = a) \/ "unannounced" \in lax[a]

AssetInv ==
    /\ asset = [a \in Equipment |-> asset[a]] /\ lax = [a \in Equipment |-> lax[a]]
    /\ creating = [c \in Registrars |-> creating[c]]
    /\ \A c \in Registrars : CallHolds(creating[c])
    /\ \A a \in Equipment : AssetHolds(a)

LEMMA MoreFree ==
    ASSUME NEW r, NEW free, NEW more, RowHolds(r, free), free \subseteq more
    PROVE  RowHolds(r, more)
BY DEF RowHolds

\* A call moves on, and nothing but its own announcement depends on it.
LEMMA CallStep ==
    ASSUME AssetInv, NEW c \in Registrars, NEW next, CallHolds(next), creating' = [creating EXCEPT ![c] = next],
           UNCHANGED <<assetType, asset>>, announced \subseteq announced',
           lax' = [a \in Equipment |-> lax'[a]], \A a \in Equipment : lax[a] \subseteq lax'[a],
           \A a \in Equipment : creating[c].id = a =>
               next.id = a \/ a \in announced' \/ "unannounced" \in lax'[a]
    PROVE  AssetInv'
<1>1. /\ creating' = [x \in Registrars |-> creating'[x]] /\ creating'[c] = next
      /\ \A x \in Registrars \ {c} : creating'[x] = creating[x]
  BY DEF AssetInv
<1>2. ASSUME NEW x \in Registrars PROVE CallHolds(creating[x])'
  <2>1. CASE x = c
    BY <1>1, <2>1 DEF CallHolds, RowHolds
  <2>2. CASE x # c
    <3>1. CallHolds(creating[x]) /\ creating'[x] = creating[x]
      BY <1>1, <2>2 DEF AssetInv
    <3> QED
      BY <3>1 DEF CallHolds, RowHolds
  <2> QED
    BY <2>1, <2>2
<1>3. ASSUME NEW a \in Equipment PROVE AssetHolds(a)'
  <2>1. AssetHolds(a) /\ lax[a] \subseteq lax'[a]
    BY DEF AssetInv
  <2>2. RowHolds(asset[a], lax[a])'
    <3>1. RowHolds(asset[a], lax'[a])
      BY <2>1, MoreFree DEF AssetHolds
    <3> QED
      BY <3>1 DEF RowHolds
  <2>3. asset[a] # Registry!NoRow =>
            a \in announced' \/ (\E x \in Registrars : creating'[x].id = a) \/ "unannounced" \in lax'[a]
    <3>1. ASSUME NEW x \in Registrars, creating[x].id = a
          PROVE  a \in announced' \/ (\E y \in Registrars : creating'[y].id = a) \/ "unannounced" \in lax'[a]
      BY <1>1, <3>1
    <3> QED
      BY <2>1, <3>1 DEF AssetHolds
  <2> QED
    BY <2>2, <2>3 DEF AssetHolds
<1> QED
  BY <1>1, <1>2, <1>3 DEF AssetInv

\* The calls stay as they are, and one row is written.
LEMMA RowStep ==
    ASSUME AssetInv, NEW a \in Equipment, NEW r, NEW free, asset' = [asset EXCEPT ![a] = r],
           lax' = [lax EXCEPT ![a] = free], UNCHANGED <<assetType, announced, creating>>,
           asset[a] # Registry!NoRow, RowHolds(r, free), "unannounced" \in lax[a] => "unannounced" \in free
    PROVE  AssetInv'
<1>1. asset'[a] = r /\ lax'[a] = free
      /\ (\A x \in Equipment \ {a} : asset'[x] = asset[x] /\ lax'[x] = lax[x])
      /\ asset' = [x \in Equipment |-> asset'[x]] /\ lax' = [x \in Equipment |-> lax'[x]]
  BY DEF AssetInv
<1>2. ASSUME NEW x \in Registrars PROVE CallHolds(creating[x])'
  <2>1. CallHolds(creating[x])
    BY DEF AssetInv
  <2> QED
    BY <2>1 DEF CallHolds, RowHolds
<1>3. ASSUME NEW x \in Equipment PROVE AssetHolds(x)'
  <2>1. AssetHolds(x)
    BY DEF AssetInv
  <2>2. CASE x = a
    BY <1>1, <2>1, <2>2 DEF AssetHolds, RowHolds
  <2>3. CASE x # a
    BY <1>1, <2>1, <2>3 DEF AssetHolds, RowHolds
  <2> QED
    BY <2>2, <2>3
<1> QED
  BY <1>1, <1>2, <1>3 DEF AssetInv

LEMMA InsertAssetStep ==
    ASSUME BodiesAreForms, AssetInv, NEW c \in Registrars, NEW a \in Equipment, Registry!InsertAsset(c, a)
    PROVE  AssetInv'
<1>a. PICK r, free : r = creating[c].row /\ free = creating[c].waived
  OBVIOUS
<1>b. PICK next : next = [Registry!Quiet(creating[c].left) EXCEPT !.op = "announce", !.id = a]
  OBVIOUS
<1>1. /\ asset' = [asset EXCEPT ![a] = r] /\ lax' = [lax EXCEPT ![a] = free]
      /\ creating' = [creating EXCEPT ![c] = next] /\ creating[c].op = "insert"
      /\ UNCHANGED <<assetType, announced>> /\ asset[a] = Registry!NoRow
  BY <1>a, <1>b DEF Registry!InsertAsset
<1>2. RowHolds(r, free) /\ creating[c].id = "none"
  BY <1>1, <1>a DEF AssetInv, CallHolds
<1>3. CallHolds(next) /\ next.id = a
  BY <1>b DEF CallHolds, RowHolds, Registry!Quiet, Registry!NoRow, Registry!Critical
<1>4. /\ asset'[a] = r /\ lax'[a] = free
      /\ (\A x \in Equipment \ {a} : asset'[x] = asset[x] /\ lax'[x] = lax[x])
      /\ asset' = [x \in Equipment |-> asset'[x]] /\ lax' = [x \in Equipment |-> lax'[x]]
      /\ creating' = [x \in Registrars |-> creating'[x]] /\ creating'[c] = next
      /\ \A x \in Registrars \ {c} : creating'[x] = creating[x]
  BY <1>1 DEF AssetInv
<1>5. ASSUME NEW x \in Registrars PROVE CallHolds(creating[x])'
  <2>1. CASE x = c
    BY <1>1, <1>3, <1>4, <2>1 DEF CallHolds, RowHolds
  <2>2. CASE x # c
    <3>1. CallHolds(creating[x]) /\ creating'[x] = creating[x]
      BY <1>4, <2>2 DEF AssetInv
    <3> QED
      BY <1>1, <3>1 DEF CallHolds, RowHolds
  <2> QED
    BY <2>1, <2>2
<1>6. ASSUME NEW x \in Equipment PROVE AssetHolds(x)'
  <2>1. CASE x = a
    BY <1>1, <1>2, <1>3, <1>4, <2>1 DEF AssetHolds, RowHolds
  <2>2. CASE x # a
    <3>1. AssetHolds(x) /\ asset'[x] = asset[x] /\ lax'[x] = lax[x]
      BY <1>4, <2>2 DEF AssetInv
    <3>2. ASSUME NEW y \in Registrars, creating[y].id = x PROVE creating'[y].id = x
      BY <1>2, <1>4, <3>2 DEF BodiesAreForms
    <3> QED
      BY <1>1, <3>1, <3>2 DEF AssetHolds, RowHolds
  <2> QED
    BY <2>1, <2>2
<1> QED
  BY <1>4, <1>5, <1>6 DEF AssetInv

LEMMA UpdateAssetStep ==
    ASSUME AssetInv, NEW a \in Equipment, NEW change \in Registry!Editable, NEW t, Registry!Update(a, change, t)
    PROVE  AssetInv'
<1>a. PICK r : r = CASE change = "type" -> [asset[a] EXCEPT !.type = t]
                     [] change = "family" -> [asset[a] EXCEPT !.family = "Fire"]
                     [] change = "place" -> [asset[a] EXCEPT !.place = "elsewhere"]
                     [] change = "serial" -> [asset[a] EXCEPT !.serial = FALSE]
                     [] change = "level" -> [asset[a] EXCEPT !.level = "unit"]
                     [] change = "covered" -> [asset[a] EXCEPT !.covered = FALSE]
                     [] change = "life" -> [asset[a] EXCEPT !.life = "active"]
  OBVIOUS
<1>b. PICK free : free = lax[a] \cup {change}
  OBVIOUS
<1>1. /\ asset' = [asset EXCEPT ![a] = r] /\ lax' = [lax EXCEPT ![a] = free]
      /\ UNCHANGED <<assetType, announced, creating>> /\ asset[a] # Registry!NoRow
  BY <1>a, <1>b DEF Registry!Update
<1>2. RowHolds(asset[a], lax[a])
  BY DEF AssetInv, AssetHolds
<1>3. asset[a] = [type |-> asset[a].type, family |-> asset[a].family, level |-> asset[a].level,
                  serial |-> asset[a].serial, covered |-> asset[a].covered, place |-> asset[a].place,
                  life |-> asset[a].life, active |-> asset[a].active]
  BY <1>2 DEF RowHolds
<1>4. /\ r = [type |-> r.type, family |-> r.family, level |-> r.level, serial |-> r.serial,
              covered |-> r.covered, place |-> r.place, life |-> r.life, active |-> r.active]
      /\ r.active = asset[a].active
      /\ r.type = asset[a].type \/ change = "type"
      /\ r.family = asset[a].family \/ change = "family"
      /\ r.place = asset[a].place \/ change = "place"
      /\ r.serial = asset[a].serial \/ change = "serial"
      /\ r.level = asset[a].level \/ change = "level"
      /\ r.covered = asset[a].covered \/ change = "covered"
      /\ r.life = asset[a].life \/ change = "life"
  <2>1. CASE change = "family"
    BY <1>3, <1>a, <2>1
  <2>2. CASE change = "place"
    BY <1>3, <1>a, <2>2
  <2>3. CASE change = "serial"
    BY <1>3, <1>a, <2>3
  <2>4. CASE change = "level"
    BY <1>3, <1>a, <2>4
  <2>5. CASE change = "covered"
    BY <1>3, <1>a, <2>5
  <2>6. CASE change = "life"
    BY <1>3, <1>a, <2>6
  <2>7. CASE change = "type"
    BY <1>3, <1>a, <2>7
  <2> QED
    BY <2>1, <2>2, <2>3, <2>4, <2>5, <2>6, <2>7 DEF Registry!Editable
<1>5. RowHolds(r, free)
  BY <1>1, <1>2, <1>4, <1>b DEF RowHolds
<1> QED
  BY <1>1, <1>5, <1>b, RowStep

\* The invariant holds at first, every step keeps it, and it has what is to hold in it.
LEMMA AssetInductive ==
    ASSUME BodiesAreForms
    PROVE  /\ Registry!AssetInit => AssetInv
           /\ AssetInv /\ [Registry!Next]_(Registry!vars) => AssetInv'
           /\ AssetInv => Registry!AssetsAreSound
<1>a. ASSUME NEW left
      PROVE  /\ CallHolds(Registry!Quiet(left)) /\ Registry!Quiet(left).id = "none"
  BY DEF CallHolds, RowHolds, Registry!Quiet, Registry!NoRow, Registry!Critical
<1>1. ASSUME Registry!AssetInit PROVE AssetInv
  <2>1. /\ asset = [a \in Equipment |-> Registry!NoRow] /\ lax = [a \in Equipment |-> {}]
        /\ creating = [c \in Registrars |-> Registry!Quiet(0)]
    BY <1>1 DEF Registry!Init, Registry!AssetInit
  <2>2. RowHolds(Registry!NoRow, {})
    BY DEF RowHolds, Registry!NoRow, Registry!Critical
  <2> QED
    BY <1>a, <2>1, <2>2 DEF AssetInv, AssetHolds
<1>2. ASSUME AssetInv, [Registry!Next]_Registry!vars PROVE AssetInv'
  <2> USE <1>2
  <2>1. ASSUME NEW t \in AssetTypes, NEW family, NEW serialized, Registry!CreateAssetType(t, family, serialized)
        PROVE  AssetInv'
    <3>1. /\ lax' = [a \in Equipment |-> IF asset[a].type = t THEN lax[a] \cup {"retyped"} ELSE lax[a]]
          /\ creating' = [c \in Registrars |->
                 IF creating[c].row.type = t THEN [creating[c] EXCEPT !.waived = @ \cup {"retyped"}] ELSE creating[c]]
          /\ UNCHANGED <<asset, announced>>
          /\ \A x : x # t => assetType'[x] = assetType[x]
      BY <2>1 DEF Registry!CreateAssetType
    <3>2. ASSUME NEW r, NEW free, RowHolds(r, free), NEW more, free \subseteq more, r.type = t => "retyped" \in more
          PROVE  RowHolds(r, more)'
      BY <3>1, <3>2 DEF RowHolds
    <3>3. \A a \in Equipment : lax[a] \subseteq lax'[a] /\ (asset[a].type = t => "retyped" \in lax'[a])
      BY <3>1
    <3>4. ASSUME NEW c \in Registrars
          PROVE  CallHolds(creating[c])' /\ creating'[c].id = creating[c].id
      <4>1. CallHolds(creating[c])
        BY DEF AssetInv
      <4>a. PICK old : old = creating[c]
        OBVIOUS
      <4>b. PICK next : next = [old EXCEPT !.waived = @ \cup {"retyped"}]
        OBVIOUS
      <4>2. CASE old.row.type = t
        <5>1. creating'[c] = next
          BY <3>1, <4>2, <4>a, <4>b
        <5>2. /\ next = [op |-> next.op, id |-> next.id, row |-> next.row, waived |-> next.waived, left |-> next.left]
              /\ next.op = old.op /\ next.id = old.id /\ next.row = old.row
              /\ next.waived = old.waived \cup {"retyped"}
          BY <4>1, <4>a, <4>b DEF CallHolds
        <5>3. RowHolds(next.row, next.waived)'
          <6>1. RowHolds(old.row, old.waived)
            BY <4>1, <4>a DEF CallHolds
          <6> QED
            BY <3>2, <5>2, <6>1
        <5> QED
          BY <4>1, <4>a, <5>1, <5>2, <5>3 DEF CallHolds
      <4>3. CASE old.row.type # t
        <5>1. creating'[c] = old
          BY <3>1, <4>3, <4>a
        <5>2. RowHolds(old.row, old.waived)'
          BY <3>2, <4>1, <4>3, <4>a DEF CallHolds
        <5> QED
          BY <4>1, <4>a, <5>1, <5>2 DEF CallHolds
      <4> QED
        BY <4>2, <4>3
    <3>5. ASSUME NEW a \in Equipment PROVE AssetHolds(a)'
      <4>1. AssetHolds(a)
        BY DEF AssetInv
      <4>a. PICK r, free, more : r = asset[a] /\ free = lax[a] /\ more = lax'[a]
        OBVIOUS
      <4>2. RowHolds(r, more)'
        BY <3>2, <3>3, <4>1, <4>a DEF AssetHolds
      <4>3. asset'[a] = r /\ lax'[a] = more
        BY <3>1, <4>a
      <4>4. RowHolds(asset[a], lax[a])'
        BY <4>2, <4>3 DEF RowHolds
      <4> QED
        BY <3>1, <3>3, <3>4, <4>1, <4>4 DEF AssetHolds
    <3> QED
      BY <3>1, <3>4, <3>5 DEF AssetInv
  <2>2. ASSUME NEW c \in Registrars, NEW body \in Bodies, Registry!ReadToCreate(c, body) PROVE AssetInv'
    <3>a. PICK r, free : r = Registry!RowOf(body) /\ free = Registry!Waived(body)
      OBVIOUS
    <3>b. PICK next : next = [op |-> "insert", id |-> "none", row |-> r, waived |-> free,
                              left |-> Registry!Fewer(creating[c].left)]
      OBVIOUS
    <3>1. /\ creating' = [creating EXCEPT ![c] = next] /\ creating[c].op = "idle"
          /\ UNCHANGED <<assetType, asset, announced, lax>>
          /\ Registry!ValidCreateBody(body) /\ Registry!FitsType(body) /\ body.place # "elsewhere"
      BY <2>2, <3>a, <3>b DEF Registry!ReadToCreate, Registry!Accepted
    <3>2. /\ r = [type |-> r.type, family |-> r.family, level |-> r.level, serial |-> r.serial,
                  covered |-> r.covered, place |-> r.place, life |-> r.life, active |-> r.active]
          /\ r.type = body.type /\ r.family = Registry!Family(body) /\ r.serial = body.serial
          /\ r.covered = body.covered /\ r.place = body.place /\ r.active = TRUE
          /\ r.level = IF body.level = "" THEN "unit" ELSE body.level
          /\ free = (IF body.family = "none" THEN {"inherited"} ELSE {})
                    \cup (IF body.level = "" THEN {"defaulted"} ELSE {})
      BY <3>a DEF Registry!RowOf, Registry!Waived
    <3>3. r.family \in Registry!Critical => r.covered = TRUE \/ free \cap {"inherited", "family", "covered"} # {}
      BY <3>1, <3>2, <1>2 DEF Registry!ValidCreateBody, Registry!Family, BodiesAreForms
    <3>4. r.type # "none" /\ assetType[r.type].serialized /\ r.level = "unit" =>
               r.serial = TRUE \/ free \cap {"defaulted", "type", "serial", "level", "retyped"} # {}
      BY <3>1, <3>2 DEF Registry!FitsType, BodiesAreForms
    <3>5. RowHolds(r, free)
      BY <3>1, <3>2, <3>3, <3>4 DEF RowHolds
    <3>6. CallHolds(next) /\ next.id = "none"
      BY <3>b, <3>5 DEF CallHolds
    <3>7. creating[c].id = "none"
      BY <3>1 DEF AssetInv, CallHolds
    <3> QED
      BY <3>1, <3>6, <3>7, CallStep DEF AssetInv, BodiesAreForms
  <2>3. ASSUME NEW c \in Registrars, NEW a \in Equipment, Registry!InsertAsset(c, a) PROVE AssetInv'
    BY <2>3, InsertAssetStep
  <2>4. ASSUME NEW a \in Equipment, NEW change \in Registry!Editable, NEW t, Registry!Update(a, change, t)
        PROVE  AssetInv'
    BY <2>4, UpdateAssetStep
  <2>5. ASSUME NEW a \in Equipment, Registry!SoftDelete(a) PROVE AssetInv'
    <3>a. PICK r : r = [asset[a] EXCEPT !.active = FALSE, !.life = "disposed"]
      OBVIOUS
    <3>b. PICK free : free = lax[a] \ {"life"}
      OBVIOUS
    <3>1. /\ asset' = [asset EXCEPT ![a] = r] /\ lax' = [lax EXCEPT ![a] = free]
          /\ UNCHANGED <<assetType, announced, creating>> /\ asset[a] # Registry!NoRow
      BY <2>5, <3>a, <3>b DEF Registry!SoftDelete
    <3>2. RowHolds(asset[a], lax[a])
      BY DEF AssetInv, AssetHolds
    <3>3. /\ r = [type |-> r.type, family |-> r.family, level |-> r.level, serial |-> r.serial,
                  covered |-> r.covered, place |-> r.place, life |-> r.life, active |-> r.active]
          /\ r.type = asset[a].type /\ r.family = asset[a].family /\ r.place = asset[a].place
          /\ r.serial = asset[a].serial /\ r.level = asset[a].level /\ r.covered = asset[a].covered
          /\ r.life = "disposed"
      BY <3>2, <3>a DEF RowHolds
    <3>4. RowHolds(r, free)
      BY <3>2, <3>3, <3>b DEF RowHolds
    <3> QED
      BY <3>1, <3>4, <3>b, RowStep
  <2>6. ASSUME NEW c \in Registrars, Registry!PublishCreated(c) PROVE AssetInv'
    <3>a. PICK next : next = Registry!Quiet(creating[c].left)
      OBVIOUS
    <3>1. /\ announced' = announced \cup {creating[c].id} /\ creating' = [creating EXCEPT ![c] = next]
          /\ UNCHANGED <<assetType, asset, lax>>
      BY <2>6, <3>a DEF Registry!PublishCreated
    <3> QED
      BY <1>a, <3>1, <3>a, CallStep DEF AssetInv
  <2>7. ASSUME NEW c \in Registrars, Registry!CutCreate(c) PROVE AssetInv'
    <3>a. PICK left : creating' = [creating EXCEPT ![c] = Registry!Quiet(left)]
      BY <2>7 DEF Registry!CutCreate
    <3>b. PICK next : next = Registry!Quiet(left)
      OBVIOUS
    <3>1. /\ lax' = [a \in Equipment |-> IF creating[c].id = a THEN lax[a] \cup {"unannounced"} ELSE lax[a]]
          /\ UNCHANGED <<assetType, asset, announced>> /\ creating' = [creating EXCEPT ![c] = next]
      BY <2>7, <3>a, <3>b DEF Registry!CutCreate
    <3>2. /\ lax' = [a \in Equipment |-> lax'[a]] /\ \A a \in Equipment : lax[a] \subseteq lax'[a]
          /\ \A a \in Equipment : creating[c].id = a => "unannounced" \in lax'[a]
      BY <3>1
    <3> QED
      BY <1>a, <3>1, <3>2, <3>b, CallStep
  <2>8. ASSUME NEW c \in Registrars, NEW n, creating[c].op = "idle",
               creating' = [creating EXCEPT ![c] = Registry!Quiet(n)], UNCHANGED <<assetType, asset, announced, lax>>
        PROVE  AssetInv'
    <3>a. PICK next : next = Registry!Quiet(n)
      OBVIOUS
    <3>1. creating[c].id = "none"
      BY <2>8 DEF AssetInv, CallHolds
    <3> QED
      BY <1>a, <2>8, <3>1, <3>a, CallStep DEF AssetInv, BodiesAreForms
  <2>9. ASSUME NEW c \in Registrars, NEW n, Registry!BulkImport(c, n) PROVE AssetInv'
    <3>1. Registry!Quiet(0).op = "idle"
      BY DEF Registry!Quiet
    <3> QED
      BY <2>8, <2>9, <3>1 DEF Registry!BulkImport
  <2>10. ASSUME NEW c \in Registrars, NEW body \in Bodies, Registry!PassOver(c, body) PROVE AssetInv'
    BY <2>8, <2>10 DEF Registry!PassOver
  <2>11. CASE UNCHANGED Registry!assetVars
    BY <2>11 DEF Registry!assetVars, AssetInv, AssetHolds, CallHolds, RowHolds
  <2> QED
    BY <2>1, <2>2, <2>3, <2>4, <2>5, <2>6, <2>7, <2>9, <2>10, <2>11
    DEF Registry!Next, Registry!AssetNext, Registry!vars
<1>3. ASSUME AssetInv PROVE Registry!AssetsAreSound
  BY <1>3 DEF AssetInv, AssetHolds, RowHolds, Registry!AssetsAreSound, Registry!Registered
<1> QED
  BY <1>1, <1>2, <1>3

\* assets.service.ts:250-375 and :619-645: for any assets, types, forms, edits and overlapping calls
\* and imports, wherever a call is cut, what is registered satisfies what create asks but for what the
\* code leaves open: a family or level it was not given, an edit, a type upserted meanwhile.
THEOREM AssetsCorrect ==
    ASSUME BodiesAreForms
    PROVE  Registry!Spec => []Registry!AssetsAreSound
BY AssetInductive, PTL DEF Registry!Spec, Registry!Init
-----------------------------------------------------------------------------
(* Scanned codes: what they lead to *)

PrintRows == [point : Points \cup {"none"}, space : Spaces \cup {"none"}, site : Sites \cup {"none"},
              code : ZoneCodes \cup {"none"}, step : {"idle", "zone", "point"}]

ScanTypes ==
    /\ washZone \in [Sites -> [ZoneCodes -> Spaces \cup {"none", "hand"}]]
    /\ located \in [Spaces -> [site : Sites, code : ZoneCodes]]
    /\ place \in [Sites -> [Labels -> Spaces \cup {"none"}]]
    /\ point = [p \in Points |-> point[p]]
    /\ printing \in [Printers -> PrintRows]

\* The zone a point for the space needs is there, and is its own unless it was shared.
Zoned(b, k, s) ==
    /\ b \in Sites /\ k \in ZoneCodes /\ s \in Spaces
    /\ washZone[b][k] # "none" /\ (washZone[b][k] = s \/ s \in shared)

\* The space has the building and the code that a call read, unless it was edited since.
Stays(b, k, s) ==
    /\ b \in Sites /\ k \in ZoneCodes /\ s \in Spaces
    /\ s \in relet \/ (located[s].site = b /\ located[s].code = k)

PrintHolds(call) ==
    /\ call.step # "idle" => call.point \in Points /\ Stays(call.site, call.code, call.space)
    /\ call.step = "point" => Zoned(call.site, call.code, call.space)

PointHolds(row) ==
    row # Registry!Blank =>
        Zoned(row.site, row.code, row.space) /\ Stays(row.site, row.code, row.space)

ScanInv ==
    /\ ScanTypes
    /\ \A p \in Points : PointHolds(point[p])
    /\ \A c \in Printers : PrintHolds(printing[c])
    /\ \A b \in Sites, l \in Labels : place[b][l] # "none" =>
           l = Upper[l] /\ (located[place[b][l]].site = b \/ place[b][l] \in relet)

\* A zone once made stays, a space once shared or edited stays so.
ZonesStay ==
    /\ shared \subseteq shared'
    /\ \A b \in Sites, k \in ZoneCodes : washZone[b][k] # "none" => washZone'[b][k] = washZone[b][k]
SpacesStay ==
    /\ relet \subseteq relet'
    /\ \A s \in Spaces : located'[s] = located[s] \/ s \in relet'

LEMMA HoldsStay ==
    ASSUME ZonesStay, SpacesStay
    PROVE  /\ \A b, k, s : Zoned(b, k, s) => Zoned(b, k, s)'
           /\ \A b, k, s : Stays(b, k, s) => Stays(b, k, s)'
           /\ \A row : PointHolds(row) => PointHolds(row)'
           /\ \A call : PrintHolds(call) => PrintHolds(call)'
<1>1. \A b, k, s : Zoned(b, k, s) => Zoned(b, k, s)'
  BY DEF Zoned, ZonesStay
<1>2. \A b, k, s : Stays(b, k, s) => Stays(b, k, s)'
  BY DEF Stays, SpacesStay
<1> QED
  BY <1>1, <1>2 DEF PointHolds, PrintHolds

\* Calls, points and places stay right while zones and spaces stay.
LEMMA ScanStays ==
    ASSUME ScanInv, ScanTypes', ZonesStay, SpacesStay,
           \A p \in Points : point'[p] = point[p] \/ PointHolds(point[p])',
           \A c \in Printers : printing'[c] = printing[c] \/ PrintHolds(printing[c])',
           \A b \in Sites, l \in Labels : place'[b][l] \in {place[b][l], "none"} \/
               (l = Upper[l] /\ place'[b][l] \in Spaces /\ located'[place'[b][l]].site = b)
    PROVE  ScanInv'
<1>1. \A p \in Points : PointHolds(point[p])'
  <2>1. \A p \in Points : PointHolds(point[p])
    BY DEF ScanInv
  <2> QED
    BY <2>1, HoldsStay DEF PointHolds, Zoned, Stays
<1>2. \A c \in Printers : PrintHolds(printing[c])'
  <2>1. \A c \in Printers : PrintHolds(printing[c])
    BY DEF ScanInv
  <2> QED
    BY <2>1, HoldsStay DEF PrintHolds, Zoned, Stays
<1>3. ASSUME NEW b \in Sites, NEW l \in Labels, place'[b][l] # "none"
      PROVE  l = Upper[l] /\ (located'[place'[b][l]].site = b \/ place'[b][l] \in relet')
  BY <1>3 DEF ScanInv, ScanTypes, SpacesStay
<1> QED
  BY <1>1, <1>2, <1>3 DEF ScanInv

LEMMA FindZoneStep ==
    ASSUME ScanInv, NEW c \in Printers, NEW p \in Points, NEW s \in Spaces, Registry!FindZone(c, p, s)
    PROVE  ScanInv'
<1>a. PICK b \in Sites, k \in ZoneCodes : b = located[s].site /\ k = located[s].code
  BY DEF ScanInv, ScanTypes
<1>b. PICK found : found = washZone[b][k]
  OBVIOUS
<1>c. PICK next : next = [point |-> p, space |-> s, site |-> b, code |-> k,
                          step |-> IF found = "none" THEN "zone" ELSE "point"]
  OBVIOUS
<1>1. /\ printing' = [printing EXCEPT ![c] = next] /\ UNCHANGED <<located, washZone, point, place, relet>>
      /\ shared' = IF found \in {"none", s} THEN shared ELSE shared \cup {s}
  BY <1>a, <1>b, <1>c DEF Registry!FindZone
<1>2. /\ next \in PrintRows /\ next.point = p /\ next.space = s /\ next.site = b /\ next.code = k
      /\ next.step = "point" => found # "none"
  BY <1>c DEF PrintRows
<1>3. printing' \in [Printers -> PrintRows] /\ printing'[c] = next /\ \A x \in Printers \ {c} : printing'[x] = printing[x]
  BY <1>1, <1>2 DEF ScanInv, ScanTypes
<1>4. PrintHolds(next)'
  BY <1>1, <1>2, <1>a, <1>b DEF PrintHolds, Stays, Zoned
<1>5. ZonesStay /\ SpacesStay /\ ScanTypes'
  BY <1>1, <1>3 DEF ZonesStay, SpacesStay, ScanInv, ScanTypes
<1>6. \A x \in Printers : printing'[x] = printing[x] \/ PrintHolds(printing[x])'
  BY <1>3, <1>4 DEF PrintHolds, Stays, Zoned
<1> QED
  BY <1>1, <1>5, <1>6, ScanStays

LEMMA CreateZoneStep ==
    ASSUME ScanInv, NEW c \in Printers, Registry!CreateZone(c), "none" \notin Spaces
    PROVE  ScanInv'
<1>1. printing[c].step = "zone" /\ PrintHolds(printing[c]) /\ printing[c] \in PrintRows
  BY DEF ScanInv, ScanTypes, Registry!CreateZone
<1>a. PICK s \in Spaces, b \in Sites, k \in ZoneCodes :
          s = printing[c].space /\ b = printing[c].site /\ k = printing[c].code
  BY <1>1 DEF PrintHolds, Stays
<1>b. PICK next : next = IF washZone[b][k] # "none" THEN Registry!Off ELSE [printing[c] EXCEPT !.step = "point"]
  OBVIOUS
<1>2. /\ washZone' = IF washZone[b][k] # "none" THEN washZone ELSE [washZone EXCEPT ![b][k] = s]
      /\ printing' = [printing EXCEPT ![c] = next] /\ UNCHANGED <<located, point, place, shared, relet>>
  BY <1>a, <1>b DEF Registry!CreateZone
<1>3. /\ washZone' \in [Sites -> [ZoneCodes -> Spaces \cup {"none", "hand"}]]
      /\ \A x \in Sites, y \in ZoneCodes : washZone[x][y] # "none" => washZone'[x][y] = washZone[x][y]
      /\ washZone[b][k] = "none" => washZone'[b][k] = s
  BY <1>2 DEF ScanInv, ScanTypes
<1>4. /\ next \in PrintRows
      /\ washZone[b][k] = "none" => /\ next.point = printing[c].point /\ next.space = s
                                    /\ next.site = b /\ next.code = k
      /\ washZone[b][k] # "none" => next.step = "idle"
  <2>1. CASE washZone[b][k] # "none"
    BY <1>b, <2>1 DEF Registry!Off, PrintRows
  <2>2. CASE washZone[b][k] = "none"
    BY <1>1, <1>a, <1>b, <2>2 DEF PrintRows
  <2> QED
    BY <2>1, <2>2
<1>5. printing' \in [Printers -> PrintRows] /\ printing'[c] = next /\ \A x \in Printers \ {c} : printing'[x] = printing[x]
  BY <1>2, <1>4 DEF ScanInv, ScanTypes
<1>6. ZonesStay /\ SpacesStay /\ ScanTypes'
  BY <1>2, <1>3, <1>5 DEF ZonesStay, SpacesStay, ScanInv, ScanTypes
<1>7. PrintHolds(next)'
  <2>1. CASE washZone[b][k] # "none"
    BY <1>4, <2>1 DEF PrintHolds
  <2>2. CASE washZone[b][k] = "none"
    <3>1. Stays(b, k, s)'
      BY <1>1, <1>2, <1>a DEF PrintHolds, Stays
    <3>2. Zoned(b, k, s)'
      BY <1>3, <2>2 DEF Zoned
    <3> QED
      BY <1>1, <1>4, <2>2, <3>1, <3>2 DEF PrintHolds
  <2> QED
    BY <2>1, <2>2
<1>8. \A x \in Printers : printing'[x] = printing[x] \/ PrintHolds(printing[x])'
  BY <1>5, <1>7 DEF PrintHolds, Stays, Zoned
<1> QED
  BY <1>2, <1>6, <1>8, ScanStays

LEMMA CreatePointStep ==
    ASSUME ScanInv, NEW c \in Printers, Registry!CreatePoint(c)
    PROVE  ScanInv'
<1>1. printing[c].step = "point" /\ PrintHolds(printing[c]) /\ printing[c].point \in Points
  BY DEF ScanInv, Registry!CreatePoint, PrintHolds
<1>a. PICK p, b, k, s : /\ p \in Points /\ p = printing[c].point
                        /\ b = printing[c].site /\ k = printing[c].code /\ s = printing[c].space
  BY <1>1
<1>b. PICK new : new = [site |-> b, code |-> k, space |-> s]
  OBVIOUS
<1>2. /\ point' = [point EXCEPT ![p] = new] /\ printing' = [printing EXCEPT ![c] = Registry!Off]
      /\ UNCHANGED <<located, washZone, place, shared, relet>>
  BY <1>a, <1>b DEF Registry!CreatePoint
<1>3. Registry!Off \in PrintRows /\ Registry!Off.step = "idle" /\ new.site = b /\ new.code = k /\ new.space = s
  BY <1>b DEF Registry!Off, PrintRows
<1>4. /\ printing' \in [Printers -> PrintRows] /\ printing'[c].step = "idle"
      /\ \A x \in Printers \ {c} : printing'[x] = printing[x]
      /\ point'[p] = new /\ (\A x \in Points \ {p} : point'[x] = point[x]) /\ point' = [x \in Points |-> point'[x]]
  <2>1. point = [x \in Points |-> point[x]] /\ printing \in [Printers -> PrintRows]
    BY DEF ScanInv, ScanTypes
  <2>2. point' = [x \in Points |-> point'[x]] /\ point'[p] = new /\ \A x \in Points \ {p} : point'[x] = point[x]
    BY <1>2, <1>a, <2>1
  <2> QED
    BY <1>2, <1>3, <2>1, <2>2
<1>5. ZonesStay /\ SpacesStay /\ ScanTypes'
  BY <1>2, <1>4 DEF ZonesStay, SpacesStay, ScanInv, ScanTypes
<1>6. PointHolds(new)'
  BY <1>1, <1>2, <1>3, <1>a DEF PointHolds, PrintHolds, Zoned, Stays
<1>7. \A x \in Points : point'[x] = point[x] \/ PointHolds(point[x])'
  BY <1>4, <1>6 DEF PointHolds, Stays, Zoned
<1>8. \A x \in Printers : printing'[x] = printing[x] \/ PrintHolds(printing[x])'
  BY <1>4 DEF PrintHolds
<1> QED
  BY <1>2, <1>5, <1>7, <1>8, ScanStays

\* The invariant holds at first, every step keeps it, and it has what is to hold in it.
LEMMA ScanInductive ==
    ASSUME CodesAreCodes
    PROVE  /\ Registry!ScanInit => ScanInv
           /\ ScanInv /\ [Registry!Next]_(Registry!vars) => ScanInv'
           /\ ScanInv => Registry!PointsLeadHome
<1>1. ASSUME Registry!ScanInit PROVE ScanInv
  <2>1. /\ washZone = [b \in Sites |-> [k \in ZoneCodes |-> "none"]]
        /\ located = [s \in Spaces |-> [site |-> SpaceSite[s], code |-> SpaceCode[s]]]
        /\ point = [p \in Points |-> Registry!Blank] /\ place = [b \in Sites |-> [l \in Labels |-> "none"]]
        /\ printing = [c \in Printers |-> Registry!Off]
    BY <1>1 DEF Registry!Init, Registry!ScanInit
  <2>2. Registry!Off \in PrintRows /\ Registry!Off.step = "idle"
    BY DEF Registry!Off, PrintRows
  <2>3. located \in [Spaces -> [site : Sites, code : ZoneCodes]]
    BY <2>1 DEF CodesAreCodes
  <2> QED
    BY <2>1, <2>2, <2>3 DEF ScanInv, ScanTypes, PointHolds, PrintHolds
<1>2. ASSUME ScanInv, [Registry!Next]_Registry!vars PROVE ScanInv'
  <2> USE <1>2
  <2>1. ASSUME NEW c \in Printers, NEW p \in Points, NEW s \in Spaces, Registry!FindZone(c, p, s) PROVE ScanInv'
    BY <2>1, FindZoneStep
  <2>2. ASSUME NEW c \in Printers, Registry!CreateZone(c) PROVE ScanInv'
    BY <2>2, CreateZoneStep DEF CodesAreCodes
  <2>3. ASSUME NEW c \in Printers, Registry!CreatePoint(c) PROVE ScanInv'
    BY <2>3, CreatePointStep
  <2>a. ASSUME NEW b \in Sites, NEW l \in Labels, NEW s \in Spaces \cup {"none"},
               place' = [place EXCEPT ![b][l] = s], l = Upper[l], s # "none" => located[s].site = b,
               UNCHANGED <<located, washZone, point, printing, shared, relet>>
        PROVE  ScanInv'
    <3>1. place' \in [Sites -> [Labels -> Spaces \cup {"none"}]]
          /\ \A x \in Sites, y \in Labels : place'[x][y] = IF x = b /\ y = l THEN s ELSE place[x][y]
      BY <2>a DEF ScanInv, ScanTypes
    <3>2. ZonesStay /\ SpacesStay /\ ScanTypes'
      BY <2>a, <3>1 DEF ZonesStay, SpacesStay, ScanInv, ScanTypes
    <3> QED
      BY <2>a, <3>1, <3>2, ScanStays
  <2>4. ASSUME NEW b \in Sites, NEW l \in Labels, NEW s \in Spaces, Registry!CreateLocation(b, l, s) PROVE ScanInv'
    <3>1. Upper[l] \in Labels /\ Upper[l] = Upper[Upper[l]]
      BY DEF CodesAreCodes
    <3>2. /\ place' = [place EXCEPT ![b][Upper[l]] = s] /\ located[s].site = b
          /\ UNCHANGED <<located, washZone, point, printing, shared, relet>>
      BY <2>4 DEF Registry!CreateLocation
    <3> QED
      BY <2>a, <3>1, <3>2
  <2>5. ASSUME NEW b \in Sites, NEW l \in Labels, Registry!DeleteLocation(b, l) PROVE ScanInv'
    <3>1. Upper[l] \in Labels /\ Upper[l] = Upper[Upper[l]]
      BY DEF CodesAreCodes
    <3>2. /\ place' = [place EXCEPT ![b][Upper[l]] = "none"]
          /\ UNCHANGED <<located, washZone, point, printing, shared, relet>>
      BY <2>5 DEF Registry!DeleteLocation
    <3> QED
      BY <2>a, <3>1, <3>2
  <2>6. ASSUME NEW b \in Sites, NEW k \in ZoneCodes, Registry!AddZone(b, k) PROVE ScanInv'
    <3>1. /\ washZone[b][k] = "none" /\ washZone' = [washZone EXCEPT ![b][k] = "hand"]
          /\ UNCHANGED <<located, point, place, printing, shared, relet>>
      BY <2>6 DEF Registry!AddZone
    <3>2. ZonesStay /\ SpacesStay /\ ScanTypes'
      BY <3>1 DEF ZonesStay, SpacesStay, ScanInv, ScanTypes
    <3> QED
      BY <3>1, <3>2, ScanStays
  <2>7. ASSUME NEW s \in Spaces, NEW b \in Sites, NEW k \in ZoneCodes, Registry!UpdateUnit(s, b, k) PROVE ScanInv'
    <3>1. /\ located' = [located EXCEPT ![s] = [site |-> b, code |-> k]] /\ relet' = relet \cup {s}
          /\ UNCHANGED <<washZone, point, place, printing, shared>>
      BY <2>7 DEF Registry!UpdateUnit
    <3>2. ZonesStay /\ SpacesStay /\ ScanTypes'
      BY <3>1 DEF ZonesStay, SpacesStay, ScanInv, ScanTypes
    <3> QED
      BY <3>1, <3>2, ScanStays
  <2>8. CASE UNCHANGED <<located, washZone, point, place, printing, shared, relet>>
    <3>1. ZonesStay /\ SpacesStay /\ ScanTypes'
      BY <2>8 DEF ZonesStay, SpacesStay, ScanInv, ScanTypes
    <3> QED
      BY <2>8, <3>1, ScanStays
  <2> QED
    BY <2>1, <2>2, <2>3, <2>4, <2>5, <2>6, <2>7, <2>8
    DEF Registry!Next, Registry!ScanNext, Registry!DeleteSpace, Registry!scanVars, Registry!vars
<1>3. ASSUME ScanInv PROVE Registry!PointsLeadHome
  <2>1. ASSUME NEW p \in Points, point[p] # Registry!Blank
        PROVE  /\ Registry!Resolved(p) # "none"
               /\ Registry!Resolved(p) = point[p].space \/ point[p].space \in shared
               /\ Registry!HasPoint(point[p].space) \/ point[p].space \in relet
    BY <1>3, <2>1 DEF ScanInv, PointHolds, Zoned, Stays, Registry!Resolved, Registry!HasPoint
  <2>2. ASSUME NEW l \in Labels, NEW b \in Sites
        PROVE  /\ b \in Registry!ScanAnywhere(l) => Registry!ScanIn(b, l) # "none" /\ l = Upper[l]
               /\ Registry!ScanIn(b, l) # "none" =>
                      /\ b \in Registry!ScanAnywhere(Upper[l])
                      /\ located[Registry!ScanIn(b, l)].site = b \/ Registry!ScanIn(b, l) \in relet
    BY <1>3 DEF ScanInv, CodesAreCodes, Registry!ScanAnywhere, Registry!ScanIn
  <2> QED
    BY <2>1, <2>2 DEF Registry!PointsLeadHome
<1> QED
  BY <1>1, <1>2, <1>3

\* cleaning.qr.service.ts:81-126 and :163-296, qr-locations.service.ts:54-126, scanner.service.ts:61-110,
\* building-core.service.ts:140-161: for any buildings, spaces, codes, edits of units and overlapping
\* calls, a point has its zone, a space with a point is shown as registered unless it was edited, and a
\* code found anywhere is found at home.
THEOREM PointsCorrect ==
    ASSUME CodesAreCodes
    PROVE  Registry!Spec => []Registry!PointsLeadHome
BY ScanInductive, PTL DEF Registry!Spec, Registry!Init
-----------------------------------------------------------------------------
(* IAM: no chain of delegations widens a scope *)

GrantTypes ==
    /\ granted \in [Rights!Everyone -> [Rights!Offered ->
           [state : {"none", "runs", "expired"}, own : BOOLEAN]]]
    /\ doing \in [Doers -> [kind : {"none", "assign", "staff", "revoke"}, user : Rights!Everyone \cup {"none"},
                            role : Rights!Offered \cup {"none"}, own : BOOLEAN]]
    /\ chartered \subseteq Rights!Offered

\* A role that the first manager's or one that an administrator handed out covers
Covered(r) == \E top \in chartered \cup {FounderRole} : Ranks[r] <= Ranks[top]

\* What a call is about to write has been covered when it was checked, and stays so.
DoingHolds(c) ==
    /\ doing[c].kind # "none" => doing[c].user \in Rights!Everyone /\ doing[c].role \in Rights!Offered
    /\ doing[c].kind \in {"assign", "staff"} =>
           Covered(doing[c].role) /\ (doing[c].own => doing[c].role = "viewer")

GrantInv ==
    /\ GrantTypes
    /\ \A c \in Doers : DoingHolds(c)
    /\ \A u \in Rights!Everyone, r \in Rights!Offered :
           granted[u][r].state = "none" => ~granted[u][r].own
    /\ Rights!RanksNeverRise

LEMMA DelegatedIsCovered ==
    ASSUME RanksAreNumbers, GrantInv, NEW u \in Rights!Everyone, NEW title \in Rights!Offered,
           Rights!CanDelegate(u, title)
    PROVE  Covered(title)
<1>1. PICK r \in Rights!Offered : granted[u][r].state # "none" /\ Ranks[title] <= Ranks[r]
  BY DEF Rights!CanDelegate
<1>2. PICK top \in chartered \cup {FounderRole} : Ranks[r] <= Ranks[top]
  BY <1>1 DEF GrantInv, Rights!RanksNeverRise, Rights!NoGrant
<1>3. Ranks[title] \in Int /\ Ranks[r] \in Int /\ Ranks[top] \in Int
  BY DEF RanksAreNumbers, GrantInv, GrantTypes, Rights!Offered
<1> QED
  BY <1>1, <1>2, <1>3 DEF Covered

\* A call that puts down what it has checked leaves everything else as it was, but for what an
\* administrator hands out and whom he makes one of the staff.
LEMMA GrantChecked ==
    ASSUME GrantInv, NEW c \in Doers, doing[c].kind = "none",
           NEW way \in {"assign", "staff", "revoke"}, NEW u \in Rights!Everyone, NEW title \in Rights!Offered,
           NEW own \in BOOLEAN,
           doing' = [doing EXCEPT ![c] = [kind |-> way, user |-> u, role |-> title, own |-> own]],
           UNCHANGED <<granted, deprived>>, chartered \subseteq chartered', chartered' \subseteq Rights!Offered,
           staff' = staff \/ (way = "staff" /\ staff' = staff \cup {u}),
           way # "revoke" => Covered(title)' /\ (own => title = "viewer")
    PROVE  GrantInv'
<1>1. /\ GrantTypes'
      /\ doing'[c] = [kind |-> way, user |-> u, role |-> title, own |-> own]
      /\ \A b \in Doers \ {c} : doing'[b] = doing[b]
  BY DEF GrantInv, GrantTypes
<1>2. \A r : Covered(r) => Covered(r)'
  BY DEF Covered
<1>3. \A b \in Doers : DoingHolds(b)'
  BY <1>1, <1>2 DEF GrantInv, DoingHolds
<1>4. Rights!RanksNeverRise'
  <2>1. ASSUME NEW v \in staff'
        PROVE  \/ \E r \in Rights!Offered : granted[v][r] # Rights!NoGrant
               \/ v \in deprived
               \/ \E b \in Doers : doing'[b].kind = "staff" /\ doing'[b].user = v
    BY <1>1 DEF GrantInv, Rights!RanksNeverRise
  <2>2. \A v \in Rights!Everyone, r \in Rights!Offered :
            granted[v][r] # Rights!NoGrant =>
               /\ \E top \in chartered' \cup {FounderRole} : Ranks[r] <= Ranks[top]
               /\ granted[v][r].own => r = "viewer"
    BY DEF GrantInv, Rights!RanksNeverRise
  <2> QED
    BY <2>1, <2>2 DEF Rights!RanksNeverRise
<1> QED
  BY <1>1, <1>3, <1>4 DEF GrantInv

\* A call that has written returns, and what it leaves of a grant is covered.
LEMMA GrantWritten ==
    ASSUME GrantInv, NEW u \in Rights!Everyone, NEW title \in Rights!Offered,
           NEW rec \in [state : {"none", "runs", "expired"}, own : BOOLEAN],
           granted' = [granted EXCEPT ![u][title] = rec],
           rec.state = "none" => ~rec.own /\ u \in deprived',
           rec.state # "none" => Covered(title) /\ (rec.own => title = "viewer"),
           \/ UNCHANGED doing
           \/ \E c \in Doers : /\ doing' = [doing EXCEPT ![c] = Rights!Idle]
                               /\ doing[c].kind = "staff" => rec.state # "none" /\ doing[c].user = u,
           UNCHANGED <<chartered, staff>>, deprived \subseteq deprived'
    PROVE  GrantInv'
<1>1. /\ granted'[u][title] = rec
      /\ \A v \in Rights!Everyone, r \in Rights!Offered :
             (v # u \/ r # title) => granted'[v][r] = granted[v][r]
      /\ granted' \in [Rights!Everyone -> [Rights!Offered ->
             [state : {"none", "runs", "expired"}, own : BOOLEAN]]]
  BY DEF GrantInv, GrantTypes
<1>2. /\ \A b \in Doers : DoingHolds(b)'
      /\ GrantTypes'
      /\ \A b \in Doers : doing[b].kind = "staff" =>
             (doing'[b] = doing[b] \/ (rec.state # "none" /\ doing[b].user = u))
  <2>1. CASE UNCHANGED doing
    BY <1>1, <2>1 DEF GrantInv, GrantTypes, DoingHolds, Covered
  <2>2. ASSUME NEW c \in Doers, doing' = [doing EXCEPT ![c] = Rights!Idle],
               doing[c].kind = "staff" => rec.state # "none" /\ doing[c].user = u
        PROVE  <1>2!:
    BY <1>1, <2>2 DEF GrantInv, GrantTypes, DoingHolds, Covered, Rights!Idle
  <2> QED
    BY <2>1, <2>2
<1>3. \A v \in Rights!Everyone, r \in Rights!Offered : granted'[v][r].state = "none" => ~granted'[v][r].own
  BY <1>1 DEF GrantInv
<1>4. Rights!RanksNeverRise'
  <2>1. ASSUME NEW v \in staff'
        PROVE  \/ \E r \in Rights!Offered : granted'[v][r] # Rights!NoGrant
               \/ v \in deprived'
               \/ \E b \in Doers : doing'[b].kind = "staff" /\ doing'[b].user = v
    <3>1. CASE rec.state = "none"
      BY <1>1, <1>2, <3>1 DEF GrantInv, Rights!RanksNeverRise
    <3>2. CASE rec.state # "none"
      <4>1. granted'[u][title] # Rights!NoGrant
        BY <1>1, <3>2 DEF Rights!NoGrant
      <4> QED
        BY <1>1, <1>2, <3>2, <4>1 DEF GrantInv, Rights!RanksNeverRise
    <3> QED
      BY <3>1, <3>2
  <2>2. rec = Rights!NoGrant \/ rec.state # "none"
    BY DEF Rights!NoGrant
  <2>3. \A v \in Rights!Everyone, r \in Rights!Offered :
            granted'[v][r] # Rights!NoGrant =>
               /\ \E top \in chartered' \cup {FounderRole} : Ranks[r] <= Ranks[top]
               /\ granted'[v][r].own => r = "viewer"
    BY <1>1, <2>2 DEF GrantInv, Rights!RanksNeverRise, Covered
  <2> QED
    BY <2>1, <2>3 DEF Rights!RanksNeverRise
<1> QED
  BY <1>2, <1>3, <1>4 DEF GrantInv

LEMMA GrantStep ==
    ASSUME RanksAreNumbers PROVE GrantInv /\ [Rights!Next]_(Rights!vars) => GrantInv'
<1> SUFFICES ASSUME GrantInv, [Rights!Next]_(Rights!vars) PROVE GrantInv'
  OBVIOUS
<1>1. /\ GrantTypes
      /\ \A c \in Doers : DoingHolds(c)
  BY DEF GrantInv
<1>2. ASSUME NEW c \in Doers, NEW u \in Rights!Everyone, NEW by \in Rights!Everyone,
             NEW title \in Rights!Offered, Rights!CheckAssign(c, u, title, by)
      PROVE  GrantInv'
  <2>1. /\ doing' = [doing EXCEPT ![c] = [kind |-> "assign", user |-> u, role |-> title, own |-> u = by]]
        /\ UNCHANGED <<granted, staff, chartered, deprived>> /\ doing[c].kind = "none"
        /\ u = by => title = "viewer"
    BY <1>2 DEF Rights!CheckAssign, Rights!Begin, Rights!Idle
  <2>2. Covered(title)'
    BY <1>2, <2>1, DelegatedIsCovered DEF Rights!CheckAssign, Covered
  <2> QED
    BY <1>1, <2>1, <2>2, GrantChecked DEF GrantTypes
<1>3. ASSUME NEW c \in Doers, NEW u \in Rights!Everyone, NEW by \in Rights!Everyone,
             NEW title \in Rights!Offered, Rights!CheckRevoke(c, u, title, by)
      PROVE  GrantInv'
  <2>1. /\ doing' = [doing EXCEPT ![c] = [kind |-> "revoke", user |-> u, role |-> title, own |-> u = by]]
        /\ UNCHANGED <<granted, staff, chartered, deprived>> /\ doing[c].kind = "none"
    BY <1>3 DEF Rights!CheckRevoke, Rights!Begin, Rights!Idle
  <2> QED
    BY <1>1, <2>1, GrantChecked DEF GrantTypes
<1>4. ASSUME NEW c \in Doers, NEW u \in Rights!Everyone, NEW by \in Rights!Everyone,
             NEW title \in Rights!Offered, NEW administrator \in BOOLEAN,
             Rights!CreateUser(c, u, title, by, administrator)
      PROVE  GrantInv'
  <2>1. /\ doing' = [doing EXCEPT ![c] = [kind |-> "staff", user |-> u, role |-> title, own |-> u = by]]
        /\ UNCHANGED <<granted, deprived>> /\ doing[c].kind = "none" /\ u # by
        /\ staff' = staff \cup {u}
        /\ chartered' = IF Rights!CanDelegate(by, title) THEN chartered ELSE chartered \cup {title}
    BY <1>4 DEF Rights!CreateUser, Rights!Begin, Rights!Idle
  <2>2. Covered(title)' /\ chartered \subseteq chartered' /\ chartered' \subseteq Rights!Offered
    <3>1. CASE Rights!CanDelegate(by, title)
      BY <1>1, <2>1, <3>1, DelegatedIsCovered DEF Covered, GrantTypes
    <3>2. CASE ~Rights!CanDelegate(by, title)
      BY <1>1, <2>1, <3>2 DEF Covered, GrantTypes, RanksAreNumbers, Rights!Offered
    <3> QED
      BY <3>1, <3>2
  <2> QED
    BY <2>1, <2>2, GrantChecked
<1>5. ASSUME NEW c \in Doers, Rights!WriteAssignment(c) \/ Rights!WriteStaffGrant(c) PROVE GrantInv'
  <2> DEFINE rec == [state |-> "runs", own |-> doing[c].own]
  <2>1. /\ doing[c].kind \in {"assign", "staff"} /\ doing' = [doing EXCEPT ![c] = Rights!Idle]
        /\ granted' = [granted EXCEPT ![doing[c].user][doing[c].role] = rec]
        /\ UNCHANGED <<staff, chartered, deprived>>
    BY <1>5 DEF Rights!WriteAssignment, Rights!WriteStaffGrant
  <2>2. /\ doing[c].user \in Rights!Everyone /\ doing[c].role \in Rights!Offered
        /\ Covered(doing[c].role) /\ (rec.own => doing[c].role = "viewer")
    BY <1>1, <2>1 DEF DoingHolds
  <2>3. rec \in [state : {"none", "runs", "expired"}, own : BOOLEAN] /\ rec.state = "runs"
    BY <1>1 DEF GrantTypes
  <2> HIDE DEF rec
  <2> QED
    BY <2>1, <2>2, <2>3, GrantWritten
<1>6. ASSUME NEW c \in Doers, Rights!DeleteGrant(c) PROVE GrantInv'
  <2>1. /\ doing[c].kind = "revoke" /\ doing' = [doing EXCEPT ![c] = Rights!Idle]
        /\ granted' = [granted EXCEPT ![doing[c].user][doing[c].role] = Rights!NoGrant]
        /\ UNCHANGED <<staff, chartered>> /\ deprived' = deprived \cup {doing[c].user}
    BY <1>6 DEF Rights!DeleteGrant
  <2>2. doing[c].user \in Rights!Everyone /\ doing[c].role \in Rights!Offered
    BY <1>1, <2>1 DEF DoingHolds
  <2>3. /\ Rights!NoGrant \in [state : {"none", "runs", "expired"}, own : BOOLEAN]
        /\ Rights!NoGrant.state = "none" /\ ~Rights!NoGrant.own
    BY DEF Rights!NoGrant
  <2> QED
    BY <2>1, <2>2, <2>3, GrantWritten
<1>7. ASSUME NEW u \in Rights!Everyone, NEW title \in Rights!Offered, Rights!Expire(u, title) PROVE GrantInv'
  <2> DEFINE rec == [granted[u][title] EXCEPT !.state = "expired"]
  <2>1. /\ UNCHANGED <<staff, doing, chartered, deprived>> /\ granted[u][title].state = "runs"
        /\ granted' = [granted EXCEPT ![u][title] = rec]
    BY <1>1, <1>7 DEF Rights!Expire, GrantTypes
  <2>2. /\ rec \in [state : {"none", "runs", "expired"}, own : BOOLEAN] /\ rec.state = "expired"
        /\ rec.own = granted[u][title].own
    BY <1>1 DEF GrantTypes
  <2>3. Covered(title) /\ (rec.own => title = "viewer")
    BY <2>1, <2>2 DEF GrantInv, Rights!RanksNeverRise, Rights!NoGrant, Covered
  <2> HIDE DEF rec
  <2> QED
    BY <2>1, <2>2, <2>3, GrantWritten
<1>8. ASSUME NEW c \in Doers, Rights!CutStaff(c) PROVE GrantInv'
  <2>1. /\ UNCHANGED <<granted, staff, chartered>> /\ doing[c].kind = "staff"
        /\ deprived' = deprived \cup {doing[c].user} /\ doing' = [doing EXCEPT ![c] = Rights!Idle]
    BY <1>8 DEF Rights!CutStaff
  <2>2. /\ GrantTypes'
        /\ \A b \in Doers : DoingHolds(b)'
        /\ \A b \in Doers : doing[b].kind = "staff" => (doing'[b] = doing[b] \/ doing[b].user \in deprived')
    BY <1>1, <2>1 DEF GrantTypes, DoingHolds, Covered, Rights!Idle
  <2>3. Rights!RanksNeverRise'
    <3>1. ASSUME NEW v \in staff
          PROVE  \/ \E r \in Rights!Offered : granted[v][r] # Rights!NoGrant
                 \/ v \in deprived'
                 \/ \E b \in Doers : doing'[b].kind = "staff" /\ doing'[b].user = v
      BY <2>1, <2>2 DEF GrantInv, Rights!RanksNeverRise
    <3> QED
      BY <2>1, <3>1 DEF GrantInv, Rights!RanksNeverRise
  <2> QED
    BY <2>1, <2>2, <2>3 DEF GrantInv
<1>9. CASE UNCHANGED Rights!grantVars
  <2>1. UNCHANGED <<granted, staff, doing, chartered, deprived>>
    BY <1>9 DEF Rights!grantVars
  <2> QED
    BY <2>1 DEF GrantInv, GrantTypes, DoingHolds, Covered, Rights!RanksNeverRise
<1>10. CASE Rights!GrantNext
  BY <1>2, <1>3, <1>4, <1>5, <1>6, <1>7, <1>8, <1>10 DEF Rights!GrantNext
<1> QED
  BY <1>9, <1>10 DEF Rights!Next, Rights!vars

\* The invariant holds at first, every step keeps it, and it has what is to hold in it.
LEMMA GrantInductive ==
    ASSUME RanksAreNumbers
    PROVE  /\ Rights!GrantInit => GrantInv
           /\ GrantInv /\ [Rights!Next]_(Rights!vars) => GrantInv'
           /\ GrantInv => Rights!RanksNeverRise
<1>1. Rights!GrantInit => GrantInv
  <2> SUFFICES ASSUME Rights!GrantInit PROVE GrantInv
    OBVIOUS
  <2>1. /\ granted = [u \in Rights!Everyone |-> [r \in Rights!Offered |->
               IF u = Founder /\ r = FounderRole THEN [state |-> "runs", own |-> FALSE] ELSE Rights!NoGrant]]
        /\ staff = {Founder} /\ doing = [c \in Doers |-> Rights!Idle] /\ chartered = {} /\ deprived = {}
    BY DEF Rights!Init, Rights!GrantInit
  <2>2. GrantTypes /\ \A c \in Doers : DoingHolds(c)
    BY <2>1 DEF GrantTypes, DoingHolds, Rights!Idle, Rights!NoGrant
  <2>3. \A u \in Rights!Everyone, r \in Rights!Offered :
            /\ ~granted[u][r].own
            /\ granted[u][r] # Rights!NoGrant => r = FounderRole
    BY <2>1 DEF Rights!NoGrant
  <2>4. granted[Founder][FounderRole] # Rights!NoGrant /\ Founder \in Rights!Everyone /\ FounderRole \in Rights!Offered
    BY <2>1 DEF Rights!NoGrant, Rights!Everyone, Rights!Offered, RanksAreNumbers
  <2>5. Rights!RanksNeverRise
    BY <2>1, <2>3, <2>4 DEF Rights!RanksNeverRise, RanksAreNumbers
  <2> QED
    BY <2>2, <2>3, <2>5 DEF GrantInv
<1>2. GrantInv => Rights!RanksNeverRise
  BY DEF GrantInv
<1> QED
  BY <1>1, <1>2, GrantStep

\* iam.service.ts:164-244 and :256-354: along any chain of delegations and however calls overlap, no
\* role in a building is of a wider scope than the one its first manager had or an administrator
\* handed out; nobody made his own grant but a viewer's; and staff have a role, unless it was
\* revoked or the call that created them did not finish.
THEOREM RanksCorrect ==
    ASSUME RanksAreNumbers
    PROVE  Rights!Spec => []Rights!RanksNeverRise
BY GrantInductive, PTL DEF Rights!Spec, Rights!Init
-----------------------------------------------------------------------------
(* Team and roles: who is inactive holds nothing *)

TeamTypes ==
    /\ member \in [Members -> {"none", "active", "inactive"}]
    /\ given \in [Members -> [Posts -> {"none", "open", "dated", "expired"}]]
    /\ office \in [Offices -> [op : {"none", "deactivate", "assign", "edit", "remove"},
                               on : Members \cup {"none"}, role : Posts \cup {"none"},
                               at : {"idle", "revoke", "mark", "write", "delete", "overtaken"}]]

\* A deactivation that has revoked leaves a member nothing, or somebody else gave it a grant since;
\* a removal that has counted still finds no live grant, or knows that one was written.
OfficeHolds(o) ==
    /\ office[o].op = "deactivate" => office[o].on \in Members
    /\ office[o].op \in {"assign", "edit"} => office[o].on \in Members /\ office[o].role \in Posts
    /\ office[o].op = "remove" => office[o].role \in Posts
    /\ office[o].at = "mark" =>
           /\ office[o].op = "deactivate"
           /\ office[o].on \in excused \/ \A r \in Posts : ~Team!Live(office[o].on, r)
    /\ office[o].op = "remove" /\ office[o].at = "delete" =>
           \A m \in Members : ~Team!Live(m, office[o].role)

MemberHolds(m) ==
    /\ member[m] = "inactive" => m \in excused \/ \A r \in Posts : ~Team!Live(m, r)
    /\ \A r \in Posts : given[m][r] # "none" => r \in roles

TeamInv ==
    /\ TeamTypes
    /\ \A o \in Offices : OfficeHolds(o)
    /\ \A m \in Members : MemberHolds(m)
    /\ robbed = {}

\* Grants that only end, while nobody becomes inactive
LEMMA GrantsEnd ==
    ASSUME TeamInv, UNCHANGED <<member, roles, excused, robbed>>,
           given' \in [Members -> [Posts -> {"none", "open", "dated", "expired"}]],
           \A m \in Members, r \in Posts :
               /\ Team!Live(m, r)' => Team!Live(m, r)
               /\ given[m][r] = "none" => given'[m][r] = "none",
           office' = office \/ \E o \in Offices : office' = [office EXCEPT ![o] = Team!Free]
    PROVE  TeamInv'
<1>1. TeamTypes'
  BY DEF TeamInv, TeamTypes, Team!Free
<1>2. \A o \in Offices : OfficeHolds(o)'
  <2>1. ASSUME NEW o \in Offices, office'[o] = office[o] PROVE OfficeHolds(o)'
    BY <2>1 DEF TeamInv, TeamTypes, OfficeHolds
  <2>2. ASSUME NEW o \in Offices, office'[o] = Team!Free PROVE OfficeHolds(o)'
    BY <2>2 DEF OfficeHolds, Team!Free
  <2>3. \A o \in Offices : office'[o] = office[o] \/ office'[o] = Team!Free
    BY DEF TeamInv, TeamTypes
  <2> QED
    BY <2>1, <2>2, <2>3
<1>3. \A m \in Members : MemberHolds(m)'
  BY DEF TeamInv, MemberHolds
<1> QED
  BY <1>1, <1>2, <1>3 DEF TeamInv

\* A call that begins
LEMMA OfficeBegins ==
    ASSUME TeamInv, UNCHANGED <<member, roles, given, excused, robbed>>, NEW o \in Offices,
           NEW call \in [op : {"none", "deactivate", "assign", "edit", "remove"},
                         on : Members \cup {"none"}, role : Posts \cup {"none"},
                         at : {"idle", "revoke", "mark", "write", "delete", "overtaken"}],
           office' = [office EXCEPT ![o] = call], OfficeHolds(o)'
    PROVE  TeamInv'
<1>1. TeamTypes'
  BY DEF TeamInv, TeamTypes
<1>2. \A p \in Offices \ {o} : OfficeHolds(p)'
  BY DEF TeamInv, TeamTypes, OfficeHolds, Team!Live
<1> QED
  BY <1>1, <1>2 DEF TeamInv, MemberHolds, Team!Live

LEMMA TeamStep == TeamInv /\ [Team!Next]_(Team!vars) => TeamInv'
<1> SUFFICES ASSUME TeamInv, [Team!Next]_(Team!vars) PROVE TeamInv'
  OBVIOUS
<1>1. /\ TeamTypes
      /\ \A o \in Offices : OfficeHolds(o)
      /\ \A m \in Members : MemberHolds(m)
  BY DEF TeamInv
<1>2. ASSUME NEW m \in Members, Team!CreateMember(m) PROVE TeamInv'
  <2>1. UNCHANGED <<roles, given, office, excused, robbed>> /\ member' = [member EXCEPT ![m] = "active"]
    BY <1>2 DEF Team!CreateMember
  <2> QED
    BY <1>1, <2>1 DEF TeamInv, TeamTypes, OfficeHolds, MemberHolds, Team!Live
<1>3. ASSUME NEW m \in Members, NEW active \in BOOLEAN, Team!UpdateMember(m, active) PROVE TeamInv'
  <2>1. /\ UNCHANGED <<roles, given, office, robbed>>
        /\ member' = [member EXCEPT ![m] = IF active THEN "active" ELSE "inactive"]
        /\ excused \subseteq excused'
        /\ ~active => m \in excused' \/ \A r \in Posts : ~Team!Live(m, r)
    BY <1>3 DEF Team!UpdateMember, Team!Holds
  <2>2. \A n \in Members : MemberHolds(n)'
    BY <1>1, <2>1 DEF TeamTypes, MemberHolds, Team!Live
  <2> QED
    BY <1>1, <2>1, <2>2 DEF TeamInv, TeamTypes, OfficeHolds, Team!Live
<1>4. ASSUME NEW o \in Offices, NEW op \in {"deactivate", "assign", "edit", "remove"},
             NEW on \in Members \cup {"none"}, NEW r \in Posts \cup {"none"},
             NEW step \in {"revoke", "write", "delete"}, Team!Begin(o, op, on, r, step),
             UNCHANGED <<member, roles, given, excused, robbed>>,
             op = "deactivate" => on \in Members,
             op \in {"assign", "edit"} => on \in Members /\ r \in Posts,
             op = "remove" => r \in Posts /\ \A m \in Members : ~Team!Live(m, r)
      PROVE  TeamInv'
  <2> DEFINE call == [op |-> op, on |-> on, role |-> r, at |-> step]
  <2>1. office' = [office EXCEPT ![o] = call] /\ office'[o] = call
    BY <1>1, <1>4 DEF Team!Begin, TeamTypes
  <2>2. OfficeHolds(o)'
    BY <1>4, <2>1 DEF OfficeHolds, Team!Live
  <2>3. call \in [op : {"none", "deactivate", "assign", "edit", "remove"},
                  on : Members \cup {"none"}, role : Posts \cup {"none"},
                  at : {"idle", "revoke", "mark", "write", "delete", "overtaken"}]
    OBVIOUS
  <2> HIDE DEF call
  <2> QED
    BY <1>4, <2>1, <2>2, <2>3, OfficeBegins
<1>5. ASSUME NEW o \in Offices, NEW m \in Members, Team!BeginDeactivate(o, m) PROVE TeamInv'
  BY <1>4, <1>5 DEF Team!BeginDeactivate
<1>6. ASSUME NEW o \in Offices, NEW a \in Members, NEW m \in Members, NEW r \in Posts,
             Team!BeginAssign(o, a, m, r) \/ Team!BeginEdit(o, a, m, r)
      PROVE  TeamInv'
  BY <1>4, <1>6 DEF Team!BeginAssign, Team!BeginEdit
<1>7. ASSUME NEW o \in Offices, NEW r \in Posts, Team!BeginRemove(o, r) PROVE TeamInv'
  BY <1>4, <1>7 DEF Team!BeginRemove
<1>8. ASSUME NEW o \in Offices, Team!RevokeGrants(o) PROVE TeamInv'
  <2>e. PICK m : m = office[o].on
    OBVIOUS
  <2>f. PICK call : call = [office[o] EXCEPT !.at = "mark"]
    OBVIOUS
  <2>1. /\ office[o].op = "deactivate" /\ m \in Members
        /\ given' = [given EXCEPT ![m] = [r \in Posts |-> Team!RevokedGrant(given[m][r])]]
        /\ office' = [office EXCEPT ![o] = call]
        /\ excused' = excused \ {m} /\ UNCHANGED <<member, roles, robbed>>
    BY <1>1, <1>8, <2>e, <2>f DEF Team!RevokeGrants, OfficeHolds, TeamTypes
  <2>2. /\ call \in [op : {"none", "deactivate", "assign", "edit", "remove"},
                     on : Members \cup {"none"}, role : Posts \cup {"none"},
                     at : {"idle", "revoke", "mark", "write", "delete", "overtaken"}]
        /\ call.op = "deactivate" /\ call.on = m /\ call.at = "mark"
    <3>1. office[o] \in [op : {"none", "deactivate", "assign", "edit", "remove"},
                     on : Members \cup {"none"}, role : Posts \cup {"none"},
                     at : {"idle", "revoke", "mark", "write", "delete", "overtaken"}]
      BY <1>1 DEF TeamTypes
    <3> QED
      BY <2>1, <2>e, <2>f, <3>1
  <2>a. PICK grants0 : grants0 = [r \in Posts |-> Team!RevokedGrant(given[m][r])]
    OBVIOUS
  <2>b. /\ grants0 \in [Posts -> {"none", "open", "dated", "expired"}]
        /\ \A r \in Posts : /\ grants0[r] \notin {"open", "dated"}
                            /\ given[m][r] = "none" => grants0[r] = "none"
    BY <1>1, <2>1, <2>a DEF TeamTypes, Team!RevokedGrant
  <2>c. /\ given' \in [Members -> [Posts -> {"none", "open", "dated", "expired"}]]
        /\ given'[m] = grants0 /\ \A n \in Members \ {m} : given'[n] = given[n]
    BY <1>1, <2>1, <2>a, <2>b DEF TeamTypes
  <2>d. /\ office' \in [Offices -> [op : {"none", "deactivate", "assign", "edit", "remove"},
                               on : Members \cup {"none"}, role : Posts \cup {"none"},
                               at : {"idle", "revoke", "mark", "write", "delete", "overtaken"}]]
        /\ office'[o] = call /\ \A p \in Offices \ {o} : office'[p] = office[p]
    BY <1>1, <2>1, <2>2 DEF TeamTypes
  <2>3. /\ TeamTypes'
        /\ \A n \in Members, r \in Posts : n = m => ~Team!Live(n, r)'
        /\ \A n \in Members, r \in Posts : /\ Team!Live(n, r)' => Team!Live(n, r)
                                           /\ given[n][r] = "none" => given'[n][r] = "none"
    <3>1. TeamTypes'
      BY <1>1, <2>1, <2>c, <2>d DEF TeamTypes
    <3>2. ASSUME NEW n \in Members, NEW r \in Posts
          PROVE  /\ n = m => given'[n][r] \notin {"open", "dated"}
                 /\ given'[n][r] \in {"open", "dated"} => given[n][r] \in {"open", "dated"}
                 /\ given[n][r] = "none" => given'[n][r] = "none"
      <4>1. CASE n = m
        BY <2>b, <2>c, <4>1
      <4>2. CASE n # m
        BY <2>c, <4>2
      <4> QED
        BY <4>1, <4>2
    <3> QED
      BY <3>1, <3>2 DEF Team!Live
  <2>4. \A n \in Members : MemberHolds(n)'
    BY <1>1, <2>1, <2>3 DEF MemberHolds
  <2>5. ASSUME NEW p \in Offices PROVE OfficeHolds(p)'
    <3>1. CASE p = o
      BY <1>1, <2>1, <2>2, <2>3, <3>1 DEF OfficeHolds, TeamTypes
    <3>2. CASE p # o
      <4>1. office'[p] = office[p] /\ OfficeHolds(p)
        BY <1>1, <2>d, <3>2
      <4> QED
        BY <2>1, <2>3, <4>1 DEF OfficeHolds
    <3> QED
      BY <3>1, <3>2
  <2> QED
    BY <2>1, <2>3, <2>4, <2>5 DEF TeamInv
<1>9. ASSUME NEW o \in Offices, Team!MarkInactive(o) PROVE TeamInv'
  <2> DEFINE m == office[o].on
  <2>1. /\ member' = [member EXCEPT ![m] = "inactive"] /\ office' = [office EXCEPT ![o] = Team!Free]
        /\ UNCHANGED <<roles, given, excused, robbed>> /\ m \in Members
        /\ m \in excused \/ \A r \in Posts : ~Team!Live(m, r)
    BY <1>1, <1>9 DEF Team!MarkInactive, OfficeHolds
  <2>2. \A n \in Members : MemberHolds(n)'
    BY <1>1, <2>1 DEF TeamTypes, MemberHolds, Team!Live
  <2>3. TeamTypes' /\ \A p \in Offices : OfficeHolds(p)'
    BY <1>1, <2>1 DEF TeamTypes, OfficeHolds, Team!Live, Team!Free
  <2> QED
    BY <2>1, <2>2, <2>3 DEF TeamInv
<1>10. ASSUME NEW m \in Members, NEW r \in Posts, NEW fresh \in {"none", "expired"},
              given' = [given EXCEPT ![m][r] = fresh], UNCHANGED <<member, roles, office, excused, robbed>>,
              fresh = "expired" => given[m][r] # "none"
       PROVE  TeamInv'
  BY <1>1, <1>10, GrantsEnd DEF TeamTypes, Team!Live
<1>11. ASSUME NEW m \in Members, NEW r \in Posts, Team!Expire(m, r) \/ \E a \in Members : Team!Revoke(a, m, r)
       PROVE  TeamInv'
  BY <1>10, <1>11 DEF Team!Expire, Team!Revoke
<1>12. ASSUME NEW r \in Posts, Team!CreateRole(r) PROVE TeamInv'
  <2>1. UNCHANGED <<member, given, office, excused, robbed>> /\ roles \subseteq roles'
    BY <1>12 DEF Team!CreateRole
  <2> QED
    BY <1>1, <2>1 DEF TeamInv, TeamTypes, OfficeHolds, MemberHolds, Team!Live
<1>13. ASSUME NEW o \in Offices, NEW fresh \in {"open", "dated", "expired"}, Team!WriteGrant(o, fresh)
       PROVE  TeamInv'
  <2> DEFINE m == office[o].on
             r == office[o].role
             fails == \/ office[o].op = "assign" /\ (given[m][r] # "none" \/ r \notin roles)
                      \/ office[o].op = "edit" /\ given[m][r] = "none"
  <2>1. /\ office[o].op \in {"assign", "edit"} /\ m \in Members /\ r \in Posts
        /\ UNCHANGED <<member, roles, robbed>>
    BY <1>1, <1>13 DEF Team!WriteGrant, OfficeHolds
  <2>2. CASE fails
    <3>1. UNCHANGED <<given, excused>> /\ office' = [office EXCEPT ![o] = Team!Free]
      BY <1>13, <2>2 DEF Team!WriteGrant
    <3> QED
      BY <1>1, <2>1, <3>1, GrantsEnd DEF TeamTypes, Team!Live
  <2>3. CASE ~fails
    <3>1. /\ given' = [given EXCEPT ![m][r] = fresh]
          /\ excused' = IF \/ member[m] = "inactive"
                           \/ \E p \in Offices : office[p].on = m /\ office[p].at = "mark"
                        THEN excused \cup {m} ELSE excused
          /\ office' = [p \in Offices |->
                 IF p = o THEN Team!Free
                 ELSE IF office[p].op = "remove" /\ office[p].role = r
                 THEN [office[p] EXCEPT !.at = "overtaken"]
                 ELSE office[p]]
      BY <1>13, <2>3 DEF Team!WriteGrant
    <3>2. r \in roles
      BY <1>1, <2>1, <2>3 DEF MemberHolds
    <3> HIDE DEF m, r, fails
    <3>3. /\ given' \in [Members -> [Posts -> {"none", "open", "dated", "expired"}]]
          /\ \A n \in Members, q \in Posts : (n # m \/ q # r) => given'[n][q] = given[n][q]
          /\ excused \subseteq excused'
      BY <1>1, <2>1, <3>1 DEF TeamTypes
    <3>4. ASSUME NEW p \in Offices
          PROVE  /\ office'[p] \in [op : {"none", "deactivate", "assign", "edit", "remove"},
                                    on : Members \cup {"none"}, role : Posts \cup {"none"},
                                    at : {"idle", "revoke", "mark", "write", "delete", "overtaken"}]
                 /\ OfficeHolds(p)'
      <4>1. office[p] \in [op : {"none", "deactivate", "assign", "edit", "remove"},
                           on : Members \cup {"none"}, role : Posts \cup {"none"},
                           at : {"idle", "revoke", "mark", "write", "delete", "overtaken"}]
        BY <1>1 DEF TeamTypes
      <4>2. CASE p = o
        <5>1. office'[p] = Team!Free
          BY <3>1, <4>2
        <5> QED
          BY <5>1 DEF OfficeHolds, Team!Free
      <4>3. CASE p # o /\ office[p].op = "remove" /\ office[p].role = r
        <5>1. office'[p] = [office[p] EXCEPT !.at = "overtaken"]
          BY <3>1, <4>3
        <5> QED
          BY <2>1, <4>1, <4>3, <5>1 DEF OfficeHolds
      <4>4. CASE p # o /\ ~(office[p].op = "remove" /\ office[p].role = r)
        <5>1. office'[p] = office[p] /\ OfficeHolds(p)
          BY <1>1, <3>1, <4>4
        <5>2. office[p].at = "mark" /\ office[p].on = m => m \in excused'
          BY <3>1
        <5>3. office[p].at = "mark" => office[p].on \in excused' \/ \A q \in Posts : ~Team!Live(office[p].on, q)'
          BY <3>3, <5>1, <5>2 DEF OfficeHolds, Team!Live
        <5>4. office[p].op = "remove" /\ office[p].at = "delete" => \A n \in Members : ~Team!Live(n, office[p].role)'
          BY <3>3, <4>4, <5>1 DEF OfficeHolds, Team!Live
        <5> QED
          BY <4>1, <5>1, <5>3, <5>4 DEF OfficeHolds, Team!Live
      <4> QED
        BY <4>2, <4>3, <4>4
    <3>5. TeamTypes'
      BY <1>1, <2>1, <3>1, <3>3, <3>4 DEF TeamTypes
    <3>6. \A n \in Members : MemberHolds(n)'
      <4>1. member[m] = "inactive" => m \in excused'
        BY <3>1
      <4> QED
        BY <1>1, <2>1, <3>2, <3>3, <4>1 DEF MemberHolds, Team!Live
    <3> QED
      BY <2>1, <3>4, <3>5, <3>6 DEF TeamInv
  <2> QED
    BY <2>2, <2>3
<1>14. ASSUME NEW o \in Offices, Team!DeleteRole(o) PROVE TeamInv'
  <2> DEFINE r == office[o].role
  <2>1. /\ office[o].op = "remove" /\ r \in Posts /\ UNCHANGED <<member, excused>>
        /\ roles' = roles \ {r}
        /\ given' = [m \in Members |-> [given[m] EXCEPT ![r] = "none"]]
        /\ office' = [office EXCEPT ![o] = Team!Free]
        /\ robbed' = IF office[o].at = "delete" /\ \E m \in Members : Team!Live(m, r)
                     THEN robbed \cup {r} ELSE robbed
    BY <1>1, <1>14 DEF Team!DeleteRole, OfficeHolds
  <2>2. robbed' = {}
    BY <1>1, <2>1 DEF TeamInv, OfficeHolds
  <2> HIDE DEF r
  <2>3. /\ given' \in [Members -> [Posts -> {"none", "open", "dated", "expired"}]]
        /\ \A m \in Members, q \in Posts : given'[m][q] = IF q = r THEN "none" ELSE given[m][q]
    BY <1>1, <2>1 DEF TeamTypes
  <2>4. \A m \in Members : MemberHolds(m)'
    BY <1>1, <2>1, <2>3 DEF MemberHolds, Team!Live
  <2>5. ASSUME NEW p \in Offices PROVE OfficeHolds(p)'
    <3>1. CASE p = o
      <4>1. office'[p] = Team!Free
        BY <1>1, <2>1, <3>1 DEF TeamTypes
      <4> QED
        BY <4>1 DEF OfficeHolds, Team!Free
    <3>2. CASE p # o
      <4>1. office'[p] = office[p] /\ OfficeHolds(p)
        BY <1>1, <2>1, <3>2 DEF TeamTypes
      <4> QED
        BY <2>1, <2>3, <4>1 DEF OfficeHolds, Team!Live
    <3> QED
      BY <3>1, <3>2
  <2>6. TeamTypes'
    BY <1>1, <2>1, <2>3 DEF TeamTypes, Team!Free
  <2> QED
    BY <2>2, <2>4, <2>5, <2>6 DEF TeamInv
<1>15. ASSUME NEW o \in Offices, Team!Throw(o) PROVE TeamInv'
  <2>1. UNCHANGED <<member, roles, given, excused, robbed>> /\ office' = [office EXCEPT ![o] = Team!Free]
    BY <1>15 DEF Team!Throw
  <2> QED
    BY <1>1, <2>1, GrantsEnd DEF TeamTypes, Team!Live
<1>16. CASE UNCHANGED Team!vars
  BY <1>1, <1>16 DEF Team!vars, TeamInv, TeamTypes, OfficeHolds, MemberHolds, Team!Live
<1> QED
  BY <1>2, <1>3, <1>5, <1>6, <1>7, <1>8, <1>9, <1>11, <1>12, <1>13, <1>14, <1>15, <1>16 DEF Team!Next

\* The invariant holds at first, every step keeps it, and it has what is to hold in it.
LEMMA TeamInductive ==
    /\ Team!Init => TeamInv
    /\ TeamInv /\ [Team!Next]_(Team!vars) => TeamInv'
    /\ TeamInv => Team!InactiveHoldsNothing
<1>1. Team!Init => TeamInv
  BY DEF Team!Init, Team!NoGrants, Team!Free, Team!Live, TeamInv, TeamTypes, OfficeHolds, MemberHolds
<1>2. TeamInv => Team!InactiveHoldsNothing
  BY DEF TeamInv, MemberHolds, Team!Holds, Team!InactiveHoldsNothing
<1> QED
  BY <1>1, <1>2, TeamStep

\* team.service.ts:201-234 and roles.service.ts:255-290: however deactivations, assignments and
\* removals of roles overlap, an inactive member holds no live grant but for the excused reasons,
\* every grant is of a role that exists, and no removal takes along a live grant it had not counted.
THEOREM InactiveCorrect == Team!Spec => []Team!InactiveHoldsNothing
BY TeamInductive, PTL DEF Team!Spec
-----------------------------------------------------------------------------
(* Authority: what the grants of a user come to *)

\* The grants given are some of those that can be.
ScopeInv == grants \subseteq GrantRows

LEMMA CardinalityOfRights == \A S : Rights!Cardinality(S) = Cardinality(S)
  BY DEF Rights!Cardinality, Cardinality

LEMMA AtMostOne ==
    ASSUME NEW S, IsFiniteSet(S), Cardinality(S) <= 1, NEW x \in S
    PROVE  S = {x}
<1>1. Cardinality(S) \in Nat /\ Cardinality(S) # 0
  BY FS_CardinalityType, FS_EmptySet
<1>2. PICK y : S = {y}
  BY <1>1, FS_Singleton
<1> QED
  BY <1>2

\* What the actor is, field by field
LEMMA Resolved ==
    ASSUME NEW b, NEW actor \in Rights!Resolve(b)
    PROVE  LET held == Rights!GrantsIn(b)
           IN  /\ actor.permissions = UNION {rights[r] : r \in enrolled \cup {g.role : g \in held}}
               /\ actor.buildings = IF b = "any" THEN {g.building : g \in held} ELSE {b}
               /\ actor.floors = Rights!MergeStringArrays({g.floors : g \in held})
               /\ actor.contractor \in Rights!FirstNonNull({g.contractor : g \in held})
               /\ actor.createdBy = \E g \in held : g.createdBy
<1>a. PICK held : held = Rights!GrantsIn(b)
  OBVIOUS
<1>b. PICK ps : ps = UNION {rights[r] : r \in enrolled \cup {g.role : g \in held}}
  OBVIOUS
<1>c. PICK bs : bs = IF b = "any" THEN {g.building : g \in held} ELSE {b}
  OBVIOUS
<1>d. PICK fs : fs = Rights!MergeStringArrays({g.floors : g \in held})
  OBVIOUS
<1>e. PICK own : own = \E g \in held : g.createdBy
  OBVIOUS
<1>1. PICK c \in Rights!FirstNonNull({g.contractor : g \in held}) :
          actor = [permissions |-> ps, buildings |-> bs, floors |-> fs, contractor |-> c, createdBy |-> own]
  BY <1>a, <1>b, <1>c, <1>d, <1>e DEF Rights!Resolve
<1>2. /\ actor.permissions = ps /\ actor.buildings = bs /\ actor.floors = fs /\ actor.createdBy = own
      /\ actor.contractor \in Rights!FirstNonNull({g.contractor : g \in held})
  BY <1>1
<1> QED
  BY <1>2, <1>a, <1>b, <1>c, <1>d, <1>e

\* The invariant holds at first, every step keeps it, and it has what is to hold in it.
LEMMA ScopeInductive ==
    ASSUME GrantsAreRows
    PROVE  /\ Rights!ActorInit => ScopeInv
           /\ ScopeInv /\ [Rights!Next]_(Rights!vars) => ScopeInv'
           /\ ScopeInv => Rights!ScopesAgree
<1>1. Rights!ActorInit => ScopeInv
  BY DEF ScopeInv, Rights!Init, Rights!ActorInit
<1>2. ScopeInv /\ [Rights!Next]_Rights!vars => ScopeInv'
  BY DEF Rights!Next, Rights!ActorNext, Rights!Enrol, Rights!Dismiss, Rights!Give, Rights!Lapse,
         Rights!UpdateRole, Rights!vars, Rights!actorVars, ScopeInv
<1>3. ASSUME ScopeInv PROVE Rights!ScopesAgree
  <2> SUFFICES ASSUME NEW b \in Rights!GrantedBuildings \cup {"any"}, NEW x \in Rights!Resources,
                      NEW actor \in Rights!Resolve(b)
               PROVE  LET held == Rights!GrantsIn(b)
                          firms == {g.contractor : g \in held}
                      IN /\ Cardinality(held) = 1 =>
                                (Rights!RequireScope(actor, x) <=> \E g \in held : Rights!Covers(g, x))
                         /\ (Cardinality(firms) <= 1 /\ ~\E g \in held : g.createdBy) =>
                                \A g \in held : Rights!Covers(g, x) => Rights!RequireScope(actor, x)
                         /\ (Rights!ScopeWhere(actor, x) /\ (actor.createdBy => x.own)) =>
                                Rights!RequireScope(actor, x)
                         /\ (Rights!RequireScope(actor, x) /\ x.floor # "none") =>
                                Rights!ScopeWhere(actor, x)
                         /\ \A p \in Permissions : Rights!Authorize(actor, p, x) =>
                                \E r \in enrolled \cup {g.role : g \in grants} : p \in rights[r]
    BY CardinalityOfRights DEF Rights!ScopesAgree
  <2>a. PICK held : held = Rights!GrantsIn(b)
    OBVIOUS
  <2>b. PICK firms : firms = {g.contractor : g \in held}
    OBVIOUS
  <2>1. /\ held \subseteq GrantRows /\ held \subseteq grants /\ IsFiniteSet(held) /\ IsFiniteSet(firms)
        /\ \A g \in held : (b # "any" => g.building = b) /\ g.createdBy \in BOOLEAN
    <3>1. held \subseteq GrantRows /\ held \subseteq grants /\ \A g \in held : b # "any" => g.building = b
      BY <1>3, <2>a DEF ScopeInv, Rights!GrantsIn
    <3>2. IsFiniteSet(held)
      BY <3>1, FS_Subset DEF GrantsAreRows
    <3>3. IsFiniteSet(firms)
      <4> DEFINE ToFirm == [g \in held |-> g.contractor]
      <4>1. ToFirm \in Surjection(held, firms)
        BY <2>b DEF Surjection
      <4> QED
        BY <3>2, <4>1, FS_Surjection
    <3> QED
      BY <3>1, <3>2, <3>3 DEF GrantsAreRows
  <2>2. /\ actor.permissions = UNION {rights[r] : r \in enrolled \cup {g.role : g \in held}}
        /\ actor.buildings = IF b = "any" THEN {g.building : g \in held} ELSE {b}
        /\ actor.floors = Rights!MergeStringArrays({g.floors : g \in held})
        /\ actor.contractor \in Rights!FirstNonNull(firms)
        /\ actor.createdBy = \E g \in held : g.createdBy
    BY <2>a, <2>b, Resolved
  <2>3. x.building # "none"
    BY DEF Rights!Resources, GrantsAreRows
  <2>4. ASSUME Cardinality(held) = 1
        PROVE  Rights!RequireScope(actor, x) <=> \E g \in held : Rights!Covers(g, x)
    <3>1. PICK h : held = {h}
      BY <2>1, <2>4, FS_Singleton
    <3>2. actor.buildings = {h.building}
      BY <2>1, <2>2, <3>1
    <3>3. actor.floors = h.floors
      <4>1. {g.floors : g \in held} = {h.floors}
        BY <3>1
      <4> QED
        BY <2>2, <4>1 DEF Rights!MergeStringArrays
    <3>4. actor.contractor = h.contractor
      <4>1. firms = {h.contractor}
        BY <2>b, <3>1
      <4> QED
        BY <2>2, <4>1 DEF Rights!FirstNonNull
    <3>5. actor.createdBy = h.createdBy
      BY <2>1, <2>2, <3>1
    <3>6. Rights!InList(actor.buildings, x.building) <=> x.building = h.building
      BY <2>3, <3>2 DEF Rights!InList
    <3> QED
      BY <3>1, <3>3, <3>4, <3>5, <3>6 DEF Rights!RequireScope, Rights!Covers
  <2>5. ASSUME Cardinality(firms) <= 1, ~\E g \in held : g.createdBy,
               NEW g \in held, Rights!Covers(g, x)
        PROVE  Rights!RequireScope(actor, x)
    <3>1. Rights!InList(actor.buildings, x.building)
      BY <2>1, <2>2, <2>5 DEF Rights!InList, Rights!Covers
    <3>2. Rights!InList(actor.floors, x.floor)
      BY <2>2, <2>5 DEF Rights!InList, Rights!Covers, Rights!MergeStringArrays
    <3>3. actor.contractor = g.contractor
      <4>1. firms = {g.contractor}
        BY <2>1, <2>5, <2>b, AtMostOne
      <4> QED
        BY <2>2, <4>1 DEF Rights!FirstNonNull
    <3> QED
      BY <2>2, <2>5, <3>1, <3>2, <3>3 DEF Rights!RequireScope, Rights!Covers
  <2>6. Rights!ScopeWhere(actor, x) /\ (actor.createdBy => x.own) => Rights!RequireScope(actor, x)
    BY DEF Rights!ScopeWhere, Rights!RequireScope, Rights!InList
  <2>7. Rights!RequireScope(actor, x) /\ x.floor # "none" => Rights!ScopeWhere(actor, x)
    BY <2>3 DEF Rights!ScopeWhere, Rights!RequireScope, Rights!InList
  <2>8. ASSUME NEW p \in Permissions, Rights!Authorize(actor, p, x)
        PROVE  \E r \in enrolled \cup {g.role : g \in grants} : p \in rights[r]
    <3>1. PICK r \in enrolled \cup {g.role : g \in held} : p \in rights[r]
      BY <2>2, <2>8 DEF Rights!Authorize
    <3> QED
      BY <2>1, <3>1
  <2> QED
    BY <2>4, <2>5, <2>6, <2>7, <2>8, <2>a, <2>b
<1> QED
  BY <1>1, <1>2, <1>3

\* actor-resolver.ts:64-79 and policy.ts:33-73: whatever grants a user has, the actor he becomes has
\* what one grant gives and no more, several grants give at least what each of them gives, with the
\* limits stated there, and a list shows what can be opened one by one.
THEOREM ScopesCorrect ==
    ASSUME GrantsAreRows
    PROVE  Rights!Spec => []Rights!ScopesAgree
BY ScopeInductive, PTL DEF Rights!Spec, Rights!Init
-----------------------------------------------------------------------------
(* The estate: all of them side by side *)

\* A step of the estate is one of the part in focus, or leaves that part alone.
LEMMA PartSteps ==
    ASSUME [MCNext]_estateVars
    PROVE  /\ focus' = focus
           /\ focus = "lifecycle" => [Lifecycle!Next]_(Lifecycle!vars)
           /\ focus = "stock" => [Inventory!Next]_(Inventory!vars)
           /\ focus = "documents" => [Archive!Next]_(Archive!vars)
           /\ focus = "forms" => [Archive!Next]_(Archive!vars)
           /\ focus = "registers" => [Register!Next]_(Register!vars)
           /\ focus = "leasing" => [Occupancy!Next]_(Occupancy!vars)
           /\ focus = "admins" => [Occupancy!Next]_(Occupancy!vars)
           /\ focus = "occupants" => [Occupancy!Next]_(Occupancy!vars)
           /\ focus = "assets" => [Registry!Next]_(Registry!vars)
           /\ focus = "scans" => [Registry!Next]_(Registry!vars)
           /\ focus = "grants" => [Rights!Next]_(Rights!vars)
           /\ focus = "authority" => [Rights!Next]_(Rights!vars)
           /\ focus = "team" => [Team!Next]_(Team!vars)
<1>1. CASE UNCHANGED estateVars
  BY <1>1 DEF estateVars, lifecycleVars, stockVars, documentVars, formVars, registerVars, leasingVars, occupantVars,
         assetVars, scanVars, Lifecycle!vars, Inventory!vars, Archive!vars, Archive!paperVars, Archive!formVars,
         Register!vars, Occupancy!vars, Occupancy!leasingVars, Occupancy!occupierVars, Registry!vars,
         Registry!assetVars, Registry!scanVars, grantVars, authorityVars, teamVars, Rights!vars,
         Rights!grantVars, Rights!actorVars, Team!vars
<1>2. CASE MCNext
  <2>1. focus' = focus
    BY <1>2 DEF MCNext
  <2>2. focus = "lifecycle" => Lifecycle!Next
    BY <1>2 DEF MCNext
  <2>3. focus = "stock" => Inventory!Next
    BY <1>2 DEF MCNext
  <2>4. focus = "documents" => Archive!Next
    <3>1. focus = "documents" => Archive!PaperNext /\ UNCHANGED formVars
      BY <1>2 DEF MCNext
    <3> QED
      BY <3>1 DEF formVars, Archive!formVars, Archive!Next
  <2>5. focus = "forms" => Archive!Next
    <3>1. focus = "forms" => Archive!FormNext /\ UNCHANGED documentVars
      BY <1>2 DEF MCNext
    <3> QED
      BY <3>1 DEF documentVars, Archive!paperVars, Archive!Next
  <2>6. focus = "registers" => Register!Next
    BY <1>2 DEF MCNext
  <2>7. focus = "leasing" => Occupancy!Next
    <3>1. focus = "leasing" => Occupancy!AllocationNext /\ UNCHANGED occupantVars
      BY <1>2 DEF MCNext
    <3> QED
      BY <3>1 DEF occupantVars, Occupancy!occupierVars, Occupancy!LeasingNext, Occupancy!Next
  <2>8. focus = "admins" => Occupancy!Next
    <3>1. focus = "admins" => Occupancy!AdminNext /\ UNCHANGED occupantVars
      BY <1>2 DEF MCNext
    <3> QED
      BY <3>1 DEF occupantVars, Occupancy!occupierVars, Occupancy!LeasingNext, Occupancy!Next
  <2>9. focus = "occupants" => Occupancy!Next
    <3>1. focus = "occupants" => Occupancy!OccupierNext /\ UNCHANGED leasingVars
      BY <1>2 DEF MCNext
    <3> QED
      BY <3>1 DEF leasingVars, Occupancy!leasingVars, Occupancy!Next
  <2>10. focus = "assets" => Registry!Next
    <3>1. focus = "assets" => Registry!AssetNext /\ UNCHANGED scanVars
      BY <1>2 DEF MCNext
    <3> QED
      BY <3>1 DEF scanVars, Registry!scanVars, Registry!Next
  <2>11. focus = "scans" => Registry!Next
    <3>1. focus = "scans" => Registry!ScanNext /\ UNCHANGED assetVars
      BY <1>2 DEF MCNext
    <3> QED
      BY <3>1 DEF assetVars, Registry!assetVars, Registry!Next
  <2>12. focus = "grants" => Rights!Next
    <3>1. focus = "grants" => Rights!GrantNext /\ UNCHANGED authorityVars
      BY <1>2 DEF MCNext
    <3> QED
      BY <3>1 DEF authorityVars, Rights!actorVars, Rights!Next
  <2>13. focus = "authority" => Rights!Next
    <3>1. focus = "authority" => Rights!ActorNext /\ UNCHANGED grantVars
      BY <1>2 DEF MCNext
    <3> QED
      BY <3>1 DEF grantVars, Rights!grantVars, Rights!Next
  <2>14. focus = "team" => Team!Next
    BY <1>2 DEF MCNext
  <2> QED
    BY <2>1, <2>2, <2>3, <2>4, <2>5, <2>6, <2>7, <2>8, <2>9, <2>10, <2>11,
       <2>12, <2>13, <2>14
<1> QED
  BY <1>1, <1>2

\* buildings.service.ts:450-467, in the estate: an active building has been published and an archived one
\* has its date, for any buildings and any number of transitions that overlap.
THEOREM EstateStamps == MCSpec => []StampsMatchLife
<1> DEFINE Inv == focus = "lifecycle" => LifeInv
<1>1. MCInit => Inv
  BY LifeInductive DEF MCInit
<1>2. Inv /\ [MCNext]_estateVars => Inv'
  BY LifeInductive, PartSteps
<1>3. Inv => StampsMatchLife
  BY LifeInductive DEF StampsMatchLife
<1> QED
  BY <1>1, <1>2, <1>3, PTL DEF MCSpec

\* inventory.service.ts:225, in the estate: how far any number of overlapping calls oversell.
THEOREM EstateOversell == MCSpec => []OversellBound
<1> DEFINE Inv == focus = "stock" => StockInv
<1>1. MCInit => Inv
  BY StockInductive, EstateAssumption DEF MCInit
<1>2. Inv /\ [MCNext]_estateVars => Inv'
  BY StockInductive, EstateAssumption, PartSteps
<1>3. Inv => OversellBound
  BY StockInductive, EstateAssumption DEF OversellBound
<1> QED
  BY <1>1, <1>2, <1>3, PTL DEF MCSpec

\* documents.service.ts:89-91 and :158-169, in the estate: a document on legal hold can be read, for any
\* documents, contents and overlapping calls, but for the orders the code leaves open and a deletion cut half-way.
THEOREM EstateHeld == MCSpec => []HeldIsReadable
<1> DEFINE Inv == focus = "documents" => ArchiveInv
<1>1. MCInit => Inv
  BY ArchiveInductive DEF MCInit
<1>2. Inv /\ [MCNext]_estateVars => Inv'
  BY ArchiveInductive, PartSteps
<1>3. Inv => HeldIsReadable
  BY ArchiveInductive DEF HeldIsReadable
<1> QED
  BY <1>1, <1>2, <1>3, PTL DEF MCSpec

\* leases.service.ts:118-138, in the estate: the flag follows the allocations and the grant the administrator,
\* for any spots, companies and people, but for spots entered as leased, calls that were cut,
\* met another or are at it.
THEOREM EstateLeases == MCSpec => []LeasesAgree
<1> DEFINE Inv == focus \in {"leasing", "admins"} => LeaseInv
<1>1. MCInit => Inv
  BY LeaseInductive, EstateAssumption DEF MCInit
<1>2. Inv /\ [MCNext]_estateVars => Inv'
  BY LeaseInductive, EstateAssumption, PartSteps
<1>3. Inv => LeasesAgree
  BY LeaseInductive, EstateAssumption DEF LeasesAgree
<1> QED
  BY <1>1, <1>2, <1>3, PTL DEF MCSpec

\* approval-policies.service.ts:67-100, document-templates.service.ts:75-171, in the estate: for any number
\* of edits one version is in force but for edits that met, and a template in use is there.
THEOREM EstateInForce == MCSpec => []OneInForce
<1> DEFINE Inv ==
             /\ focus = "registers" => RegisterInv
             /\ focus = "forms" => FormInv
<1>1. MCInit => Inv
  BY RegisterInductive, FormInductive DEF MCInit
<1>2. Inv /\ [MCNext]_estateVars => Inv'
  BY RegisterInductive, FormInductive, PartSteps
<1>3. Inv => OneInForce
  BY RegisterInductive, FormInductive DEF OneInForce
<1> QED
  BY <1>1, <1>2, <1>3, PTL DEF MCSpec

\* assets.service.ts:265-375, occupants.service.ts:43-411, cleaning.qr.service.ts:163-296, in the estate: what
\* is registered is sound, a company is listed as its type says, and a code leads home, but for what was
\* edited, retyped, cut or taken over unchecked.
THEOREM EstateRegistered == MCSpec => []BuildingIsRegistered
<1> DEFINE Inv ==
             /\ focus = "assets" => AssetInv
             /\ focus = "occupants" => OccupierInv
             /\ focus = "scans" => ScanInv
<1>1. MCInit => Inv
  BY AssetInductive, OccupierInductive, ScanInductive, EstateAssumption DEF MCInit
<1>2. Inv /\ [MCNext]_estateVars => Inv'
  BY AssetInductive, OccupierInductive, ScanInductive, EstateAssumption, PartSteps
<1>3. Inv => BuildingIsRegistered
  BY AssetInductive, OccupierInductive, ScanInductive, EstateAssumption DEF BuildingIsRegistered
<1> QED
  BY <1>1, <1>2, <1>3, PTL DEF MCSpec

\* team.service.ts:201-234, iam.service.ts:164-354, actor-resolver.ts:64-79, in the estate: an inactive member
\* holds nothing, no chain of delegations widens a scope, and an actor has what his grants give.
THEOREM EstateRights == MCSpec => []RightsAreHeld
<1> DEFINE Inv ==
             /\ focus = "team" => TeamInv
             /\ focus = "grants" => GrantInv
             /\ focus = "authority" => ScopeInv
<1>1. MCInit => Inv
  BY TeamInductive, GrantInductive, ScopeInductive, EstateAssumption DEF MCInit
<1>2. Inv /\ [MCNext]_estateVars => Inv'
  BY TeamInductive, GrantInductive, ScopeInductive, EstateAssumption, PartSteps
<1>3. Inv => RightsAreHeld
  BY TeamInductive, GrantInductive, ScopeInductive, EstateAssumption DEF RightsAreHeld
<1> QED
  BY <1>1, <1>2, <1>3, PTL DEF MCSpec
=============================================================================
