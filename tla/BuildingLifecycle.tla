------------------------- MODULE BuildingLifecycle -------------------------
(***************************************************************************)
(* The life of a building row: BuildingsService creates it as a draft with *)
(* the rows that belong to it, publishes, archives, reactivates and        *)
(* destroys it.  Every call reads the row, checks it and writes it by id,  *)
(* so calls overlap between the read and the write.                        *)
(***************************************************************************)
EXTENDS Naturals, FiniteSets

CONSTANTS
    Slots,      \* calls of the buildings API in progress at the same time
    Buildings   \* building ids; one slug each

VARIABLES
    life,      \* life[b]: lifecycleStatus; "none": no such row yet; "gone": destroyed
    stamps,    \* stamps[b]: which of publishedAt and archivedAt are set
    setup,     \* setup[b]: the rows create() has made beside the building
    calls,     \* calls[s]: the call in slot s, with what it has read
    createCut  \* history: buildings whose create() was cut short

vars == <<life, stamps, setup, calls, createCut>>

NoCall == [op |-> "none", b |-> "none", from |-> "none", stamped |-> FALSE]

Rows == {b \in Buildings : life[b] \in {"draft", "active", "archived"}}

Init ==
    /\ life = [b \in Buildings |-> "none"]
    /\ stamps = [b \in Buildings |-> {}]
    /\ setup = [b \in Buildings |-> {}]
    /\ calls = [s \in Slots |-> NoCall]
    /\ createCut = {}
-----------------------------------------------------------------------------
\* The slug is looked up, then the row is inserted; the unique key of the slug
\* makes the two one.
Create(s, b) ==
    /\ calls[s] = NoCall
    /\ life[b] = "none"
    /\ life' = [life EXCEPT ![b] = "draft"]
    /\ calls' = [calls EXCEPT ![s] = [NoCall EXCEPT !.op = "settings", !.b = b]]
    /\ UNCHANGED <<stamps, setup, createCut>>

\* What follows the insert: one row after the other.  Each needs the building
\* still to be there; the backlog's failure is logged and nothing else.
After(row) ==
    CASE row = "settings" -> "manager"
      [] row = "manager" -> "backlog"
      [] row = "backlog" -> "none"

CreateRest(s) ==
    /\ calls[s].op \in {"settings", "manager", "backlog"}
    /\ LET b == calls[s].b
           row == calls[s].op
       IN  \/ /\ b \in Rows
              /\ setup' = [setup EXCEPT ![b] = @ \cup {row}]
              /\ calls' = [calls EXCEPT ![s] =
                     IF row = "backlog" THEN NoCall ELSE [@ EXCEPT !.op = After(row)]]
              /\ UNCHANGED <<createCut>>
           \/ /\ createCut' = IF row = "backlog" THEN createCut ELSE createCut \cup {b}
              /\ calls' = [calls EXCEPT ![s] = NoCall]
              /\ UNCHANGED setup
    /\ UNCHANGED <<life, stamps>>

Transitions ==
    [draft |-> {"active", "archived"}, active |-> {"archived"}, archived |-> {"active"}]

\* publishBuilding and reactivateBuilding ask for "active", archiveBuilding for
\* "archived".
ReadForTransition(s, b, to) ==
    /\ calls[s] = NoCall
    /\ b \in Rows
    /\ to \in Transitions[life[b]]
    /\ calls' = [calls EXCEPT ![s] = [op |-> to, b |-> b, from |-> life[b],
                                      stamped |-> "published" \in stamps[b]]]
    /\ UNCHANGED <<life, stamps, setup, createCut>>

\* mutant: publishedAt is only written on the way out of draft
StampPublishedFromDraft(call, old) ==
    IF call.op = "archived" THEN old \cup {"archived"}
    ELSE (IF call.from = "draft" THEN old \cup {"published"} ELSE old)
         \ (IF call.from = "archived" THEN {"archived"} ELSE {})

Stamp(call, old) ==
    IF call.op = "archived" THEN old \cup {"archived"}
    ELSE (IF call.stamped THEN old ELSE old \cup {"published"})
         \ (IF call.from = "archived" THEN {"archived"} ELSE {})

\* The write is by id; a row destroyed meanwhile makes it throw.
WriteTransition(s) ==
    /\ calls[s].op \in {"active", "archived"}
    /\ LET b == calls[s].b IN
           IF b \in Rows
           THEN /\ life' = [life EXCEPT ![b] = calls[s].op]
                /\ stamps' = [stamps EXCEPT ![b] = Stamp(calls[s], @)]
           ELSE UNCHANGED <<life, stamps>>
    /\ calls' = [calls EXCEPT ![s] = NoCall]
    /\ UNCHANGED <<setup, createCut>>

\* deleteBuilding: an owner who types the name; one cascading delete.
Delete(b) ==
    /\ b \in Rows
    /\ life' = [life EXCEPT ![b] = "gone"]
    /\ stamps' = [stamps EXCEPT ![b] = {}]
    /\ setup' = [setup EXCEPT ![b] = {}]
    /\ UNCHANGED <<calls, createCut>>

Next ==
    \/ \E s \in Slots, b \in Buildings :
           Create(s, b) \/ \E to \in {"active", "archived"} : ReadForTransition(s, b, to)
    \/ \E s \in Slots : CreateRest(s) \/ WriteTransition(s)
    \/ \E b \in Buildings : Delete(b)

Spec == Init /\ [][Next]_vars
-----------------------------------------------------------------------------
TypeOK ==
    /\ life \in [Buildings -> {"none", "draft", "active", "archived", "gone"}]
    /\ stamps \in [Buildings -> SUBSET {"published", "archived"}]
    /\ setup \in [Buildings -> SUBSET {"settings", "manager", "backlog"}]
    /\ calls \in [Slots -> [op : {"none", "settings", "manager", "backlog", "active", "archived"},
                            b : Buildings \cup {"none"},
                            from : {"none", "draft", "active", "archived"},
                            stamped : BOOLEAN]]
    /\ createCut \subseteq Buildings

\* buildings.service.ts:450-467: whatever transitions overlap, an active building
\* has the time of its publication and an archived one that of its archival.
StampsMatchLife ==
    \A b \in Buildings :
        /\ life[b] = "active" => "published" \in stamps[b]
        /\ life[b] = "archived" => "archived" \in stamps[b]
        /\ life[b] = "draft" => stamps[b] = {}

\* A building that no create() is busy with has its settings and its first manager,
\* unless the create() was cut short, after which the slug is taken for good.
SetUpUnlessCut ==
    \A b \in Rows :
        b \in createCut \/ {"settings", "manager"} \subseteq setup[b]
                  \/ \E s \in Slots : calls[s].b = b /\ calls[s].op \in {"settings", "manager"}
=============================================================================
