-------------------------------- MODULE Fanout --------------------------------
(***************************************************************************)
(* From an event to the deliveries of it (NotificationsService             *)
(* .dispatchEvent and RecipientResolverService): the rules that match, the *)
(* people each rule is for, what they opted out of, and the row written    *)
(* for each with a key that folds a second one.  There is no transaction   *)
(* around the loop; an event whose dispatch failed is dispatched again.    *)
(***************************************************************************)
EXTENDS FiniteSets

CONSTANTS
    People,      \* team members
    Mailboxes,   \* addresses a payload names that are no member's
    Profiles,    \* what can be on file about a member, as records
    FirstProfile,
    NotifyRules, \* the active rules of the event type, as records
    Named,       \* members the payload names
    Dispatches   \* dispatches of the event that can be in progress

VARIABLES
    profile,     \* profile[m]: the member's row, grant, preferences and suppression
    delivery,    \* <<recipient, channel>> of the rows
    dispatch,    \* dispatch[s]: the statement it is at, with what it has read
    settled      \* recipients and channels a dispatch that came to its end was for

vars == <<profile, delivery, dispatch, settled>>

Channels == UNION {r.channels : r \in NotifyRules}
Recipients == People \cup Mailboxes
Waiting == [op |-> "idle"]

Init ==
    /\ profile = [m \in People |-> FirstProfile]
    /\ delivery = {}
    /\ dispatch = [s \in Dispatches |-> Waiting]
    /\ settled = {}
-----------------------------------------------------------------------------
(* RecipientResolverService *)

\* The OR of a scoped rule takes the place of the OR about the expiry of the grant.
HoldsRole(m, r) ==
    /\ profile[m].role = r.role
    /\ IF r.scope # {} THEN profile[m].where \cap r.scope # {} \/ profile[m].where = {}
       ELSE ~profile[m].expired

\* mutant: byTeamMemberIds takes members that were deactivated
ByAnyTeamMemberIds(ms) == ms

ByTeamMemberIds(ms) == {m \in ms : profile[m].active}

Candidates(r, c) ==
    IF r.strategy = "assignee" THEN ByTeamMemberIds(Named)
    ELSE IF r.strategy = "role" THEN ByTeamMemberIds({m \in People : HoldsRole(m, r) /\ profile[m].active})
    ELSE ByTeamMemberIds(Named) \cup {a \in Mailboxes : c = "email"}

\* A muted category is not carried: it mutes every template of the channel.
Muted(m, r, c) ==
    \E p \in profile[m].mutes :
        /\ p.channel = c
        /\ r.template # "none" => p.scope = "category" \/ p.scope = r.template

Resolve(r, c) ==
    {x \in Candidates(r, c) :
        x \in People =>
            /\ ~Muted(x, r, c)
            /\ c = "email" => profile[x].mail = "open"}
-----------------------------------------------------------------------------
(* dispatchEvent *)

\* What a dispatch is at with the rules and the recipients it has left
Writing(todo, done, channel, left) ==
    [op |-> IF left = {} THEN "rule" ELSE "write", todo |-> todo, done |-> done, channel |-> channel, left |-> left]

Dispatch(s) ==
    /\ dispatch[s].op = "idle"
    /\ dispatch' = [dispatch EXCEPT ![s] =
           Writing({t \in NotifyRules \X Channels : t[2] \in t[1].channels}, {}, "none", {})]
    /\ UNCHANGED <<profile, delivery, settled>>

ResolveRule(s) ==
    /\ dispatch[s].op = "rule"
    /\ \E t \in dispatch[s].todo :
           LET found == Resolve(t[1], t[2])
               done == dispatch[s].done \cup {<<x, t[2]>> : x \in found} IN
           dispatch' = [dispatch EXCEPT ![s] = Writing(@.todo \ {t}, done, t[2], found)]
    /\ UNCHANGED <<profile, delivery, settled>>

\* mutant: a row that is there already ends the loop over the recipients
CreateDeliveryOrStop(s) ==
    /\ dispatch[s].op = "write"
    /\ \E x \in dispatch[s].left :
           LET key == <<x, dispatch[s].channel>>
               left == IF key \in delivery THEN {} ELSE dispatch[s].left \ {x} IN
           /\ delivery' = delivery \cup {key}
           /\ dispatch' = [dispatch EXCEPT ![s] = Writing(@.todo, @.done, @.channel, left)]
    /\ UNCHANGED <<profile, settled>>

\* The dedup key is the event, the recipient and the channel, and no rule: a row that is
\* there already (P2002) is taken for this one.
CreateDelivery(s) ==
    /\ dispatch[s].op = "write"
    /\ \E x \in dispatch[s].left :
           /\ delivery' = delivery \cup {<<x, dispatch[s].channel>>}
           /\ dispatch' = [dispatch EXCEPT ![s] = Writing(@.todo, @.done, @.channel, @.left \ {x})]
    /\ UNCHANGED <<profile, settled>>

Finish(s) ==
    /\ dispatch[s].op = "rule"
    /\ dispatch[s].todo = {}
    /\ settled' = settled \cup dispatch[s].done
    /\ dispatch' = [dispatch EXCEPT ![s] = Waiting]
    /\ UNCHANGED <<profile, delivery>>

\* A statement throws or the process dies: the dispatcher takes the event again.
CutDispatch(s) ==
    /\ dispatch[s].op # "idle"
    /\ dispatch' = [dispatch EXCEPT ![s] = Waiting]
    /\ UNCHANGED <<profile, delivery, settled>>

Refile(m, p) == profile' = [profile EXCEPT ![m] = p] /\ UNCHANGED <<delivery, dispatch, settled>>

Next ==
    \/ \E s \in Dispatches :
           Dispatch(s) \/ ResolveRule(s) \/ CreateDelivery(s) \/ Finish(s) \/ CutDispatch(s)
    \/ \E m \in People, p \in Profiles : p # profile[m] /\ Refile(m, p)

Spec == Init /\ [][Next]_vars
-----------------------------------------------------------------------------
TypeOK ==
    /\ profile \in [People -> Profiles]
    /\ \A s \in Dispatches : dispatch[s].op \in {"idle", "rule", "write"}
    /\ delivery \cup settled \subseteq Recipients \X Channels

\* notifications.service.ts:56-142: everyone a dispatch that came to its end was for has a
\* delivery of the channel, however many dispatches of the event were cut short before.
RecipientsReached == settled \subseteq delivery

\* recipient-resolver.service.ts:60-189: a rule by role is for active members with a grant
\* in force, unless the rule is scoped to buildings (expired grants count then); nobody is
\* mailed who has no address, is suppressed or has muted the channel for the category.
ChosenAreEligible ==
    \A s \in Dispatches, r \in NotifyRules, c \in Channels : \A m \in People \cap Resolve(r, c) :
        /\ profile[m].active
        /\ r.strategy = "role" => profile[m].role = r.role /\ (profile[m].expired => r.scope # {})
        /\ c = "email" => profile[m].mail = "open"
        /\ [channel |-> c, scope |-> "category"] \notin profile[m].mutes
=============================================================================
