------------------------------- MODULE SignIn -------------------------------
(***************************************************************************)
(* How a person proves who he is besides a password: with an identity      *)
(* provider, and with a second factor.                                     *)
(***************************************************************************)
EXTENDS Naturals, FiniteSets

CONSTANTS
    States,   \* login states
    Arrivals, \* callbacks that can be in progress
    Secrets,  \* secrets that can be made
    Tabs      \* calls that can be in progress

VARIABLES
    provider, \* "none", "active" or "inactive"
    state,    \* state[x]: "new", "out" (a row), "old" (a row that has expired) or "gone"
    linked,   \* the identity has its row
    belongs,  \* the user of the identity has a membership
    opened,   \* opened[x]: sessions issued on state x
    arrival,  \* arrival[a]: the state it came with and the statement it is at
    halted,   \* history: a call was cut short between the link and the membership, or
              \* the membership was taken away
    reused,   \* history: states that two calls had at a time, or that a call was cut short
              \* on between the session and their deletion
    factor,   \* the row: its secret and whether it is enabled, or NoFactor
    device,   \* the secrets the user's device has codes for
    tab,      \* tab[s]: the statement call s is at, with what it has read
    proven,   \* history: secrets a code was checked of
    dropped,  \* history: secrets in use that a call took away without a code of them
    mixed     \* history: secrets a call wrote or wrote over on a row that had changed after it read it

-----------------------------------------------------------------------------
(***************************************************************************)
(* Signing in with an identity provider (SsoService): the provider's row,  *)
(* the state that goes out with a visitor and comes back with the code,    *)
(* and what the way back writes, statement by statement, with no           *)
(* transaction: the link to the identity, the membership, the session, and *)
(* last the state is deleted.  One identity of one provider.               *)
(***************************************************************************)

providerVars == <<provider, state, linked, belongs, opened, arrival, halted, reused>>

Nobody == [at |-> "idle", with |-> "none"]
MaxOpened == 2     \* bound

ProviderInit ==
    /\ provider = "none"
    /\ state = [x \in States |-> "new"]
    /\ linked = FALSE
    /\ belongs = FALSE
    /\ opened = [x \in States |-> 0]
    /\ arrival = [a \in Arrivals |-> Nobody]
    /\ halted = FALSE
    /\ reused = {}

To(a, step) == arrival' = [arrival EXCEPT ![a].at = step]
-----------------------------------------------------------------------------
\* One row for a key: the second call changes the first one's.
UpsertProvider(active) ==
    /\ provider' = IF active THEN "active" ELSE "inactive"
    /\ UNCHANGED <<state, linked, belongs, opened, arrival, halted, reused>>

BuildAuthorizeUrl(x) ==
    /\ provider = "active"
    /\ state[x] = "new"
    /\ state' = [state EXCEPT ![x] = "out"]
    /\ UNCHANGED <<provider, linked, belongs, opened, arrival, halted, reused>>

\* Ten minutes pass.
Expire(x) ==
    /\ state[x] = "out"
    /\ state' = [state EXCEPT ![x] = "old"]
    /\ UNCHANGED <<provider, linked, belongs, opened, arrival, halted, reused>>
-----------------------------------------------------------------------------
(* handleCallback *)

\* A state that has expired is deleted and refused; whether the provider is active is not asked.
Callback(a, x) ==
    /\ arrival[a] = Nobody
    /\ IF state[x] = "old"
       THEN state' = [state EXCEPT ![x] = "gone"] /\ UNCHANGED arrival
       ELSE /\ state[x] = "out"
            /\ arrival' = [arrival EXCEPT ![a] = [at |-> "exchange", with |-> x]]
            /\ UNCHANGED state
    /\ reused' = IF state[x] = "out" /\ \E o \in Arrivals : arrival[o].with = x
                 THEN reused \cup {x} ELSE reused
    /\ UNCHANGED <<provider, linked, belongs, opened, halted>>

\* The identity is looked up when the provider has answered; one that is known has its user.
Exchange(a) ==
    /\ arrival[a].at = "exchange"
    /\ To(a, IF linked THEN "session" ELSE "link")
    /\ UNCHANGED <<provider, state, linked, belongs, opened, halted, reused>>

\* The unique key refuses a second link, and the call fails.
Link(a) ==
    /\ arrival[a].at = "link"
    /\ linked' = TRUE
    /\ arrival' = [arrival EXCEPT ![a] = IF linked THEN Nobody ELSE [@ EXCEPT !.at = "member"]]
    /\ UNCHANGED <<provider, state, belongs, opened, halted, reused>>

\* Only the call that made the link sees to the membership.
Join(a) ==
    /\ arrival[a].at = "member"
    /\ belongs' = TRUE
    /\ To(a, "session")
    /\ UNCHANGED <<provider, state, linked, opened, halted, reused>>

IssueSession(a) ==
    /\ arrival[a].at = "session"
    /\ opened[arrival[a].with] < MaxOpened
    /\ opened' = [opened EXCEPT ![arrival[a].with] = @ + 1]
    /\ To(a, "consume")
    /\ UNCHANGED <<provider, state, linked, belongs, halted, reused>>

\* mutant: the state is kept
ConsumeNothing(a) ==
    /\ arrival[a].at = "consume"
    /\ arrival' = [arrival EXCEPT ![a] = Nobody]
    /\ UNCHANGED <<provider, state, linked, belongs, opened, halted, reused>>

\* The row is there or the delete fails: the session has been issued either way.
Consume(a) ==
    /\ arrival[a].at = "consume"
    /\ state' = [state EXCEPT ![arrival[a].with] = "gone"]
    /\ arrival' = [arrival EXCEPT ![a] = Nobody]
    /\ UNCHANGED <<provider, linked, belongs, opened, halted, reused>>

\* The provider refuses the code, a statement throws or the process dies.
Halt(a) ==
    /\ arrival[a] # Nobody
    /\ arrival' = [arrival EXCEPT ![a] = Nobody]
    /\ halted' = (halted \/ arrival[a].at = "member")
    /\ reused' = IF arrival[a].at = "consume" THEN reused \cup {arrival[a].with} ELSE reused
    /\ UNCHANGED <<provider, state, linked, belongs, opened>>

\* ScimService takes the membership away.
Leave ==
    /\ belongs
    /\ belongs' = FALSE
    /\ halted' = TRUE
    /\ UNCHANGED <<provider, state, linked, opened, arrival, reused>>

ProviderNext ==
    \/ \E active \in BOOLEAN : UpsertProvider(active)
    \/ \E x \in States : BuildAuthorizeUrl(x) \/ Expire(x)
    \/ \E a \in Arrivals :
           \/ \E x \in States : Callback(a, x)
           \/ Exchange(a) \/ Link(a) \/ Join(a) \/ IssueSession(a) \/ Consume(a) \/ Halt(a)
    \/ Leave
-----------------------------------------------------------------------------
(***************************************************************************)
(* The second factor of a user (MfaService): a secret is made and shown,   *)
(* kept by the user's device, verified once and from then on asked for.    *)
(* Each call reads the row, checks, and writes by user id.                 *)
(***************************************************************************)

factorVars == <<factor, device, tab, proven, dropped, mixed>>

NoFactor == [secret |-> "none", enabled |-> FALSE]
Open == [op |-> "idle", secret |-> "none", read |-> NoFactor]

FactorInit ==
    /\ factor = NoFactor
    /\ device = {}
    /\ tab = [s \in Tabs |-> Open]
    /\ proven = {}
    /\ dropped = {}
    /\ mixed = {}

At(s, op) == tab[s].op = op
Fresh(x) == x # factor.secret /\ x \notin device /\ \A s \in Tabs : tab[s].secret # x
VerifyTotp(secret) == secret \in device  \* a code of the moment, whichever secret it is of

Goto(s, op, secret) == tab' = [tab EXCEPT ![s] = [op |-> op, secret |-> secret, read |-> factor]]
Write(s, row) ==
    /\ factor' = row
    /\ tab' = [tab EXCEPT ![s] = Open]
    /\ dropped' = dropped \cup {x \in {factor.secret} : factor.enabled /\ ~row.enabled /\ ~At(s, "delete")}
    /\ mixed' = mixed \cup {x \in {factor.secret, row.secret} : tab[s].read # factor}

\* mutant: enrolling does not ask whether there is a factor in use
EnrollStartAnew(s, x) ==
    /\ At(s, "idle") /\ Fresh(x)
    /\ Goto(s, "upsert", x)
    /\ UNCHANGED <<factor, device, proven, dropped, mixed>>

EnrollStart(s, x) ==
    /\ At(s, "idle") /\ Fresh(x)
    /\ ~factor.enabled
    /\ Goto(s, "upsert", x)
    /\ UNCHANGED <<factor, device, proven, dropped, mixed>>

\* The upsert takes whatever row there is by now, and the secret is shown.
UpsertSecret(s) ==
    /\ At(s, "upsert")
    /\ Write(s, [secret |-> tab[s].secret, enabled |-> FALSE])
    /\ device' = device \cup {tab[s].secret}
    /\ UNCHANGED proven

EnrollVerify(s) ==
    /\ At(s, "idle")
    /\ factor # NoFactor
    /\ VerifyTotp(factor.secret)
    /\ Goto(s, "enable", "none")
    /\ proven' = proven \cup {factor.secret}
    /\ UNCHANGED <<factor, device, dropped, mixed>>

\* The update throws when the row is gone.
Enable(s) ==
    /\ At(s, "enable")
    /\ Write(s, IF factor = NoFactor THEN NoFactor ELSE [factor EXCEPT !.enabled = TRUE])
    /\ UNCHANGED <<device, proven>>

Disable(s) ==
    /\ At(s, "idle")
    /\ factor.enabled
    /\ VerifyTotp(factor.secret)
    /\ Goto(s, "delete", "none")
    /\ UNCHANGED <<factor, device, proven, dropped, mixed>>

DeleteFactor(s) ==
    /\ At(s, "delete")
    /\ Write(s, NoFactor)
    /\ UNCHANGED <<device, proven>>

\* The user's device forgets what it was shown.
ResetDevice == device' = {} /\ UNCHANGED <<factor, tab, proven, dropped, mixed>>

CutTab(s) ==
    /\ ~At(s, "idle")
    /\ tab' = [tab EXCEPT ![s] = Open]
    /\ UNCHANGED <<factor, device, proven, dropped, mixed>>

FactorNext ==
    \/ \E s \in Tabs :
           \/ \E x \in Secrets : EnrollStart(s, x)
           \/ UpsertSecret(s) \/ EnrollVerify(s) \/ Enable(s) \/ Disable(s) \/ DeleteFactor(s) \/ CutTab(s)
    \/ ResetDevice
-----------------------------------------------------------------------------
vars == <<providerVars, factorVars>>

Init == ProviderInit /\ FactorInit

\* The parts share no rows; a step is one of either.
Next ==
    \/ ProviderNext /\ UNCHANGED factorVars
    \/ FactorNext /\ UNCHANGED providerVars

Spec == Init /\ [][Next]_vars
-----------------------------------------------------------------------------
ProviderTypeOK ==
    /\ provider \in {"none", "active", "inactive"}
    /\ state \in [States -> {"new", "out", "old", "gone"}]
    /\ opened \in [States -> 0..MaxOpened]
    /\ \A a \in Arrivals : arrival[a].at \in {"idle", "exchange", "link", "member", "session", "consume"}

\* sso.service.ts:187-345: whoever was given a session is linked, and belongs to the workspace,
\* unless the call that made the link was cut short before the membership (no later call
\* makes it) or has not come to it while another gives out a session; and a state that went
\* out opens one session, unless two calls had it or one was cut short before deleting it.
SignInsAreWhole ==
    \A x \in States :
        /\ opened[x] > 0 => linked /\ (belongs \/ halted \/ \E a \in Arrivals : arrival[a].at = "member")
        /\ opened[x] > 1 => x \in reused

FactorTypeOK ==
    /\ factor \in [secret : Secrets \cup {"none"}, enabled : BOOLEAN]
    /\ device \cup proven \subseteq Secrets
    /\ dropped \cup mixed \subseteq Secrets \cup {"none"}
    /\ \A s \in Tabs : tab[s].op \in {"idle", "upsert", "enable", "delete"}

\* mfa.service.ts:27-57: the secret in use is one the user gave a code of, and a secret in
\* use is not replaced, unless a call wrote on a row another call had changed since.
FactorIsProven ==
    /\ factor.enabled => factor.secret \in proven \cup mixed
    /\ dropped \subseteq mixed

TypeOK == ProviderTypeOK /\ FactorTypeOK
=============================================================================
