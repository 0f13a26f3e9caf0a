# domera-backend in TLA+

domera-backend is a NestJS service for property and facility management. Its
modules share one Postgres database through Prisma and meet at run time in two
ways only: they read and write each other's rows, and they subscribe to each
other's events through an outbox table. There is hardly any transaction that
spans more than one statement. A request handler reads a row, checks it, and
writes it *by id* with an `await` at every step. What is hard in this code is
therefore not inside a function but between two lines of it: another request,
the dispatcher, a crash or a throwing statement in between.

This directory holds models of the parts where that matters, the TLC instances
that check them, and proofs, for every value of their constants, of every
safety property the instances check. `PROJECT.json` maps every definition to the lines it translates and
lists the components, the hazards, the runs and the theorems.

    tlc -workers 2 -config OutboxSingle.cfg MCOutbox     # a run
    tlapm Outbox_proofs.tla                              # the proofs of a module

Paths below are relative to `src/src/modules/` unless they start otherwise.

## 1. The system

### How the parts interact

| Interaction | Where | What it leaves open |
|---|---|---|
| outbox event | a producer inserts a row (`events/outbox.service.ts`), the poll timer of `events/outbox.dispatcher.ts` calls every subscriber in turn | the insert is a statement of its own, after the change it announces; subscribers are called again when any one of them throws |
| shared row | `TaskInstance` is written by `ppm`, `tasks` and a subscriber; `WorkOrder` by `reactive` and its subscribers; `ApprovalRequest` by `approvals`, made by `ppm`; role grants by `team`, `role-assignments`, `iam` and `leases` | a check made on a read is stale by the time of the write |
| direct call | `ppm` calls `approvals.createRequest`; `buildings` and `onboarding` seed rows of other modules | the writes around it are not one |
| timer | the outbox poll, the delivery poll, the SLA reminder, the trigger scan | guarded by a flag in the process; awaited calls interleave with requests |
| map in the process | the tenant middleware keeps answers about sessions, memberships and tenants | an answer outlives what it is about |
| external call | a mail adapter, object storage, an identity provider, an ERP | its effect stays when the statement after it fails |
| repeated call | mail and gateway webhooks, ERP imports, QR scans, wizards that are run again | what was made by the first call must be found by the second |

Subscribers of the outbox (`events/outbox.registry.ts`): `ppm.expense.requested`
goes to `approvals` and to `reactive`; `approval.granted` to `reactive`;
`completion.recorded`, `asset.created` and `invoice.paid` to `ppm`;
`ppm.case.closed` to `assets`; `invite.accepted` to `iam`; and
`notifications.subscribers.ts` adds a handler of its own to a list of types.

### Inventory

State is rows of Postgres unless it says otherwise.

| Component | State | Operations | Hard behaviour | Correct when | Module |
|---|---|---|---|---|---|
| Event outbox | `outbox_events`; `running` in memory | publish, tick, dispatch, mark, retry, give up, restart | throwing handlers, failing marks, crashes, redelivery, order of retries | bounded redelivery; everything settles; the promise is kept | `Outbox` |
| Notification delivery | `notification_deliveries`; `busy` in memory | fetch, claim, send, audit, reschedule, dead-letter | two workers, a mail sent before the row says so, a crash while a row is claimed | one holder per row; sent means received; bounded copies; settles unless its worker was lost | `NotificationDelivery` |
| Notification fan-out | rules, preferences, opt-outs | match, resolve, deduplicate, create | a dispatch cut short and repeated; a filter that replaces another | everyone meant is reached; nobody else | `Fanout` |
| Approvals, delegations, policies | request, steps, delegations, versions | approve in a role, as a substitute or by override; delegate; edit a policy | overlapping signatures, a delegation that ends meanwhile, two edits of one version | approved means all steps, in order, with authority; one version in force | `ApprovalChain`, `Registers` |
| Vendor expense of a task | task, request, work order, completion, audit | request, approve, complete, five subscribers | at-least-once events out of order across five modules | one chain and one order per task; sent out only and always after approval | `ExpenseFlow` |
| PPM case | `TaskInstance` (two state fields), execution log, request | twelve stage operations, review, vendor close, field operations | three writers of one row; submission in three statements | nothing ordered unapproved; finished stays finished but for a call that was overtaken | `PpmTask` |
| PPM programme, recurrence, reminders, obligations | templates, plan items, blackouts, notifications, obligations | wizard, seed, baseline, completion, scan, evaluate | rows written one after the other, date arithmetic at its limits, repeated scans | a template has an item; a due date can be worked on; whoever a scan meant is reminded; what applies is known | `PpmProgramme`, `PpmCalendar` |
| Tasks: inbox, comments | task rows, reader's cursor | page, comment, start, complete | pages of a list that changes | a page does not repeat rows | `WorkLists` |
| Service desk | incident, service request, quote, work order, inbound mail | report, acknowledge, triage, convert, resolve, post, parse | conversion in four statements, status not looked at, repeated posts | what a status says is there; a mail is one row; the queue is in order | `ReactiveIntake`, `WorkLists` |
| Purchase orders, vendor invoices | purchase order, completions, invoice | issue, complete, match, approve, pay | a match that races an approval, an order issued during a completion | matcher is not approver; no over-amount slips through | `Procurement` |
| Invites, IAM | invite, user, membership | create, revoke, accept, expire; the subscriber | overlapping accepts, a swallowed error, unique-key races, redelivery | a spent token became a membership; bounded spending | `InviteAccess` |
| Rights | role assignments, members, custom roles, building grants | assign, edit, revoke, deactivate, delegate, resolve | a deactivation against an assignment; chains of delegation | the inactive hold nothing; nobody rises by delegating; a list agrees with the single check | `TeamRoles`, `Authority` |
| Accounts and sign-in | users, sessions, erasure requests, MFA secret, SSO state; maps of the middleware | log in, switch, erase, enrol, call back, let in | an erasure against a login, a stale answer, a callback twice | an erased user has no session; a factor is proven; an answer is fresh; a sign-in is whole | `Accounts`, `SignIn` |
| Assignment of cases | floor assignments, availability | assign, be away, resolve | two primaries appointed at once | primaries are bounded; nobody away or foreign is chosen | `FloorDuty` |
| Cleaning | zones, contractors, staff, requests | open by QR, assign, move, finish | public and staff calls on one row | what is closed stays closed; who sees it may | `Cleaning` |
| Buildings | building, its structure rows, assets, QR points | create in steps, publish, archive, destroy; regroup; register; scan | transitions overlap, destruction leaves references, one code in two buildings | dates match the life; looked-up references stay inside the building until they are patched; a point leads home | `BuildingLifecycle`, `BuildingStructure`, `BuildingRegister` |
| Leases and occupants | contracts, allocations, `isLeased`, company admin and its grant | allocate, remove, set admin, edit a company | a count that goes stale, a revocation of a predecessor | the flag says whether there is an allocation, once a call has set it; the grant is the admin's | `Occupancy` |
| Inventory | movements | receive, issue, transfer, adjust | stock read before it is changed | overselling is bounded | `Stock` |
| Documents, templates | rows and stored objects, legal hold, signed links | two-step upload, hold, delete, redeem | an object that several rows name; a deletion in two statements | what is held can be read | `Documents` |
| Onboarding, imports, takeover | drafts, jobs, templates, sign-off log | bootstrap, finalise, commit, roll back, sign | partial commits and rollbacks, a log written back whole | a committed job is whole; a workspace has its owner; a building opens after the whole chain | `Onboarding`, `Imports`, `Takeover` |
| Projects, emergency overrides | stage and class histories, lines, packs, decisions | convert, advance, sign, decide, ratify | signatures and decisions checked on an old row | accepted by three, also against a late submission or rejection; decided by another; the books balance | `Projects` |
| Connectors, condition triggers | vendors, incidents, invoices, readings | upsert, post, export, evaluate | two imports at once, readings out of order | one row per name; a file is complete; a cooldown holds | `Connectors` |
| Rounds and scanner | rounds, waypoints, walks | create with waypoints, add, delete | a loop of inserts that is cut; an order given meets a running number; two adds read one last waypoint | a round has all its waypoints unless a call halted | `FloorDuty`, `BuildingRegister` |
| Audit log, compliance board | audit entries; no state of its own | write, search by pages, export; aggregate | paging while rows are added; rounding | a search shows everything; shares add up | `Reports` |
| Dashboards, metrics, plumbing, devices, run-time seed | — | read-only aggregates, request plumbing, single upserts | — | nothing to violate | none |

`PROJECT.json` has all 49 components with their files and what each leaves out,
and the hazards met in the code at their lines.

## 2. The modules

Every module takes the part of the program that can be interleaved apart into
the statements the process awaits. A *slot* (also a desk, a clerk, a tab, a
walker: each module says) is a server-side call in progress: it is idle, or it
has read and checked and is about to write. Where nothing awaits between the
check and the write, or where the statements are one transaction, a handler is
one action. A bound named `Max...` is a bound of the model; the actions that stop
a call half-way (`Stop`, `Crash`, `Throw`, `Cut...`) leave the writes made so far.
A history variable is marked `history` where it is declared; it is read by
properties only, mostly to say in which case the code does *not* keep its word.

A module that joins neighbouring services has one set of variables, an initial
predicate and a next-state relation for each (`LeasingInit`, `LeasingNext`, ...), and
`Next` is their interleaving. Module, part and code correspond as follows.

### Events, notifications, approvals, maintenance, invites, purchasing

`EventDelivery` is the promise: a published event is pending until every
subscriber has completed for it or it is given up, and never changes after
that; a subscriber may complete any number of times.

`Outbox` is the pipeline. `Commit`, `Publish` and `ProducerStops` are the producer,
with the change and the insert as two statements, as all producers have them.
`StartTick`, `NextRow`, `HandlerReturns`, `HandlerThrows`, `MarkDelivered`,
`MarkRetryOrFailed`, `EndTick` are `OutboxDispatcher.tick` statement by statement;
`pc[p] = "idle"` is `running = false`. `MarkThrows` is a mark that ends the tick in
the catch of the timer, `Crash` and `Restart` a process death. `seen` keeps the
attempt counter as the tick read it, because the code adds to that value and
not to the row's. Rows are ordered by `createdAt`, which the model takes from a
clock. `Promise == INSTANCE EventDelivery WITH status <- status, handled <- handled`
is the refinement: `ImplementsPromise` says that the detailed pipeline, with its
batches, cursors and crashes, only ever does what the promise allows.

`NotificationDelivery` is the worker. `Fetch`, `Claim`, `SkipRaced`, `Send`,
`SendRefused`, `RecordSent`, `AuditSent`, `Reschedule`, `DeadLetter`, `AuditDead` are
`processPending`, `deliverEmail` and `markFailed`. `copies` counts mails the adapter
accepted, so a mail sent by a call that then throws is counted and sent again.
`due` is `scheduledAt <= now`, which `BecomeDue` makes true at any time after
`Reschedule` made it false: the model abstracts the length of the backoff, not
that there is one. `IsBatch` keeps the query's order by the *text* of the priority.

`Fanout` stands before it: `Dispatch`, `ResolveRule`, `CreateDelivery`, `Finish` and
`CutDispatch` are the loop of `dispatchEvent` over rules, recipients and channels,
with the key that folds a second row for one recipient; `Refile` changes what is
on file about a person (active, role, its expiry, buildings, suppression, mutes).

`ApprovalChain` is one request; each slot runs `approve()`: `BeginInRole` and
`BeginForAnother` read the request, `LookupAllows` and `LookupRefuses` the delegation
and the limits, then `Sign`, `Reread`, `WriteStatus`, `AuditAndGoOn`, `Publish` one
statement each. Amounts keep their value, since the limits (25,000 and 50,000)
decide. `Registers` has the versioned rows beside it: an edit of a policy or of a
data-processing template reads the newest version and writes the next.

`ExpenseFlow` is the flow over five modules of one task: producers with read, write
and publish apart (`Read`, `WriteStatus`, `WriteQuote`, `Approve`, `RecordCompletion`,
`Publish`), the event log in order, and a dispatcher whose `line` is the statement
of the subscriber it is at (`FindRequest`, `CreateRequest`, `FindOrder`,
`CreateOrder`, `FindPendingOrder`, `DispatchOrder`, `ReadTask`, `CloseTask`,
`PublishClosed`, `AuditAsset`). It composes what `Outbox` and `ApprovalChain` treat
alone: approve() is one step here and the dispatcher is one process, but
retries, partial runs of a subscriber and their order are kept.

`PpmTask` is one execution: the stage moves of `PpmService` by table (`From`, `To`)
with the checks of each operation, submission in its four statements (`Submit`,
`CheckSubmitter`, `CreateRequest`, `Attach`), completion and its review, the three
field operations of `TasksService`, which write stage and status beside it, and
`VendorCloses`, the subscriber. Every call reads the task, checks, and writes it by
id: nothing keeps the calls of the three services apart, and a slot may run any of
them beside any other. `overtaken` (a history variable) are the calls whose task
another has written since they read it, and `torn` says that such a call has
written, and none has written stage and status together since.

`InviteAccess` has two invites for one address: `Create`, `Revoke`, `Accept` read,
`WriteInvite`, `WriteStatus` and `Publish` write; `Age` lets the expiry pass. The
subscriber of `invite.accepted` is its statements (`FindUser`, `CreateUser`,
`FindMembership`, `CreateMembership`, `Enrich`, `MarkDelivered`), `HandlerThrows` its
catch-all, and `OthersCreateUser` the registration that may win the race for the
unique key.

`Procurement` is one purchase order and its invoice. `IssuePurchaseOrder` and
`CreateInvoice` are one insert each; a completion, a match and an approval each
read and then write. A work order id is taken as the caller sends it: there is
no foreign key and no lookup, so work orders themselves have no state here. The
quote a purchase order may cite must be `approved`, which no code ever writes, so
the model has the orders without a quote only. Amounts are positive integers;
the tolerance of two per cent is compared exactly, as
`50 * |a - b| <= max(b, 1)`.

### Buildings, rights and records (run Estate)

| Module, part | Code | State and actions | Property |
|---|---|---|---|
| `BuildingLifecycle` | `buildings.service.ts` | a building row, its dates and the rows `create` makes beside it; publish, archive, reactivate, destroy, settings, each read and then write | `StampsMatchLife` |
| `Occupancy`, Leasing | `leases.service.ts`, `tenant-companies.service.ts` | allocations, the `isLeased` flag, which the body that makes a spot may set (`building-core.service.ts:764`, `:801`), the administrator of a company and the grant; `Flag`, `Recount`, `Clear`, `ReadAdmin`, `SetAdmin`, `RevokePrior`, `Grant` are the statements of two calls that may overlap | `LeasesAgree` |
| `Occupancy`, Occupier | `occupants.service.ts` | companies of a building, their type, settings and managers | `OccupiersAreListed` |
| `Stock` | `inventory.service.ts` | the sum of the movements; a movement is checked and then inserted | `OversellBound` |
| `PpmProgramme`, Programme | `ppm.service.ts` (programme, wizard, seeds, baseline, suggestions) | templates, plan items, exemptions; the statements of each wizard call | `TemplatesHaveItems` |
| `PpmProgramme`, Obligation | `obligations/applicability.service.ts`, `ppm.service.ts` (catalog) | automatic and marked rows, an evaluation in progress, what the wizard shows | `ObligationsAreKnown` |
| `PpmCalendar`, Date | `ppm/engine/blackout.ts`, `calendar-blackouts`, handlers of `ppm.service.ts` | a due date, the blackout rows, the move of a date out of them | `DueIsWorkable` |
| `PpmCalendar`, Reminder | `ppm/sla-reminder.worker.ts` | the daily scan: it reads the plans with the users they name when it begins, and the holders of a plan's roles when it is that plan's turn; who is told of what, and where a scan is cut | `RemindersReachAll` |
| `Documents`, Paper | `documents.service.ts`, `storage.ts` | rows and objects by content, legal hold, signed links, two-step upload and deletion, each of which may stop in between | `HeldIsReadable` |
| `Documents`, Form | `document-templates.service.ts`, `ppm`, `rounds` | templates and what refers to them | `TemplatesAreThere` |
| `Registers` | `approval-policies.service.ts`, `privacy.service.ts` | versions of policies and templates | `OneInForce` |
| `Accounts`, Account | `auth.service.ts`, `privacy.service.ts`, `sso`, `scim` | users, sessions, an erasure statement by statement against logins | `ErasureHolds` |
| `Accounts`, Gate | `src/src/common/tenant.middleware.ts` | the maps of the process, how old an answer is, a lookup that takes time | `VerdictsAreFresh` |
| `SignIn`, Provider | `sso.service.ts` | state, link, membership, session, in the order the callback writes them | `SignInsAreWhole` |
| `SignIn`, Factor | `mfa.service.ts`, `totp.ts` | the secret of a user, what the device has, enrolment and verification | `FactorIsProven` |
| `TeamRoles` | `team`, `role-assignments`, `roles` | members, roles, grants; deactivation, assignment and removal in statements | `InactiveHoldsNothing` |
| `Authority`, Grant | `iam.service.ts` | grants in a building, who may hand them on, staff | `RanksNeverRise` |
| `Authority`, Actor | `src/src/common/authz/policy.ts`, `actor-resolver.ts` | grants put together into an actor; the single check and the filter of a list as operators | `ScopesAgree` |
| `BuildingRegister`, Asset | `assets.service.ts` | types, assets, bulk import, the event that announces one; a creation reads the type and inserts later, an edit may change any field `update` lets through | `AssetsAreSound` |
| `BuildingRegister`, Scan | `cleaning.qr.service.ts`, `qr-locations.service.ts`, `scanner.service.ts` | points, zones, codes; units whose code or building an edit changes; what a scan finds | `PointsLeadHome` |

### The work of a workspace (run Operations)

| Module, part | Code | State and actions | Property |
|---|---|---|---|
| `ReactiveIntake`, Case | `reactive.service.ts`, `public-qr.service.ts` | incidents, requests, work orders, quotes; conversion and revision in statements | `StatusIsEarned` |
| `ReactiveIntake`, Mail | `notifications/inbound-email.service.ts` | a post looked up, its row, its settling; repeated and cut | `RepeatsAreFolded` |
| `FloorDuty`, Duty | `assignment.service.ts`, `assignment.resolver.ts` | floor assignments, absence, the route of a case | `PrimaryBound` |
| `Imports` | `imports.service.ts` | jobs, templates with their parts, documents; commit and rollback by line | `ImportIsWhole` |
| `Onboarding` | `onboarding.service.ts` | workspace, organisation, building of a newcomer, statement by statement | `Provisioned` |
| `Projects`, Book | `projects.service.ts` | class and stage with their histories, the date a stage change closes a project on, budget lines, totals | `BooksBalance` |
| `Projects`, Pack | `projects.service.ts` | the acceptance pack, its documents and signatures; a submission, a signature and a rejection each read the pack and write it later | `AcceptedByThree` |
| `Projects`, Decision | `projects.service.ts`, `emergency-overrides.service.ts` | change orders and overrides: ask, decide, lapse | `DecidedByAnother` |
| `Takeover`, Signoff | `takeover.service.ts` | the log of signatures, read, extended, written back whole | `SignoffFollowsChain` |
| `Takeover`, Readiness | `takeover.service.ts` | four percentages, the score and the advice, over what is in place | `SignoffIsDeserved` |
| `WorkLists`, Inbox | `tasks.service.ts` | the pages a reader is shown while cases move; comments and refusals | `PagesRepeat` |
| `WorkLists`, Queue | `reactive.service.ts` (triage) | the queue as read, merged and sorted | `QueueIsInOrder` |
| `Connectors`, Inbound | `connectors.service.ts` | vendors of an ERP, points of a gateway; loops of single statements | `InboundIsOnce` |
| `Connectors`, Export | `connectors.service.ts` | invoices, periods, the file | `FilesAreComplete` |
| `Connectors`, Trigger | `condition-triggers` | readings, cooldown, the task a reading opens | `TasksAreSpaced` |
| `FloorDuty`, Round | `rounds.service.ts` | a round and the orders of its waypoints, inserted one by one; `Halt` is an order that is taken, `CutRound` a call that stops between two inserts | `RoundsAreWhole` |
| `Fanout` | `notifications.service.ts`, `recipient-resolver.service.ts` | above | `RecipientsReached`, `ChosenAreEligible` |
| `Cleaning` | `cleaning.request.service.ts`, `cleaning.access.ts`, `cleaning.admin.service.ts` | zones, requests, who sees and moves them | `ClosedStaysClosed` |
| `BuildingStructure` | `building-core.service.ts`, `building-spaces` | the rows that describe a building and what they name; a patch of a unit that is written as it came; what a destruction takes along by foreign key, and the strings it leaves | `StaysInBuilding` |
| `Reports`, Trail | `audit.service.ts` | entries and a search by pages while others write | `SearchesAreComplete` |
| `Reports`, Board | `compliance.service.ts` | counts, rounded shares, a grade | `SharesAddUp` |

## 3. The runs

| Run | Instance | States | Shows |
|---|---|---|---|
| OutboxSingle | 1 process, 3 events (one without subscribers), batch 2, 2 attempts, 2 aborts | 86,948 | `RedeliveryBound`, `FirstAttemptInOrder`, `ImplementsPromise`, `EventuallySettled` |
| OutboxAtomicity | 2 events | violation | `PublishedIffCommitted` fails: a committed change without its event |
| DeliverySingle | 1 worker, mail + inbox + push, batch 2, 2 attempts, 3 faults | 89,525 | `CopiesBound`, `SettledUnlessLost` |
| DeliveryWorkers | 2 workers, 2 deliveries, 2 faults | 194,628 | `ExclusiveClaim`, `SentMeansReceived` |
| ApprovalConcurrent | 2 calls, 2 steps, 1 fault | 6,288 | `ApprovedMeansAllSteps`, `SignedInOrder`, `SignedWithAuthority` |
| ApprovalLostUpdate | 2 calls, no fault | violation | `CompleteChainIsApproved` fails: a fully signed request stays pending |
| ExpenseFlow | 2 requests, 1 completion, 1 fault | 179,564 | `OneChainPerTask`, `DispatchedOnlyIfApproved`, `GrantReachesOrder` |
| PpmLifecycle | 2 calls, 2 managers, 2 requests, 1 fault | 4,826,968 | `OrderedMeansApproved`, `AttachedIsApproved`, `TerminalIsFinal` |
| InviteAccess | 2 calls, 2 invites, 2 roles, 3 events, 1 fault | 531,796 | `SpendBound`, `DeliveredMeansMember`, `PublishedIsSettled` |
| Procurement | 2 calls, 2 managers, amounts 100 and 103, 3 completions, 1 fault | 969,500 | `EvidenceBound`, `ApprovedOnOthersMatch`, `OverAmountIsUnworked` |
| Estate | the parts of the first table of section 2, Leasing as two (tenancies, administrators) | 1,372,804 | nine properties, below |
| Operations | the parts of the second table | 2,692,730 | eight properties, below |

For every property of a passing run `PROJECT.json` names a changed definition (a
lost guard, an off-by-one, a missing reset) under which that run finds the
property violated; a property that joins several parts has one for each part.

### Estate and Operations

Each of these two is one instance of many modules. The parts do not share a row
their properties speak of, so a behaviour picks one part at the start (`focus`)
and takes steps of it alone: the states of the run are the sum of the parts'
and not their product. The variables of the other parts hold the dummy `Off`, which
no action reads; a property of a part is asked where that part is in focus. Nothing is lost for the properties, since each speaks of
one part, and the interleavings that matter are those inside a part, between two
calls of it. Where services do share rows (`MCEstate` and `MCOperations` do not
join them) the module models both: `Accounts` has the password login, the
identity provider's and the erasure; `BuildingRegister` the spaces and the points;
`Documents` the programmes and rounds that name a template. A property of the
run is a conjunction with one clause for each part it is about:

| Property | Clauses | In words |
|---|---|---|
| `StampsMatchLife` | `BuildingLifecycle` | an active building has been published, an archived one has its date, whatever transitions overlap |
| `LeasesAgree` | `FlagMatchesAllocations`, `GrantIsTheAdmins` | the flag says whether there is an allocation, the grant is the present administrator's, unless a call was cut, overlapped another, or is still at it, or the spot was made with the flag set and no call has been on it since |
| `OversellBound` | `Stock` | stock falls below zero by one movement for each overlapping call but one, and never without overlap |
| `ProgrammeHolds` | `TemplatesHaveItems`, `ObligationsAreKnown`, `DueIsWorkable`, `RemindersReachAll` | what is to be maintained is scheduled, on a day that can be worked on, and those a plan named when the scan began, or who held its roles at its turn, are told, with the exceptions each clause names |
| `HeldIsReadable` | `Documents` | a document on legal hold can be read, unless its object went with another document, the hold came after its deletion began, or a deletion was cut between the object and the row |
| `OneInForce` | `OneInForce` of `Registers`, `TemplatesAreThere` | one version is in force, and one more for each edit that wrote a version already written; a template in use is there |
| `AccountsHold` | `ErasureHolds`, `FactorIsProven`, `VerdictsAreFresh`, `SignInsAreWhole` | erasure ends sessions, a second factor was proven, a kept answer has a bounded age, a session of a provider belongs to a member |
| `RightsAreHeld` | `InactiveHoldsNothing`, `RanksNeverRise`, `ScopesAgree` | nobody has a right he was not given: inactive, by a chain of delegations, or by the way grants are put together |
| `BuildingIsRegistered` | `AssetsAreSound`, `OccupiersAreListed`, `PointsLeadHome` | what is registered is complete, announced, listed and found by its code, unless an edit, a retyped type or a value taken over unchecked says otherwise; each exception is a mark on the row |
| `StatusIsEarned` | `ReactiveIntake` | what the status of a case or quote says is there, unless a call did not finish |
| `RightPeople` | `PrimaryBound`, `RecipientsReached`, `ChosenAreEligible` | primaries never exceed the calls that can overlap; all who are meant are reached, however often a dispatch was cut, and nobody else |
| `OneWorkPerSignal` | `RepeatsAreFolded`, `TasksAreSpaced`, `InboundIsOnce` | a mail, a reading, an alarm or a vendor that comes again is not taken for a new one |
| `WrittenWhole` | `ImportIsWhole`, `Provisioned`, `RoundsAreWhole` | what one call writes in several rows is whole, or undone as a whole, unless the call was cut or met an order that was taken |
| `ViewsAgree` | `PagesRepeat`, `BooksBalance`, `FilesAreComplete`, `QueueIsInOrder`, `SearchesAreComplete`, `SharesAddUp` | pages, files, totals and shares agree with the rows they are made of; a project with a date of closing is in the stage closed (one made in that stage has none) |
| `SignaturesHold` | `AcceptedByThree`, `DecidedByAnother`, `SignoffFollowsChain`, `SignoffIsDeserved` | what needs several people was signed by them, in order, on a state that deserved it; an accepted pack bears its three signatures whatever overlaps, and the other direction holds as long as no call wrote over another |
| `StaysInBuilding` | `BuildingStructure` | what a row of a looked-up kind names was made in its building, unless it is a patched unit or names one; what a foreign key names is there; a bound row is in a standing building |
| `ClosedStaysClosed` | `Cleaning` | what is closed stays so, unless a call wrote on a status another had changed |

Many of these clauses have an "unless". The code gives no more: with reads and
writes by id and no transaction, the plain property fails, and what is worth
knowing is in which cases. The clause names those cases by a history variable
(or says that a call is still at work), and the run shows that among the steps
the module has there is no other. Which steps those are is what section 2 and
the comments of each module say; a write that a module leaves out is not covered.

### The bounds, and why they are enough

- *Calls at a time.* The races found or excluded are between one read-then-write
  and one other. Two slots give all of them; the bounds the properties state
  (`SpendBound`, `EvidenceBound`, `OversellBound`, `PrimaryBound`) are in terms of the
  number of slots, and a third event, completion, movement or person is enough
  to exceed them if they were wrong. `PpmProgramme`'s evaluation is
  one call at a time by its nature (one row).
- *Outbox.* Three events with a batch of two make a row wait behind a full batch;
  two attempts separate a retry from giving up; two aborts hit the same row twice.
- *Delivery.* Three faults exhaust two attempts and leave one for the record of
  the last one. `CopiesBound` is a claim about one worker.
- *ExpenseFlow.* One fault is the exact boundary: `GrantReachesOrder` holds with one
  and not with two, when the grant overtakes the work order
  (`reactive/reactive.service.ts:117`). Three attempts keep giving up (a different,
  intended loss) out of the way.
- *PpmLifecycle.* Two calls of any of the three services, one fault, two requests:
  two submissions overlap, a vendor close overlaps a cancellation or an approval.
  `OrderedMeansApproved` holds however calls overlap. The other two properties are
  about the writes that nothing keeps apart, and say what remains:
  `AttachedIsApproved` excepts what an overtaken call left until stage and status
  are written together, and `TerminalIsFinal` lets a finished task be taken up
  again only by a call that read it before it was over, or on such a row.
  All three are proved for any number of calls.
- *Procurement.* 103 lies beyond the tolerance of 100, in either direction, for
  the order and for the cost; three completions exceed two slots.
- *Calendars.* `PpmCalendar` has a year of eight days (four months of two),
  weeks of three, and moves a date at most `MaxRoll = 2` days where the code
  tries fourteen: enough, with due dates computed for days two, three, five and
  six and moved on up to the first day of the next year, for a weekly rule, a
  range over the end of the year, an annual one that ends in the month it began
  and covers the year round, a single day, and rules that block three days in a
  row. Reminders go out one day ahead and a due date only moves later; two scans
  overlap, and one may begin before who is named changes and reach the plan
  after.
- *Door.* `Accounts` keeps an answer one tick of four; one change of what an answer
  is about; entries past their life are forgotten, as the code never reads them.
- *Lists.* Pages of one row over two tasks and a case due after them, a queue that
  holds one of each kind, an audit trail of three rows, a board of two buildings
  with at most two rows of a sort and up to three tasks stuck and three
  unproven: each makes the limit bind and leaves a row over, and six such tasks
  reach every case of the clause about the best grade.
- *Fan-out.* An event is dispatched until it is done; one dispatch runs at a time
  beside the changes of a profile, since a second one only adds rows that the
  key folds.
- *Structure, register, rounds, books.* Four rows of two buildings reach a
  patched unit with its floor and a group on it or a row that names it, and the
  destruction of either building. Two buildings, two codes and one unit that may
  be let anew make a code move away from its zone. One creation of an asset is
  in progress at a time beside edits, upserts of types and deletions: two share
  nothing but the types. A round of two waypoints may stop after the first.
  Histories of three entries let a project leave the stage closed and come back
  to it.
- *Symmetry* is used for the calls (slots, workers) of most runs and for the users of
  Procurement. Estate has two more pairs of model values beside its calls: one
  stands for plan items, contents, members, tokens, secrets, addressees and people,
  the other for occupiers, companies, papers, forms, templates, points, residents
  and states. Operations has its calls, and a second triple for signers, people
  and clerks that is not permuted. No definition names a member of a permuted
  set, and no run with a liveness property uses symmetry.

`CHECK_DEADLOCK FALSE` is set everywhere: every bound makes the system stop, and
an event table in which all is settled has nothing left to do. `TypeOK` of every
module holds in its run; the runs do not list it, as types are proved for the
seven modules with a proof module of their own, and for the parts of Estate and
Operations as far as their proofs need them.

**Fairness.** Liveness is checked under weak fairness of what the process does
by itself: the poll timer keeps firing and an awaited statement returns or
throws. That is `WF(Work(p))` in Outbox; the worker's steps and `BecomeDue` (time
passes) in NotificationDelivery; the dispatcher and the insert of an owed event
in ExpenseFlow; `Handle`, the dispatcher, in InviteAccess. No user call is fair, and
no run assumes that a handler succeeds: faults are bounded instead, and a
restart follows a crash as the supervisor provides. The modules of Estate and
Operations are driven by requests, and claim nothing that must happen.

## 4. What the violations show

1. `OutboxAtomicity`. `events/outbox.service.ts:5-7` says the row "lands in the DB iff
   the originating change committed". Every producer passes `this.prisma`, after its
   own write has committed.
2. `ApprovalLostUpdate`. `approvals/approvals.service.ts:184` writes a status computed
   from an earlier read. With two signatures under way, `pending` can be written
   over `approved`; no step is pending any more, so no later call repairs it.
   `src/test/state-machine.test.mjs:158` has "approved: all required steps approve".

Other places where the code does less than one might expect are kept as the
"unless" of a property that holds, and most are listed as hazards: an acceptance
pack that is accepted on three signatures where the comment beside it
(`projects/projects.service.ts:481`) has all four, a `skip` blackout whose
null is ignored, an annual blackout that ends in the month it began in and so
blocks no day, a reminder that one notification of a cut scan silences, a
rollback of an import that has stripped the templates it then refuses to delete,
an inbox cursor that runs against the order of its page, a timeline that reads
another entity type than the moves write, an expiry that a building scope
replaces in a query, an invoice dated on the day two accounting periods share, a
callback of an identity provider that is cut before the membership, a queue that
sorts priorities as words, a text search that widens a search by entity.

## 5. What is proved

TLAPS checks the theorems below for every value of the constants that the named
assumptions allow: any number of processes, workers, calls, events, rows, steps
and faults. **Every invariant and every action property that a run checks is
the conclusion of a theorem**; only liveness is left to the model checker.

Seven of the eight proof modules are called after the module they begin with, and
go on with parts of Estate or Operations that are near to it in subject;
`Services_proofs` has other parts of Estate. How the parts are shared out also
balances the time the provers need for a module.

### The assumptions

`OutboxAssumption`, `DeliveryAssumption`, `ChainAssumption`, `FlowAssumption`,
`TaskAssumption`, `InviteAssumption`, `ProcurementAssumption`, and, for the parts,
`EstateAssumption` in `MCEstate` and `OperationsAssumption` in `MCOperations`. TLC
evaluates each of them in its run. They are of five kinds:

- *sentinels*: what the code writes as `null` is no row ("none" is no signer,
  quote, occupier, state, template, slug ..., an email is not "redacted");
- *types of constants*: bounds and times are natural numbers, amounts and dates
  integers, a table of constants has the right domain, a month has a day;
- *kinds are apart*: a report is an incident or a request, a job a workbook or a
  bundle, a case is no task, a person in an audience no outside address;
- *finiteness* where something is counted: the calls a server has at a time, the
  lines of a project, the tasks and buildings of a tenant, the rules on file;
- *shape of inputs*: points of one envelope have different identifiers, a request
  asks at least one question, writing in capitals twice is writing so once, one
  of the dates on file is the first, a building may have no number of storeys.

Four theorems have a hypothesis of their own. `SingleProcess` is asked for by
`FinalityCorrect`, `OutboxImplementsPromise` and `RedeliveryBounded` of the outbox: its
ticks are kept apart by a field of the process (`running`), so with one process no
two overlap, and with two the three fail. `railway.json` deploys one and sets no
replicas. `OneWorker` is asked for by `CopiesCorrect`: the bound on the copies of
a mail is not claimed of two workers. Everything else is proved for calls that
overlap in any number.

### The components

Each proof has an inductive invariant, the facts that it holds at first and is
kept by each action, one step per action, and a temporal last step.

| Module | Theorems | The strengthening, and why |
|---|---|---|
| Outbox_proofs | `TypeCorrect`, `DeliveryCorrect`, `GiveUpCorrect`, `OrderCorrect`; with one process `FinalityCorrect`, `OutboxImplementsPromise`, `RedeliveryBounded` | `CursorInv` (the row in hand is a real one), `PrefixInv` (`allOk` means the handlers before `next` have completed), `BatchInv`, `RowInv`, `CallsInv`. `ClockInv` and `OrderInv` for the order: rows are numbered as they come, a batch is the oldest rows there were, so what is older than a row in hand is in hand before it or was tried. With one process `HeldInv`: the rows a tick holds are still pending and as it read them; it is what fails with two. `BoundInv` adds the passes up. |
| NotificationDelivery_proofs | `TypeCorrect`, `ClaimCorrect`, `SentCorrect`, `DeadLetterCorrect`; with one worker `CopiesCorrect` | `TriesInv`, `ClaimInv` (a worker past the claim holds a row in `sending`, and no other does), `SentInv`, `DeadInv`; stale fetches by other workers included. `CopiesInv`: copies are counted in attempts before a row can be fetched again |
| ApprovalChain_proofs | `TypeCorrect`, `StatusCorrect`, `OrderCorrect`, `AuthorityCorrect` | `OrderInv` (a call about to sign step k has seen the steps below signed, and signatures are never taken back), `OutcomeInv` (a call that computed `approved` had all steps), `AuthorityInv` (what the call checked it may sign under) |
| ExpenseFlow_proofs | `TypeCorrect`, `ChainCorrect`, `DispatchCorrect` | a statement about to create has found nothing, and only the single dispatcher creates; an announced grant has an approved request behind it |
| PpmTask_proofs | `TypeCorrect`, `OrderCorrect`, `RatificationCorrect`, `FinalityCorrect` | `CallsBacked`, `CallsApproved`: a call about to write an ordered stage has an approved request; approvals are never withdrawn. `RaceInv`: what a call checked is still so when it writes, or it is marked as overtaken; a finished stage has the status that goes with it, or the row is torn |
| InviteAccess_proofs | `TypeCorrect`, `DeliveryCorrect`, `SpendCorrect` | `HandlerInv`: past the insert the membership is there, and before the mark it is there or an error was caught. `SpendInv`: the slots that read the invite unspent pay for what is spent, so their number is the bound |
| Procurement_proofs | `TypeCorrect`, `SeparationCorrect`, `OverAmountCorrect`, `EvidenceCorrect` | `MatchRecorded`, `ApprovalBacked`: matches are only added, so a call past its check stays justified whatever matches follow; `MatchJudged`: amounts never change under a match; the excess over a check is paid for by the slots that had read before it |

`DeliveryCorrect` and `GiveUpCorrect` of the outbox (a delivered row was handled by
every subscriber, a failed one had all its attempts), its `FinalityCorrect` and
`DeadLetterCorrect` are proved and, being so, not listed in a run.

### The parts of Estate

A property of the run is a conjunction of clauses. Each clause is proved of its
module as it is instantiated there; `PartSteps` (every step of `MCSpec` is a step of
one part and leaves the variables of the others) puts the clauses together.

| Theorem | Property | The argument |
|---|---|---|
| `EstateStamps` (Services) | `StampsMatchLife` | a date once written is never cleared, and a transition in progress writes its date with the status |
| `EstateOversell` (Services) | `OversellBound` | `Backed`: what the calls past their check may still take from a place is bounded by their number times the largest movement; the one that read last read what the others had left |
| `EstateHeld` (Services) | `HeldIsReadable` | `ClerkHolds`: where each call stands in upload, hold and deletion, and which orders of two calls, or which cut, disturbed a row |
| `EstateLeases` (Services) | `LeasesAgree` | `LeaseHolds`: a call about to write the flag counted what is there, or was met; a flag from the body is marked until a call has ended on it; `Agreed` for the administrator and his grant |
| `EstateInForce` (Services) | `OneInForce` | `Bounded`, `Ordered`, `Appended`: versions without gaps, the newest is in force; `FormInv` for the templates in use |
| `EstateRegistered` (Services) | `BuildingIsRegistered` | `AssetHolds`, `OccupierInv`, `ScanInv`: what a call has read it finds unchanged when it writes, or the row is marked: by the type that was retyped, the edit, the code that was changed |
| `EstateRights` (Services) | `RightsAreHeld` | `Covered`: each grant has a chain of hands of no lower rank behind it; `OfficeHolds`, `MemberHolds` for leaving; `ScopeInv` compares the check of one row and the filter of a list |
| `EstateAccounts` (InviteAccess; `ErasureCorrect`, `SignInsCorrect`, `FactorCorrect`, `VerdictsCorrect`) | `AccountsHold` | `Cleared`, `OpeningHolds`: what an erasure passed stays empty, and a login that read the user before it is excused by name; `LinkHolds`, `StateHolds`: a callback's earlier statements stand behind the later; `FactorInv`; `MemoHolds`, `CallHolds`: an answer was true when it was asked for, and its age is that of the entry plus of the lookup |
| `EstateProgramme` (PpmTask; with `RemindersCorrect`) | `ProgrammeHolds` | `ProgrammeInv` and `SeesTo`: a template has its item or a call that is about to add it; `EvaluationHolds`; `DateInv`: what a rule covers is hit by it (`AnnualCovers`) and a date is moved as far as rules reach or as far as it may be; `ScanHolds`, `OwedHolds`: who is owed a reminder was told or is among those the scan has yet to go through, with the users it read at its beginning |

### The parts of Operations

| Theorem | Property | The argument |
|---|---|---|
| `OperationsSigned` (ApprovalChain; `SignoffCorrect`, `AcceptanceCorrect`) | `SignaturesHold` | `PenHolds`: the log a call holds is a beginning of the one on file, unless another call wrote meanwhile; `PackInv` with `CallHolds`: a signature is never taken back, so whoever read the others still finds them when he writes the acceptance, and a late submission or rejection can only take the acceptance away; `DecisionInv`; the percentages of readiness and their blends are computed |
| `OperationsEarned` (ExpenseFlow) | `StatusIsEarned` | `DeskHolds`: what a call of the service desk wrote before stands, or it is marked unfinished; `Revised` for quotes |
| `OperationsRightPeople` (ExpenseFlow; `PrimaryBounded`, `FanCorrect`) | `RightPeople` | `DutyInv`: a call that is about to appoint counts for one primary; `DispatchHolds`: whom the loop has passed has a row, and a row is behind a rule that chose its person |
| `OperationsOneWork` (ExpenseFlow; `InboundCorrect`) | `OneWorkPerSignal` | `MailInv`, `TriggerHolds` (the last opening is no further back than the cooldown, or two readings met), `VendorInv`, `BridgeInv` |
| `OperationsWhole` (NotificationDelivery; `ImportCorrect`, `RoundsCorrect`, `ProvisionedCorrect`) | `WrittenWhole` | a job that no call is at is whole, whoever is at it has written the lines up to where it is (`JobHolds`); a round is counted up to its waypoint (`Counted`), or was halted; a workspace is manned and headed in the order of the statements (`Stands`, `Manned`, `Headed`) |
| `OperationsClosed` (Procurement) | `ClosedStaysClosed` | `CleanInv`: a write on a status that was the latest when read and still is obeys the table of moves |
| `OperationsStays` (Procurement) | `StaysInBuilding` | `FoundWhereMade`: what a lookup found was made in the building, however long ago; `NamesHold`: what a row names is of the right kind and building unless it is marked by a patch, and what a foreign key names is there when a destruction has gone through |
| `OperationsViews` (Procurement) | `ViewsAgree` | `InboxInv`: a row that had no room on the first page has a full page of tasks before it, or one of those was completed since; `TrailInv`: a matching row that was not shown has as many newer ones as were read past it; `QueueInv`, `FileInv`; `BookInv`: histories are chains, and totals are sums over the lines, taken apart by class; `BoardInv`: rounded shares keep their order, and the share of the tenant lies between those of its buildings (`Mediant`) |

Where the code sums, ranks or picks the greatest, the models use sets and the folds
of the community modules. What those compute is proved by taking a least
counterexample (`WellFoundedInduction` on the cardinality of a set) and expanding
the fold one step: `TallyStep`, `TallyOfParts`, `RanksFilled`, `FiniteSubsets`.

### What the proofs corrected

An invariant that is not inductive says something about the model. Five claims had passed their
run and fell in the proof; each was put right, with a bound or a rule in the
instance that would now show it:

- `SignoffIsDeserved` claimed too much at the edge where a rounded percentage
  reaches what the exact one does not (197 of 200).
- `InboundIsOnce` is false for a point of a gateway that has no name: it is a new one each
  time it comes.
- `DueIsWorkable` is false for an annual range that ends in the month it began,
  before the day it began: it should cover the year round, and the code finds no day
  in it (`ppm/engine/blackout.ts:35`). The exception is `EndsBeforeItBegan`.
- `PagesRepeat` did not allow for a task that is completed between two pages and lets
  a later one move up; the dates of the instance had hidden it.
- The clause of `SharesAddUp` about the best grade held for one stuck and one unproven
  task, and claimed too much beyond.

In the same way the order of rows with equal keys was a fixed one in the model,
where the database may return any: `Sooner` and `Newer` now leave ties open.

### Model-checked only

`EventuallySettled`, `SettledUnlessLost`, `GrantReachesOrder` and `PublishedIsSettled`: liveness
under fairness is outside the prover. That a module's safety holds in the
presence of another part is not claimed where the parts share no row.

## 6. What is not modelled

- *Real time.* Timestamps are a logical clock or a flag that becomes true; poll
  intervals and SLAs are orders of steps. Where a length decides (blackouts, a
  cooldown, the life of a kept answer) it is scaled down.
- *The database below a statement.* A statement is atomic, a unique key refuses
  the second row, a transaction is all or nothing. Replication, isolation levels
  and row-level security are not there. Every model is of one tenant.
- *Several processes*, except in `NotificationDelivery` and in the proofs: the outbox
  guards its ticks by a field of the process, and with two of them no bound on
  redelivery holds. The deployment has one.
- *Rejection of an approval chain*, the report on bottlenecks, bulk operations of
  PPM and tasks, budgets, compliance profiles, the directory of contractors,
  rows with one unconditional write each.
- *Parsing and text*: recurrence rules, spreadsheets, templates of messages, CSV;
  cryptography and token formats. A rule that does not parse, a line with errors
  or a wrong code is an outcome the model may choose.
- *External services*: mail is an adapter that accepts or refuses, object storage
  a set of objects, an identity provider an answer; the sending of webhooks and
  payment are absent.
- *Dashboards, metrics, tracing, rate limits, devices, the seed at run time and the
  event log API*: read-only, or single upserts without a rule to break.

`PROJECT.json` has, for each component, what is left out of it.

## 7. Plan

| Next | What | Aim |
|---|---|---|
| 1 | rejection of chains, bulk calls of PPM | a rejected chain is never approved; a bulk call leaves each case as a single one would |
| 2 | composition of sign-in, rights and the door | a right that is taken away is not used later than the age of a kept answer |
| 3 | the safety half of `GrantReachesOrder` | a grant that is settled without an order was overtaken by it, and by nothing else |
| 4 | parts that share rows, joined | `Occupancy` with `TeamRoles` (both write grants), `PpmProgramme` with `PpmTask` (the plan and its cases) |
