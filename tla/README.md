# Verification of wrg-platform-api

TLA+ models of the WRG platform API, TLC configurations that check them on small
instances, and TLAPS proofs of what matters most. `PROJECT.json` is the index:
components, runs, the source lines of every definition, the mutant that breaks every
property, findings, hazards and theorems.

Run `tlc -config MCCommerce_manual.cfg MCCommerce` to check an instance and
`tlapm CommerceProofs.tla` to check the proofs of a module.

## The system

The API is a NestJS application on PostgreSQL (Prisma), Redis (BullMQ, recovery
keys) and two remote services, Stripe and Zoho CRM. Every instance runs every module;
a rolling deployment makes two instances overlap, and a platform restart kills
whatever is being awaited. No lock is held between requests: what keeps them apart
are unique keys, conditional updates (`updateMany` and its count), one trigger, and
short transactions.

| Component | State | Operations | Modelled in |
|---|---|---|---|
| payments (`commerce/compatibility-payment`) | `Order`, `OrganizationProgram` (`reportAccess`, `stage`, `metrics`), `AuditLog` | checkout, confirmation by webhook, browser, administrator, reconciliation; fulfilment | `Commerce` |
| stripe webhooks (`commerce/stripe-webhooks`) | `WebhookEvent` | `process` | `Commerce` |
| report catalogue (`reports/report-catalog*`) | `metadata.reportCatalog`, `reportAccess`, `metrics` | ownership, what a product grants | `Commerce`, `Entitlements` |
| EFS re-upload (`imports/program-efs-jobs`, `efs-import-process*`) | `SyncJob`, a BullMQ queue, a child process | `enqueue`, `status`, `process`, `runImport` | `EfsJobs` |
| EFS publication (`imports/historical-import`) | `Program`, `Survey`, rows | `reuploadProgramEfs` | `EfsJobs` |
| authentication (`auth`) | `Session`, `User` | login, rotate, logout, access tokens | `Sessions` |
| impersonation (`auth/impersonation`) | `ImpersonationGrant`, sessions | start, exchange, revoke | `Sessions` |
| account access (`users/account-access`) | `User.metadata`, recovery keys in Redis | sign-in, second factor, temporary passwords, resets | `Accounts` |
| users, `bootstrap-admin` | `User` and its role | create, roles, profile, delete, restore, purge, start-up | `Accounts`, `Sessions` |
| administration (`management/compatibility-admin`) | enrollments, key impact rows, custom reports | uploads, deletions | `Entitlements` |
| Zoho resynchronization (`management/compatibility-management`) | enrollments, organizations | preview, apply | `Entitlements` |
| organization reconciliation (`management/organization-reconciliation`) | organizations, enrollments, customers | report, plan, merge | `Entitlements` |
| reports and workbooks (`reports/compatibility-reports`, `report-template-workbooks`) | none (reads) | 35 reports, from authorisation to cells | `SurveyAnswers`, `SurveyReads`, `SurveyReports` |
| historical import, survey definitions | drafts, `Program.metadata` | preview, commit, pin | not modelled |
| plumbing, observability, tenancy, integrations | none that matters | | not modelled |

How they interact: payments, uploads, the resynchronization, the swap of category
values and merges write the same enrollment rows; a publication replaces the rows
that reports count, between the queries of a report; users, sessions and previews
read each other's rows at every request; the resynchronization and payments call
Zoho between a read and a write.

### What is hard in it

* **Whole-JSON writes from stale reads.** An enrollment's JSON columns and a user's
  metadata are read, changed in memory and written back whole, with awaited calls in
  between.
* **Claims by conditional update.** A manual confirmation claims its order by
  changing the status, and has to give it back when the fulfilment fails, but not
  when it got paid.
* **A commit followed by a remote call.** Zoho is updated after the transaction,
  in the same request, and its failure is reported as the failure of the whole.
* **At-least-once callers.** Stripe repeats events; BullMQ repeats stalled jobs;
  browsers poll and confirm.
* **A token outlives what it was issued for.** Access tokens carry an organization
  and are compared with rows that change under them; sessions and previews are
  issued from rows that were read awaits earlier.
* **Review, then apply.** An administrator reviews a preview and sends its revision
  back; what is applied is computed again, from rows and from Zoho as they are then.
* **Long jobs in a child process** whose record, queue job, staging rows and
  publication are four states that a crash can separate.
* **The same figure computed by different code.** Four classifiers decide on which
  side an answer counts, four places hide small groups, averages are pooled or
  weighted, and rows and columns are matched by label.

PROJECT.json lists the hazards at their lines, with the properties that cover them.

## The modules

### PaymentLedger, Commerce

`PaymentLedger` is the promise about an order: it is opened once, funded, and
settled once, and an order that is paid through Stripe is not settled before its
money is there.

`Commerce` is the payment service and the webhook for one enrollment. A request is
handled by a slot (`req[s]`), which holds the operation, the place where the
handler awaits (`pc`), its order, the enrollment and payment method it has read
(`seen`, `method`), and, for a reconciliation, the orders still to visit. One
action is what a handler does from one await to the next:

| Operation | Places |
|---|---|
| `checkout` by Stripe, `paymentIntent` | `intent` -> `create` |
| `checkout` by invoice | `create` -> `keys` (`applyEnrollmentKeys`) -> `zoho` |
| webhook | `fulfil` -> `commit` -> `zoho` -> `finish` (`processedAt`) |
| `confirmPaidOrder` | `retrieve` -> `fulfil` -> `commit` -> `zoho` |
| `validateAchOrder` | `claim` -> `fulfil` -> `commit` -> `zoho` -> `finish`, or `release` |
| `confirmInvoiceOrder` | `claim` -> `commit` -> `zoho` -> `finish`, or `release` |
| `reconcilePaidOrders` | `next` -> (`fulfil` -> `commit` -> `zoho`) per order |

The enrollment is the set of its "yes" keys, whether its stage is the full
package, the state of the key impact order and the resolved portal access; the
`paymentDetails` column is written by the same statements as `reportAccess` and is
left out. Prices, currencies, the tenancy checks of `context()` and the sorting
filter are left out: they decide whether a request starts, and every request is
taken as one that may. `fulfillOrder()` rejects orders whose payment method is
"card" or "invoice"; no operation of this code writes these labels, so the
rejection is not modelled. Orders of kind "ach" come from earlier releases.

An awaited call may be rejected without effect (`Fail(s)`), or be applied and answered
with an error all the same (`LoseAnswer(s)`, an alternative of every call that writes,
but for those with which a handler ends: nothing tells the two apart there). `AfterError` says what a handler makes of either. The claims of the manual
confirmations are awaited outside their `try`, so nobody gives back a claim whose
answer was lost. `Crash(s)` kills the handler with its process. `abandoned` is kept for
the properties: the orders whose claim was lost so, whose release failed, or whose
handler was killed. Stripe is outside: `Pay` by a client that holds the intent's secret,
and the delivery of an event until it is answered.

### SurveyPublication, EfsJobs

`SurveyPublication` is the promise of a re-upload: one survey is active, a save
takes its place in one step, and only while the program is the one reviewed.

`EfsJobs` is the save of a re-uploaded survey. Its state is the `SyncJob` record
(`job`, and `upload` for the workbook in its input), the BullMQ job (`queue`,
`lock`, `stalls`), the program's `updatedAt` (`revision`), the surveys with their
kind and the batches of rows they have, the audit row that the publication
writes (`audit`), what each worker with its child is doing, and what each polling
browser has read. A `queue.add` that is rejected may have been applied, and the catch
updates the record in a step of its own, which may fail (`QueueAddFails`,
`MarkRefused`, `MarkRefusedFails`): a worker may have taken the job by then, with the
workbook that `LoadJob` has read. `enqueue()`, `runImport()` around `reuploadProgramEfs()`,
`process()` and `status()` are cut at their awaits. Faults are of five kinds
(`FaultKinds`), which a configuration chooses from: a rejected call, a commit
that is not acknowledged, a killed child, a dead instance, and a living instance
that loses its lock. BullMQ is modelled from how the code configures it:
`attempts: 1`, one restart of a stalled job, a lock per attempt.

The validation of the workbook is one verdict (without its contents it fails);
`latest()` is `status()` of the newest record. The age of a record is not
modelled: a poll may find a job missing at any time, which allows more than the
code does.

### PreviewGrants, Sessions

`PreviewGrants` is the promise about a dashboard preview: its grant is created
once, exchanged for a token at most once, never after it has ended, and what has
ended stays so.

`Sessions` is `AuthService`, `JwtStrategy.validate()` and `ImpersonationService`,
with the operations of users and account access that change what a user may do.
Its rows are `user` (status, role, organization, assigned programs, and the enrollment
that it is connected with, `primary`), `session` and `grant`; `tokens` are the access
tokens that clients hold, ordinary ones and previews. A handler that awaits between a
read and a write is in a slot (`req[s]`) with what it read:

| Operation | Steps |
|---|---|
| login, refresh | `StartLogin`/`StartRefresh` (read the user) -> `issueTokens` (insert the session) -> `Answer` (a refresh revokes the old session; both tokens go out) |
| start of a preview | `StartGrant` (checks) -> `createGrant` |
| exchange | `StartExchange` (grant, actor, target, enrollments) -> `principalForUserId` -> `ConsumeGrant` (`updateMany` and its count) |
| edit of a user | `StartUpdate` (reads the target, decides) -> `CommitUpdate` (the transaction) |

`logoutAll`, `revoke`, `delete`, `restore` and `replacePassword` write once and are
one action each. Sessions, grants and tokens expire at any time. `Fail(s)` ends a
handler anywhere. Passwords, capabilities, caller scopes, projects, audit records
and what a preview renders are left out: they decide whether a request starts.
The programs that an organization is included in do not change during a run.
Kept for the properties are `parent`, `held`, `previews`, `stale` (users over whom an
edit was written that had read another assignment than the one it replaced) and
`overlapped` (sessions for which a second refresh began before the first had ended).
The code prevents neither, so any number of slots may serve edits and refreshes.

### Accounts

`Accounts` is `AccountAccessService` with the parts of `UsersService` that create,
promote, disable, restore and remove users, and `BootstrapAdminService`, which runs
when an instance starts. A user is its status, role, kind of password (chosen,
temporary: handed out by `generateTemporaryPassword()`, or generated: made by `create()`
for a request that has none, which nobody is asked to change), the second factor's flag,
and the two keys of `metadata` that handlers tell apart. A request sits in a slot between
its first read and its last write and carries the metadata it read; the write puts all
of it back, as the code does. Any slots may do so to one user. `stale` is kept for the
properties: the users whose metadata were written back from an outdated read.

| Operation | Steps |
|---|---|
| sign-in of managers | `StartLogin` (code checked) -> `FinishLogin` (session) |
| second factor | `StartRead` -> `registerTwoFactor`; `StartValidate` -> `validateTwoFactor` |
| temporary password | `StartRead` -> `generateTemporaryPassword`, `changeTemporaryPassword` |
| recovery key | `requestReset` -> `StartComplete` (the key is looked up) -> `ReadForReplace` -> `replacePassword` -> `DeleteKey` |
| profile, role | `StartRead` -> `updateProfile`; `StartRole` -> `updateRole` |
| creation | `StartCreate` (checks) -> `InsertUser` -> `ActivateUser` |
| deletion | `StartDelete` -> `deleteUser`; `restore` and `hardRemoveDisabledUsers` are one statement |
| start-up | `StartBootstrap` -> `BootstrapCreate`, or `BootstrapFind` -> `reconcileBootstrapUser` |

The trigger `single_super_admin` and the unique username guard the writes
(`TriggerAllows`). Codes, their delivery and their attempt counters are abstracted to "the
code is right"; a key expires at any time.

### SurveyAnswers, SurveyReads, SurveyReports

`SurveyAnswers` holds the pure functions on one stored answer: what the importer
stores of a cell, its caption under a configured or defined question, and the sides
on which the four classifiers count it. `SurveyReads` counts: respondents after
filters, benchmark groups with their privacy threshold, distributions, feedback and
Response Detail workbooks. `SurveyReports` is the controller: who may read what
(`Authorized`), one action per report, and the state around it: the survey that is
active in a program, the uploads that replace and delete it, the enrollments.

A request is authorised when it arrives and keeps the survey it found; then its
questions are read (`ReadQuestions`), and the rest later, so that an upload can
publish and delete in between (the rows are then gone). Any uploaded survey may be
active at first. `context()` itself is one step (`Start`): its reads of the program, the
enrollments and the survey, and for annual reports both contexts, are taken together.
Two workbooks, the benchmarks and Response Detail, ask a second `context()` for their heading after
the figures are counted (`Figures`, then `reportWorkbookMetadata`): by then the survey
may be another, or the request be denied. `Whole(r)` is `SurveyReads` for a request `r`
of which nothing was deleted: the properties compare a reply with it. A reply is a
function from cells, such as <<row, column>>, to shares <<counted on this side,
counted>>, so that a property can say what a cell counts without its rounding. Layout, wording, sorting
and paging are left out, and so are the best-practices reports (`custom-ea-report`,
`benefits-*`), which read workbooks of their own.

### Entitlements

`Entitlements` has the writers of an enrollment beside the payments: uploads and
deletions of key impact analyses, custom reports, a paid order (the last statement of
`fulfillOrder`), the swap of category values, the resynchronization with Zoho
(`ReadProgram` -> `ListOrganizations`, a remote call -> `Preview`, or
`CompareRevision` -> `Resync`) and the merge of organizations (`ReadProgram` ->
`ListOrganizations` -> `FindConflicts` -> `Plan`, or `Merge`), with the deletions
that run beside them. `matching`, `revision`, `entitlement`, `plan` and
`planRevision` are the pure parts. `version` stands for `updatedAt`. The accounts of a
match are looked up in the step that matches; in the code each lookup is a query of
its own. `held` is the preview that an administrator reviewed last, and `stale`
(for the properties) the enrollments that were written over from an older read. The
users and responses that a merge moves are not modelled.

Its composition with `Commerce` is by the shared row: `fulfilled` is the write of
`Commerce!Fulfilled` restricted to the columns the other writers touch.

## Runs and bounds

| Run | Instance | States | Shows |
|---|---|---|---|
| `manual` | 1 ACH debit, 1 invoice, 2 slots, 2 errors or lost answers, 1 crash | 219,234 | claims exclude each other, are given back unless their own answer or release is lost or their handler dies, are recorded once; no unpaid access; the payment ledger |
| `live` | a card order of two reports and a bare order of an earlier release, 2 slots, 2 errors or lost answers, 1 crash, fairness | 97,015 | no PAID without money, no closed event without PAID, what is PAID is owned; money at Stripe ends in a PAID order and in the Deal |
| `lost_grant` | 2 card orders, 2 slots, no fault | | finding: a grant is lost |
| `efs_two_workers` | 2 saves, 2 workers, lost locks and crashes, 2 faults | 274,611 | one active survey, replaced only as reviewed: the promise of `SurveyPublication` |
| `efs_live` | 1 save of 2 batches, 2 workers, 1 poller, errors, unacknowledged commits, killed children and crashes, 2 faults, 1 edit, fairness | 37,730 | only complete surveys are read; SUCCEEDED is published; a committed save is reported, and every save ends |
| `efs_partial` | 1 save of 2 batches, 2 workers, 1 lost lock | | finding: an incomplete survey is published |
| `sessions_previews` | a client and an administrator, 2 slots for edits and exchanges, 1 grant | 929,136 | a grant is exchanged once; accepted previews stay within the assignment but where a stale edit was written |
| `sessions_refreshes` | 1 user, 2 slots for refreshes and edits, 1 of them for sign-ins, 3 sessions, all alike | about 1.77 million | one answered refresh per refresh token but where refreshes overlap; a replaced session is revoked; a reassignment ends the sessions unless its edit is stale |
| `sessions_two_editors` | 2 overlapping edits of one client | | finding: a reassignment is undone and nobody is signed out |
| `accounts` | 2 users, 1 recovery key, 2 slots that both write metadata | 2,211,802 | one super administrator, who stays unless a role was let through before; but after stale writes, a second factor has its secret and a temporary password must be changed |
| `reports` | threshold 2, 4 organizations, 2 programs, 3 surveys (one replaces another), owners, free clients, promotional sessions, administrators, every report with and without a filter | 81,804 | small groups are hidden; only entitled requests count answers; no figures mix two surveys; figures of different code agree |
| `entitlements` | 3 organizations, 2 enrollments, 3 tables of Zoho one after the other, 2 slots, 2 writes of a row | 425,996 | columns agree unless a stale read was written over them; what was reviewed is applied, and only a name can be brought back; an accepted merge is not refused |

**Why these bounds are enough.** Two slots are enough for every race: each property
relates two handlers of one row, and a third can only repeat one of them. Two orders
are the smallest number at which two fulfilments write one enrollment. Two errors let
a release fail after the fulfilment did. Two batches are the least at which a survey
can be incomplete. In `reports`, a threshold of two makes cohorts of one (hidden) and
of two and more (shown); the rows have every kind of stored answer that a classifier
treats differently: numbers and reserved codes, a score out of range, texts of their
own and "NA", defined and configured options, unfinished respondents, a supplementary
question of one organization, demographic questions with and without the `f_` prefix. In
`entitlements`, the tables of Zoho have an account that belongs to another
organization (a conflict to merge), a name that changes, and a purchase that comes
and goes; `Edited` restricts uploads and purchases to one of the two enrollments.
Deadlock is not checked where a configuration says so: those systems stop when the
clients have asked for everything.

**What a run does not reach.**

* `manual` has no order at Stripe, so the part of `ImplementsLedger` about money is empty
  there. `CardPaidOnlyIfFunded` in `live` has it, and `LedgerImplemented` proves the whole.
* `live` has one order whose fulfilment writes the enrollment, so `PaidOrdersGranted` says
  there what one fulfilment grants, repeated, failing or killed. Two that overlap are
  `lost_grant`, where it is violated.
* `efs_live` has no lost locks: `ActiveIsComplete` is false with them, which is
  `efs_partial`.
* `sessions_refreshes` has no grants, so `FreshReassignmentRevokes` says there that sessions
  end. That previews do is in `sessions_previews` as `PreviewWithinAssignment`, and
  `ReassignmentsRevoke` proves both.
* Where a property leaves out what a stale write, an overlap or a mixed group did, the
  code prevents none of these and no document says what must come of them: `stale` in
  `Sessions`, `Accounts` and `Entitlements`, `overlapped`, the role that was let through
  before a start-up. Each property names the exception, and nothing else is excepted.
  In `Entitlements` the races for the columns of one enrollment are therefore allowed;
  what is checked is that each writer keeps them in agreement.
* `SmallCohortsHidden` does not speak of `surveyFilters`, `demographicResponseCounts` and
  `meanScoreByQuestions`, which hide nothing: the second answers with the exact number
  of those who chose each option.

**Fairness.** `Commerce!FairSpec`: a handler that can go on does (weak, its
promise settles), and Stripe delivers a pending event again and again (strong,
because a slot may be busy at any moment). Nothing makes a customer pay or an
administrator confirm. `EfsJobs!FairSpec`: a worker and a poll go on, BullMQ hands
out waiting jobs and checks for stalled ones, `queue.add` returns, and somebody
keeps asking for a save that is not reported as SUCCEEDED; the catch of a rejected
`queue.add` writes the record. The front end polls
until it sees an end; the code has nothing else that would end such a save. The other
modules promise nothing of the kind, and state none.

## Findings

Each is a `violation` run; every step of its counterexample is a step of the mapped
handlers. None was reproduced on a running instance.

1. **A paid product is lost** (`lost_grant`): overlapping fulfilments of one
   enrollment write back stale `reportAccess`.
2. **An incomplete survey is published** (`efs_partial`) when a living worker
   loses its lock. Without that the active survey is complete, which is proved.
3. **A reassignment is undone** (`sessions_two_editors`): an edit writes the
   organization it read before its transaction and compares with that.

Others that the modules allow, or that came up while reading, and that no run is kept
for:

* A manual confirmation that fails at Zoho after its commit is not recorded in the
  audit log, and the order answers `alreadyPaid` from then on
  (`compatibility-payment.module.ts:659`); its Deal stays "Needs Invoiced".
* Two checkouts that overlap can both buy one product: ownership is checked against the
  enrollment read at the start (`compatibility-payment.module.ts:261`).
* A claim whose own answer is lost leaves its order claimed by nobody after one error
  (`compatibility-payment.module.ts:641`, `:715`): only a webhook can complete it.
* A committed save is on record as FAILED until somebody polls it.
* A sign-in under way during a deletion leaves a live session that a restore makes
  usable; an access token that has not expired is accepted again after its user is
  restored or comes back to an organization.
* Two requests can use one recovery key, or a failure leaves it usable
  (`account-access.module.ts:443`).
* A role that was allowed before a start-up made its user super administrator is
  written after it, and demotes him (`SuperAdminKept` names this case).
* Two refreshes of one token that overlap are both answered (`auth.module.ts:311`).
* Two requests that write one user's metadata undo each other: a second factor without
  its secret, or a temporary password that need not be changed
  (`account-access.module.ts:366`).
* An administrator created without a password gets a generated one that nobody is asked
  to change (`users.module.ts:1053`).
* Uploads, deletions, orders and swaps write `metrics` back whole, and with it the name
  of before a resynchronization (`compatibility-admin.module.ts:516`).
* The heading of two workbooks may carry the dates of another survey than their figures
  (`compatibility-reports.module.ts:2915`, `:3189`).
* `demographicResponseCounts` shows exact counts of options that fewer than the threshold
  chose (`compatibility-reports.module.ts:3237`), unlike the reports beside it.
* An administrator whose activation fails stays INVITED, with the name taken.
* Sorting that was bought in the store is marked as bought at Zoho by one
  resynchronization and revoked by the next (`sorted-verbatims-entitlement.ts:28`).
* A demographic column whose defined question lacks the `f_` prefix shows the total in
  every cell (`compatibility-reports.module.ts:2757`). The importer makes such questions
  of headers that begin with "1. Select" (`xlsx-survey-importer.ts:151`).
* Answers spelled "NA" or "Not Applicable / Prefer not to answer", with a score out of
  range, or with a reserved code and a score, count in one family of reports and are
  left out of another.
* An answer that is none of the captions of its question is counted among those who
  answered it, and in no row of Response Detail.

## Proofs

Seven modules prove every safety property that a passing run checks, for every value
of the constants. The assumptions are those the
modules state of their constants (`...Assumption`, mostly types), which TLC evaluates
on every instance. Two theorems have a hypothesis on the behaviour, because their
property is violated without it in a run: `PaidIsGranted` (`lost_grant`) and
`ActiveComplete` (`efs_partial`). All the others are about every behaviour of `Spec`, with
any number of slots serving any operations, and any data. PROJECT.json lists the
theorems.

| Module | Theorems |
|---|---|
| `CommerceProofs` | types, claims, audit, money before PAID, access is paid for, PAID is final, refinement of `PaymentLedger`; with a hypothesis, `PaidIsGranted` |
| `SessionsProofs` | types, replaced tokens are revoked, one answer per refresh token, assignments, previews, reassignments, refinement of `PreviewGrants` |
| `AccountsProofs` | types, one super administrator, who stays, second factors, temporary passwords |
| `EfsJobsProofs` | types, one active survey, SUCCEEDED is published, refinement of `SurveyPublication`; with a hypothesis, `ActiveComplete` |
| `EntitlementsProofs` | types, columns agree, accepted plans apply, what was reviewed is applied |
| `SurveyReportsProofs` | types, entitlement, hidden cohorts, one survey per reply, one agreement, columns and their cohorts |
| `SurveyTotalsProofs` | totals add up |

### CommerceProofs

For every set of orders, slots and operations, every prior entitlement and any number
of failures, lost answers and crashes; slots and orders may be infinite sets. None of the properties is
inductive. `CommerceInvariant` states the invariant `IInv`:

* `SlotShape`: a handler is at a place of its operation, with an order of a kind
  the operation can be about. Without it a webhook could be at `release`.
* `SlotInv(s)`: what a handler relies on across an await. An order it is creating
  has no row; the money of an order it fulfils on Stripe's word is there; an order
  it has claimed is claimed still, or PAID, and not recorded; the access it
  remembers was paid for (this carries stale writes).
* `OrderInv(o)`: the rows of an order, Stripe and the audit log agree; the payment
  method follows from kind and status (this is why PAID keeps its label).
* `CheckoutIsExclusive`: the order a checkout is creating is its own.

The argument: a step of handler `s` leaves the other handlers alone
(`OthersWait`), and what it does to the rows respects what they rely on
(`Respects`, `OtherSlots`), so it is enough to look at `s` itself (`Frame`). Steps
that write no order are `QuietStep`, and most of them free the slot
(`ReturnStep`) or move it (`GotoStep`); steps that complete or give back an order
are `SettleStep`. The refinement (`LedgerStep`) needs `IInv` for two things: the
row exists when money moves, and an order that is paid through Stripe is only
committed with its money.

`PaidIsGranted` is about behaviours in which the writers of the enrollment take turns:
`Spec /\ []WritersTakeTurns`. A handler may read the enrollment while another is about
to write it only if both fulfil the same order. `GrantInv` adds that what a writer has
read still grants every PAID order but its own, and that an invoice checkout puts its
keys back into the row it read. Every state of the run `live` satisfies
`WritersTakeTurns`; in `lost_grant` it fails, and a grant is lost. The theorem says
that stale writes are the only way to lose one, with any orders, retries and crashes,
and so what a version check on the enrollment would have to provide.

### SessionsProofs

For every set of users, organizations, sessions, grants and slots and any edits.

* Whatever overlaps: types, that a replaced refresh token is revoked
  (`SupersededRevoked`), and that `Sessions` implements `PreviewGrants`. `IInv` adds
  what a handler relies on (`SlotInv`: the rows it read still exist, the session it
  inserted names the one it replaces), that the parent of a session exists, that a
  preview token is of its grant, and that a grant is consumed exactly when its token
  was handed out. `SessionsKept` and `GrantsKept` say that no step deletes a row or
  undoes a revocation, which carries every handler that waits; `GrantEffect` says
  what a step may do to all grants, from which the refinement follows.
* A refresh token is good for one answer (`OneRefresh`), or was refreshed again while a
  refresh of it was under way: `rotateRefreshToken()` looks at the session and revokes it
  in statements of their own, so that two overlapping ones both answer. `RefreshInv` adds
  that any two requests that are refreshing one session have been seen to overlap
  (`OverlapsSeen`), and that until a refresh answers nobody holds another session in the
  place of the one it is about to replace (`Unanswered`): a failed refresh leaves a
  session that no client holds.
* Programs stay within the organization (`AssignmentsHold`), accepted previews within
  the assignment (`PreviewsWithin`), and a reassignment ends the sessions and previews
  (`ReassignmentsRevoke`), but for users and edits where an edit was written over an
  assignment that it had not read. `EditInv` adds that an edit under way was permitted on
  the row that it read, that a user who is not stale is connected with a program of his
  own (`Connected`), and what an exchange and a preview show while their grant is not
  revoked (`Within`). `update()` gives its new programs or organization to the same row
  that it compared them with, unless the row is another by then, which is what `stale`
  records. Without the exception the last is false, as `sessions_two_editors` shows.

### AccountsProofs

For every set of users, keys and slots.

* Whatever requests overlap: types, that a request under way finds its user
  (`TypeCorrect`), and that there is one super administrator at most
  (`SingleSuperAdmin`). The second relies on the trigger: a role that was checked
  awaits earlier is written only if the trigger finds no other. The first is not
  inductive: a recovery key leads to a user, and purging disabled users makes their
  keys dead. `IInv` adds that (`SafeKey`, and `SafeRequest` for a key that a request has
  taken). `RowStep` is every step that writes one user, `SlotStep` every step that only
  moves a request; deletions have their own lemmas.
* Of the users whose metadata nobody wrote back from an outdated read: a second factor
  has its secret (`SecondFactor`) and a temporary password must be changed
  (`TemporaryPassword`). A write from a current read changes one key of what the user
  has, so a row that was good stays good; `MInv` adds that a secret that a validation was
  accepted for stays while it waits (`SecretStays`), which is the one step that switches
  the second factor on without reading the row again. An outdated write makes its user
  stale, and nothing is said of him until he is removed.
* No step leaves the system without the super administrator it had (`SuperAdminStays`), but
  the write of a role that was let through when he was none yet. `RInv` adds that a
  change of role that was checked against a super administrator, or for one, changes
  nothing (`RoleAgrees`).

### EfsJobsProofs

For any number of saves, workers, polls, batches and faults.

* With every fault, lost locks included: types, one active survey (`OneActive`),
  SUCCEEDED means committed (`SucceededPublished`), and the refinement of
  `SurveyPublication` (`PublicationImplemented`). `IInv` adds that a survey that is or
  was active has its audit row for good (`Committed`), and what a worker relies on
  (`WorkerInv`): the surveys it is going to delete were active once and are not now,
  so they cannot come back, because a second publication would need a second audit
  row; and the program it read is the one that was reviewed. `Frame`, `StagingFrame`
  and `CommitStep` are the three ways a step can affect this.
* As long as no living instance loses its lock: the active survey has all its rows
  (`ActiveComplete`). `CInv` adds that one attempt of a save runs at a time
  (`Attempt`: its lock is its own, its save is not published, and its rows are the
  batches it has inserted) and that rows go with their survey (`Filled`). The
  hypothesis is necessary, as `efs_partial` shows.

### EntitlementsProofs

For any organizations, enrollments, slots, tables of Zoho and bounds of writes, under
`EntitlementsAssumption`: Zoho's tables list companies, and at first no two
organizations share an account and no two enrollments a program and an organization,
which are unique keys of the database.

* `EntitlementsAgree`: the columns of an enrollment agree as long as it was not written
  over from an older read (`stale`, which the property names). Every writer that awaits
  carries a copy with a version; the invariant says that a copy is the row as it is, or
  has a smaller version (`AsRead`): a row never comes back, and every write gives it a new
  version. So a write of a copy at the same version changes a row that agrees, and any
  other write marks the row as stale.
* `ReviewedApplies`: purchases change only to what a confirmed revision says, at the
  version it saw, although Zoho and the rows are read again. Names do too, but for
  the writers of `metrics` (uploads, deletions, orders, swaps), which can bring back the
  name that they read in another version, and no other (`ReadEarlier`); a row that is at
  the version it was read with has that name already (`AsRead`).
* `PlansApply`: a merge that `plan` accepts keeps the unique keys. A plan is made of
  `matching`, a recursive function over the rows of Zoho. That it has a value, and that
  what it matches was read (`MatchingFound`), is shown by the least counterexample: the
  set of numbers of rows at which it fails would have a least element (`Least`), which
  needs no induction theorem with an operator as a parameter.

### SurveyReportsProofs

For any organizations, surveys, questions, respondents, answers, filters, enrollments
and threshold. `ReportsAssumption` says what the tables are: organizations,
questions, options and respondents are finite sets, years and positions are numbers,
answers are to questions of their survey, no group of columns has the name of
everybody's, and reports without filters get none.

A reply is made in one step from the request it answers, so the argument is one lemma
per report: whatever was deleted, its cells are `Good`. `Good` has three parts, from
which the properties follow: `Entitled` (sorted verbatims only for those who may sort),
`Confidential` (what is disclosed is of large cohorts) and `Coherent` (what is disclosed
is what `Whole` counts). The figures of a workbook keep all three while its heading is
looked up (`HeadingKeeps`), and a heading that differs is of a later survey (`Headed`). `IInv` carries this: the rows of a survey are those that were
uploaded (`RowsOK`), a request is what it was when it was let in and its surveys exist,
perhaps deleted (`RequestOK`), and the reply that is shown is good for its request
(`ShownOK`). Each of four places where small groups are hidden needs its own reason:
the benchmark groups (`CohortsLarge` of both groups), the demographic columns (the
count of the first question with the option is at least the threshold, and the members
of the column include those it counts; for the respondents that are shown,
`BehindLarge`: they are the members if every label of the group has the prefix,
`LabelledAreMembers`, and everybody if none has), the categories of sorted verbatims, and the
captions of a Response Detail column.

`OneSurveyCounted` has an argument of its own. After a deletion a request keeps its
questions and finds no respondents, so that a share is of zero answers and discloses
nothing; before it, every operator of `SurveyReads` has the value that the same operator
of `Whole` has (the lemmas `Same...`, which assume `Kept`). The trend over two years reads two
surveys, each of which may be gone (`LastKept`).

Two more are about figures of different code, for any data.

* `OneAgreement`: four classifiers give one agreement but for the answers in a spelling
  that they sort differently, those that are not `Regular`. Each of these is left out of
  the benchmarks (`IrregularIsExcluded`), and any other answer counts alike, so the other
  figures differ by no more than the irregular answers (`CountedBeyond`).
* `ColumnsAreCohorts`: a column of a feedback workbook shows the agreement of those who
  chose its option if the labels of its group begin with `f_`, and of everybody if none
  does. A group that mixes both is in neither case.

### SurveyTotalsProofs

`TotalsAddUp` is about sums (`sum`, `MapThenSumSet`), which the community modules define
by a recursive function over the subsets of a set. The function that gives a subset the
size of the union of its parts satisfies the same equations (`SizesFold`); no other one
does (`FoldsCount`), because a smallest subset at which two of them differ would have a
smaller one. So a sum of the sizes of disjoint sets is the size of their union
(`SumCounts`), and what is left is to say which sets the figures count.

* An average row of a feedback workbook (`AverageCell`): the questions of the section are
  those of its category (`SectionQuestions`), each has its own answers, and their union
  is what the pooled share counts. This follows from `Coherent` alone, the part of `IInv`
  that says what the cells of the reply are.
* The rows of a question in a Response Detail column (`RowsHoldTheRest`): each member
  that answered it is in the row of its caption, if there is one. The importer stores
  whatever a cell holds, so an answer may have none (a code above 6 other than 99, a text
  of its own): it is counted among those who answered, and the total exceeds the rows by
  just these. The reply is made from the request in
  one step, and later steps leave it or remove it, so `RowsShown` is an invariant of its
  own, inductive beside `IInv`.

### What stays with TLC

* Liveness (`FundedIsFulfilled`, `FundedReachesCrm`, `SavedIsReported`,
  `EverySaveEnds`): TLAPS 1.4.5 has no rules for fairness and ENABLED.

## Not modelled

* **Historical import and survey definitions**: previews kept as drafts, the commit
  of a new program, the versions of a definition. One administrator's single
  transaction, over parsed workbooks; `EfsJobs` has the part that races.
* **Parsing and layout of workbooks**, and the best-practices reports with their own
  workbook: data that decides no state and no count.
* **Catalogue texts and prices, program and role editors**: writes of one row by one
  statement.
* **Codes, passwords, scopes, capabilities, audit texts**: they decide whether a
  request starts; every request is taken as one that may.
* **Users, responses and custom reports that a merge moves**; the fields of a Zoho
  form other than name, account and purchases.
* **Request plumbing, configuration, observability, the HTTP adapters and the read
  models** (tenancy, lists, dashboards): stateless, or nothing the other parts depend
  on.

What would come next: a refinement for `Entitlements` (an enrollment as its owner sees
it), and a model of the historical import with its drafts.
