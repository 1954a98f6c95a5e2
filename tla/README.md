# Models of the 876 platform's protocols

TLA+ modules, model-checking configurations and proofs for the parts of the 876
platform where correctness depends on the order in which independent processes
do things: finance provisioning, application runs, calendar sync, notifications,
the settlement of invoices, and the billing of subscriptions. All paths below are
relative to the repository.

1. [Inventory](#1-inventory) - the system's parts, their state and their hazards
2. [What is modelled](#2-what-is-modelled) - module by module
3. [Runs](#3-runs) - what is checked, with which bounds
4. [Fairness](#4-fairness)
5. [Proofs](#5-proofs)
6. [Where code and documents disagree](#6-where-code-and-documents-disagree)
7. [Abstractions and what is left out](#7-abstractions-and-what-is-left-out)
8. [Plan](#8-plan)

## 1. Inventory

876 is a set of services, each over a Postgres database of its own, that talk
over internal HTTP. Core (`apps/api`) owns identity, organizations, apps,
entitlements and provisioning; Billing (`apps/billing-api`) owns finance
workspaces and documents; Work, Projects, Communications, Storage, Couriers, CRM
and Commerce are application backends; the rest are user interfaces and shared
packages.

| Part | State | Operations | Hard behaviour |
| --- | --- | --- | --- |
| Reconcile and outbox, `apps/api/src/services/finance-provisioning*.ts` | `finance_provisioning_outbox`, `provisioning_runs`, `subscriptions.finance_lifecycle_version` | reconcile a pair, append an event, attach its run, activate an app | statements without a transaction; concurrent reconciles; requests that die halfway |
| Dispatch worker, `apps/api/src/workers/finance-provisioning-dispatch*.ts` | the claimed batch; row status and lock | claim, send, settle, targeted delivery | locks that expire under a live worker, timeouts, duplicates, crashes |
| Finance connections, `apps/billing-api/src/modules/finance-connections` | `billing_app_finance_connections`, `finance_provisioning_inbox` | ensure a connection from an event | READ COMMITTED transactions that overlap, unique keys, late requests |
| Provisioning runs and manifests, `apps/api/src/modules/provisioning` | manifest revisions, runs and steps | publish a draft, retry a run, claim and complete application-owned runs | publishing in two statements, unguarded read-then-update, leases |
| Organizations, apps, subscriptions, `apps/api/src/modules/{organizations,billing,modules}` | status and deletion columns | create, change, delete, restore | the changes that the plane has to follow |
| Customer sync outbox, `apps/api/src/workers/billing-customer-dispatch*.ts` | `billing_customer_outbox` | claim, send, settle | as the finance dispatcher, without versions |
| Calendar sync, `apps/work-api/src/modules/sync-connections` | sync lease per connection; cursor and event mappings per calendar | acquire, heartbeat, release; pull, settle, push, remove, store the cursor | work that outlives its lease, a run that dies half-way, edits on both sides meanwhile |
| Notification outbox, `apps/work-api/src/modules/notification-outbox` | outbox rows, source alerts and reminders | materialize, dispatch, mark the source | rows read without a claim, late answers, a failure after success, limits that starve |
| Automation, `apps/projects-api/src/workers/automation.ts` | event queue, webhook deliveries | claim, run rules, retry, give up | causation chains, retries |
| Settlement, `apps/billing-api/src/modules/{documents,payments,payment-intents,ledger}` | invoices, payments, credit notes, allocations, customer ledger, denormalized balances | finalize, send, void, write off; receive, correct, apply, refund, cancel; issue, apply, void | long sequences of corrections and reversals, statuses restored from the past, writers at a weaker isolation level |
| Subscription billing, `apps/billing-api/src/modules/{subscriptions,billing-engine}` | subscriptions, a billing run per period, scheduled changes | bill a due period or one in advance, apply scheduled changes; bill by hand, pause, resume, cancel, keep | sweeps that overlap, fail and come late; requests that check before they lock; invoices voided after the fact |
| Sessions and OAuth, `apps/api/src/modules/{oauth,sessions,auth}` | sessions, codes, refresh tokens | issue, rotate, revoke | mostly single-row updates |
| Storage, Communications, Couriers, CRM, Commerce | records in front of a provider | create, list, update | provider failures |

How the modelled parts interact.

*Finance provisioning.* A change in Core (an organization's status, an
activation, an operator's reconcile) makes a request handler *reconcile* the
pairs `<organization, app>` it concerns. For each subscription row the handler
derives the desired finance state and, when the newest outbox event of the pair
asks for something else, appends an event with the next *lifecycle version*.
Background workers (one per Core process) claim due rows with
`FOR UPDATE SKIP LOCKED`, post them to Billing and settle them on the answer.
Billing applies an event in one transaction, only if its lifecycle version is
newer than the connection's, and keeps a receipt per event. An activation waits:
it claims the events it caused by id, delivers them itself, and is ready when
every row says `delivered`. A run shadows each event for the console, where an
operator may retry a failed one.

*Application runs.* An app without finance gets a run without an event from the
same reconcile. The app's own backend claims it over HTTP, materializes its
manifest and reports how it ended; the operator retries a failed one; the dispatch
worker fails those that were claimed and never reported.

*Calendar sync.* A scheduler or a user starts a run for a connection. The run
takes the connection's lease, renews it by heartbeats, pulls what changed at
the provider since the stored cursor, settles it against the calendar's events,
pushes what changed here, stores the cursor and gives the lease back.

*Notifications.* A scheduler calls the worker. A call makes an outbox row per due
reminder, alert and occurrence, then hands the waiting rows to the gateway and
marks row and source.

*Settlement.* Payments and credit notes are allocated to finalized invoices and
taken back again; each allocation remembers what its invoice was like. A customer
ledger and two columns of the customer repeat what the rows say. A change of a
subscription voids the invoices that were made in advance for it, beside all this and
at READ COMMITTED.

*Subscription billing.* A scheduler calls the sweep. A sweep locks one due
subscription at a time, makes the invoice of its period (where *Settlement* begins)
and moves it to the next period, all in one Serializable transaction; a period may be
invoiced ahead of its time, and then only passes when it is due. Then it applies the
scheduled pauses, resumes and cancellations. A failure is recorded in a transaction of
its own. Users' requests run beside it, at READ COMMITTED; they pause and cancel, which
voids invoices made in advance, and they settle invoices and void them by hand.

What makes each part correct:

- *reconcile and outbox*: versions have no gaps, no state is published twice in a
  row, the newest event asks for what the tables say;
- *dispatch*: an event is never held for delivered unless Billing took it in,
  every event is delivered in the end, an event's run tells the same story;
- *connections*: an event is taken at most once, what is in effect is one event
  exactly as published, a newer state is never replaced by an older one;
- *activation*: ready means that what was waited for is in effect;
- *publishing*: replacing a revision takes nobody's access away;
- *application runs*: one run per revision, a run and its step tell the same, no
  run stays claimed for ever;
- *calendar sync*: one run at a time, no edit is overwritten unread, no change is
  skipped after a failure, and a sync without failures makes both sides equal;
- *notifications*: a due notice arrives, once, and is not called sent before;
- *settlement*: nothing is lost between an invoice's total and what it is split
  into, nor between a payment and what it was used for; statuses, dates, ledger and
  columns follow the amounts;
- *subscription billing*: a period has one invoice, none is skipped, what is over is
  not billed, and billing catches up with the calendar.

`PROJECT.json` lists the hazards line by line with the property that watches
each of them.

## 2. What is modelled

The models share no state across the parts, because the code shares next to none:
each part has its own database rows, and where two parts meet (the worker that
expires runs, the reconcile that creates one, the sweep that makes an invoice, the
payment of an invoice made in advance) the meeting is a step in both.

### 2.1 The finance provisioning plane

One pair `<organization, app>` is modelled. Every row, version and connection of
the plane is keyed by a pair, so pairs share nothing but a worker's batches; a
batch that holds other pairs' rows only makes this pair's rows wait longer, which
the model allows anyway.

```
FinanceVocabulary            desired state of the pair, derived from Core's tables
  FinanceOutbox              outbox rows, runs, claiming and settling, retry
    FinanceEnqueue           the callers: reconcile, enqueue, attach the run
  FinanceConnections         Billing's transaction
  FinanceDispatch            the dispatchers (outbox + connections)
FinanceProvisioning          all of it together; properties, invariant, fairness
DeliveryContract             what the plane promises, without its machinery
MCFinance                    instances for TLC
FinanceProvisioningProofs    safety, the contract, serial deliveries
```

| Module | Code | State | Actions |
| --- | --- | --- | --- |
| `FinanceVocabulary` | status sets, `effectiveSubscriptionState`, the revoke branch and the status override of `enqueueFinanceConnectionEvent` | - | operators `DesiredPayload`, `GrantedPayload`, `RevokingPayload` |
| `FinanceOutbox` | `finance-provisioning-dispatch.repository.ts`, `retryRun` | `outbox`, `runs`, `retry` | `ClaimRows`, `MarkDelivered`, `MarkFailed` (one transaction each); `RetryRead`, `RetryEvent`, `RetryRun` (one statement each), `RetryAborts` |
| `FinanceEnqueue` | `finance-provisioning.ts` and its repository, `promoteDraft`, the changes of Core's tables | `subs`, `subVersion`, `standing`, `manifest`, `archived`, `appRuns`, `caller` | one per statement that others can see or disturb: `ReadStanding`, `ReadManifest`, `ReadSubscriptions`, then on the latest event `NothingToGrant`, `AlreadyPublished` or `DecideNewEvent`, then `StampSubscriptions`, `CreateEvent`, `CreateRun`, `LinkRun`; `EnqueueAborts` after any of them; `ArchivePublished`, `PromoteDraft` |
| `FinanceConnections` | `applyFinanceProvisioningEvent`, `ensureFinanceConnection` | `connection`, `inbox`, `requests`, `replies` | `AnswerDuplicate`, `ReadConnection`, `CommitEvent`, `RejectEvent`, `RollBack` |
| `FinanceDispatch` | `deliverClaimedRows`, `deliverFinanceProvisioningEvent`, `dispatchFinanceProvisioningOnce`, `parseFinanceProvisioningReceipt` | `dispatch` | `ClaimBatch`, `SendEvent`, `TimeOut`, `ConfirmDelivery`, `ConfirmationThrows`, `RecordFailure`, `AbandonBatch` |
| `FinanceProvisioning` | `ensureFinanceProvisioningDelivered`, `ensureAppReady` | all of the above | `ClaimByIds`, `CheckDelivered`, `AnswerReady`, `ActivationDies` |

Points of the code that decide how the model looks:

- `enqueueFinanceConnectionEvent` names a variable `locked`, but reads it with a
  plain `findUnique`. Nothing is locked and no transaction spans the calls, so a
  caller carries a *snapshot* (`snap`) of what it read from step to step.
- The outbox has the unique key `(aggregate_id, lifecycle_version)`. A second
  insert of a version fails and its request ends (`CreateEvent`).
- Claims, and settling a row, are transactions and thus single steps. Settling
  only tests that the row is `processing`, not whose claim made it so.
- Billing's transaction is two steps, because READ COMMITTED lets others commit
  between its read and its write. `CommitEvent` decides on `r.seen`, the
  connection read, and overwrites `connection`. The receipt lookup and the read
  of the connection share a step: a receipt that commits in between is found by
  the unique key at the end, as it is in the code.
- A dispatcher that stops waiting leaves its request behind: it is lost, or goes
  on inside Billing as an *orphan* (`LeaveRequest`).
- The foreground path (`exactState`) demands the exact version in the answer, the
  background path a version at least as new (`Proves`).

`DeliveryContract` is the abstract specification: a gapless history is published,
each published state is taken in at most once, the effective state is one that
was taken in, and only such states count as delivered. The refinement mapping in
`FinanceProvisioning` (`Contract`) reads the history from the outbox payloads,
what was taken in from the inbox, the effective version from the connection, and
what is delivered from the row status.

### 2.2 Application runs

`ApplicationRuns` models the runs without an outbox event of one subscription and
app: `createRunForApplication`, `claimApplicationRun`, `completeApplicationRun`,
`retryRun` and `expireStaleApplicationRuns`.

| State | Code |
| --- | --- |
| `appRuns`, `appSteps` | rows of `provisioning_runs` and of their one default step |
| `published` | the revision a reconcile reads |
| `requests` | requests being served: what they have read and what they write next |
| `overtaken`, `doubled` | history: runs on which two requests worked at a time, or that a request left half written; revisions for which two reconciles found no run at one time |

Except for the expiry, which is a transaction that locks what it fails, each
operation is a read, a write of the run by id and a write of its step, so it is
three actions (`FindClaimable`, `ClaimRun`, `ClaimStep`; `FindProcessing`,
`CompleteRun`, `CompleteStep`; `FindFailed`, `RetryRun`, `RetryStep`; `FindNoRun`,
`CreateRun`, `CreateStep`), and `AbandonRequest` may end it between any two. A write
does not repeat the test of its read. `claimApplicationRun` decides about the
step by the step as it was returned with the run, hence `requests[q].step`.

### 2.3 Calendar sync

```
SyncLease        the lease: acquire, heartbeat, expiry, release; the user's changes
  CalendarSync   what a run does while it works
```

`SyncLease` is both a component and an abstraction. Its row `connection` is the
`WorkSyncConnection`: status, whether there is a credential, the lease's token and
whether the lease is past its end. A run checks the connection
(`CheckConnection`), asks for the lease (`AcquireLease`), works, turns a failed
heartbeat into an exception (`Conclude`) and releases by token (`ReleaseLease`).
What the work does is open there (`AnyWork`). Nothing in the code stops a run that
lost its lease, and nothing in the model does; such runs are recorded in `lapsed`.

`CalendarSync` EXTENDS it and fills the work in, from `syncCalendar` and
`pullProviderCalendar`. `syncs[r]` is what run `r` has read (changes, events,
mappings) and still has to do: it keeps working from its own copy while others
change the tables. One action per branch: `PullChanges`, `ReadLocalEvents`,
`ReadMappings`; for a pulled change `PullDeletion` (recreate, delete here or only
drop the mapping), `PullNew`, `PullChange` with one of the resolutions of
`resolveSyncConflict`; then `PushEvent`, `RemoveThere`, and `SaveCursor`. A write
to an event and the write of its mapping are two statements, so every action of
the first kind leaves a `todo` that `SaveMapping` carries out; `FailSync` and
`CrashRun` may come in between. The provider is external: a numbered log of
writes, conditional writes by etag, and a full listing when it does not know the
cursor. `SyncSpec` implements `LeaseSpec` (proved, with the identity as the
refinement mapping: the lease's variables are the sync's own).

### 2.4 Notifications

`NotificationOutbox` models `materialize` and `dispatch`. `notices` stands for
reminders and alerts, `outbox` for the rows of `WorkNotificationOutbox` by notice
and occurrence, `notifiers` for calls that may overlap, each with the rows it read
(`FirstOf(Pending(n), BatchLimit)`) and where it is with the foremost one.
`Send` has the gateway's three outcomes: answered, refused, and delivered without
an answer in ten seconds. `MarkDispatched` and `MarkSourceDelivered` are two
statements; `UpdateThrows` is the `catch` around both, which marks the row failed,
the dispatched one too; `CallFails` is an exception outside the `try`, or a crash.
Users change and remove notices (`UpdateNotice`, `RemoveNotice`).

### 2.5 Settlement

```
Receivables      rows, allocation and reversal, ledger keys, columns (operators)
  Settlement     the operations on invoices, payments, credit notes, intents
```

| State | Code |
| --- | --- |
| `invoices`, `payments`, `notes` | the rows, with the amounts and of the dates only what a status depends on |
| `applied[s][i]` | live allocations of a payment or note on an invoice, with the status and payment date each one remembered (`before`) |
| `ledger` | customer ledger entries by idempotency key |
| `columns` | `outstanding_receivable`, `unused_credits` of a customer |
| `edits`, `issuing` | edits of an invoice, and issues of a credit note, that have read and not yet written |
| `invalidating[i]` | the transaction that invalidates advance invoice `i`: how far it has come, the row as it read it (once done: as it overwrote it), the columns it is to write |

One action per operation: `CreateDraft`, `FinalizeInvoice`, `FinalizeWithCredits`,
`SendInvoice`, `MarkOverdue`, `VoidInvoice`, `WriteOffInvoice`; `CreatePayment`,
`UpdatePayment`, `ApplyPayment`, `RefundPayment`, `CancelPayment`, `ConfirmIntent`;
`ApplyCreditNote`, `RefundCreditNote`, `VoidCreditNote`. These are Serializable
transactions in the code, so a single step each. What is not Serializable takes
several: an edit checks the status and writes later (`BeginEdit`, then `WriteLines`,
`WriteDates` or `DeleteDraft`), and the issue of a note sums the customer's rows
before others commit (`BeginIssue`, `CommitIssue`; `createSubscriptionCredit`, the credit
of a pause, does the same). `invalidateAdvanceInvoices`, called in the transaction of a
pause, a cancellation, a removal or an amendment of the subscription, takes three:
`ReadAdvance` (the invoice and its allocations, and the refusal if there are any),
`WriteAdvance` (VOID and due 0 by id, whatever the row has become; from then on the row is
locked, `RowLocks`, and the columns are summed) and `CommitAdvance` (void, ledger entry of
what was due when it was read, columns), or `AbortAdvance`. `VoidInvoice`, the void by
hand, tests and writes in one Serializable step. A reversal writes back the
status and date its allocation remembered; of several allocations of one source
on one invoice any may be written back last (`Restorations`), since the rows are
read in no stated order. `recordLedgerEntry` never updates (`Recorded`).

### 2.6 Subscription billing

`SubscriptionBilling` models one subscription; a sweep handles each in a transaction
of its own, so several only make each other wait.

| State | Code |
| --- | --- |
| `subscription`, `terms` | the row: status, period, service period, the dates of the next invoice and of the next one in advance, cycles left; `billingTiming`, and whether invoices are made in advance (the preference and the subscription's own switch together) |
| `schedules` | lifecycle schedules that are `SCHEDULED`; those applied, skipped, canceled and failed are never read again |
| `billingRuns[p]` | the run of the period that starts at `p`: status, `isAdvanceBilling`, whether `periodAdvancedAt` is set |
| `issued`, `voided`, `settled` | how many invoices were made for a period; which of them, `<<period, number>>`, are void, and which have payments or credits |
| `billers[b]` | calls of the sweep or of billing by hand: the phase, and in a transaction its snapshot and the row as it has it |
| `clerks[c]` | requests: what was checked before the transaction, the advance invoices found |
| `voidedLate` | history: periods whose invoice a request voided after they had passed |
| `byHand`, `reopened` | history: invoices voided by hand, and void ones that the reversal of a payment reopened |

Actions of a sweep: `BeginSweep`, `ClaimDue` (the lock and the snapshot) or
`ClaimNothing` (nothing is due, or another has the lock: `SKIP LOCKED`);
`ApplyBeforeBilling` for each schedule that precedes the period; then a commit,
`SkipBilling`, `PassPeriod` (invoiced in advance) or `InvoicePeriod` (in advance, the
last period of a cancellation in arrears, or an ordinary one), or `CannotSerialize` or
`BillingFails`, after which `ReadFailedPeriod` and `RecordFailure` are statements of
their own; then `PickSchedule`, `ApplyPicked` or `PickedFails` until nothing is due
(`EndSweep`). `SweepDies` may come anywhere. `BillNow` is billing by hand, which waits
for the lock. A request is checked (`Ask`, `AskToKeep`), reads the invoices it is to
void (`ReadAdvanceInvoices`) and commits (`PauseOrCancel`, `Resume`,
`KeepSubscription`) or finds them gone (`RequestFails`). Beside it users apply payments and
credits to an invoice (`Settle`), take them back (`Unsettle`), and void an invoice that has
none (`VoidByHand`); the amounts are `Settlement`'s.

Points of the code that decide how the model looks:

- While a call is `billing` it has the row lock. A request's transaction inserts rows
  that refer to the subscription, whose foreign key takes a share lock on it; so
  requests commit when nobody bills, but they may check and read while someone does.
- Serializable snapshots: a call works on `sub`, `plan` and `runs` as it found them,
  and `Conflict` ends it if a row it must update was changed or is locked by another
  transaction. A run is `PROCESSING` inside the transaction only, where nobody else
  sees it.
- `recordBillingFailure` reads the subscription afresh, so it may record the failure of
  another period than the one that failed.
- `processDueLifecycleSchedulesAcrossTenants` is READ COMMITTED: the status is read when
  the schedule is picked, and the row is changed by id.
- `invalidateAdvanceInvoices` reads runs and allocations and later voids and deletes by
  id. A payment in between is not seen, and its reversal gives the void invoice its former
  status back (`Unsettle`), beside the invoice that the period has got by then.
- `voidInvoiceWorkflow` leaves the billing run `SUCCEEDED` (deleting a draft deletes the
  run), and `billSubscription` looks at the run only: a period whose invoice was voided by
  hand gets no other, and passes when it was invoiced in advance.

## 3. Runs

Runs are named here by their `.cfg`.

| Run | Question | Bounds | Result |
| --- | --- | --- | --- |
| `FinancePublish` | Do concurrent reconcilers publish a consistent history? | 2 callers, 2 subscriptions, organization open or inactive, a revision with and one without finance, 2 versions | `ConsecutiveEventsDiffer` holds |
| `FinanceDeliver` | Do types, runs, the inductive invariant and the contract hold with every kind of actor? | an activation, a worker, an operator, a subscription that appears, 2 revisions, 2 versions | `TypeOK`, `SucceededRunWasTaken`, `IInv`, `KeepsContract` hold |
| `FinanceOverlap` | What survives overlapping deliveries and a request that outlives its sender? | an activation, a worker, an orphan, a subscription that is canceled, reactivated or deleted, 3 versions, from the moment the first is delivered | `DeliveredWasTaken`, `ConnectionIsAsPublished`, `ReadyWasTaken` hold |
| `FinanceSerial` | With one dispatcher, is every event delivered, and are newer states kept? | a caller, a worker, 2 versions, from the moment the first is published | `NewestWins`, `DeliveredIsInEffect`, `EventsGetDelivered` hold |
| `FinanceRegress` | Are newer states kept when deliveries overlap? | as `FinanceOverlap` without the orphan | `NewestWins` is violated |
| `FinanceRunLag` | Has a delivered event's run succeeded? | a caller, a worker, 2 versions | `DeliveredRunSucceeded` is violated |
| `FinanceReady` | Was what an activation waited for ever in effect? | an activation, another caller, a worker, 2 versions | `ReadyWasInEffect` is violated |
| `FinanceDiverge` | Is the newest event up to date when nobody is at work, if the tables change only by status changes and nothing fails? | 2 callers, 2 subscriptions, 3 versions | `NewestEventIsCurrent` is violated |
| `FinanceUnpublished` | Does publishing a revision leave access alone? | a caller, 2 revisions that need finance | `PublishingKeepsAccess` is violated |
| `Jobs` | What do overlapping, failing and dying jobs keep: application runs, calendar sync under its lease, notifications? Does billing catch up? | see below | 11 invariants and 6 temporal properties hold |
| `Settlement` | Whatever is paid, corrected, refunded, credited, voided, written off and edited in whatever order, do invoices, sources, ledger and columns agree? Whatever sweeps and requests overlap and fail, is each period invoiced once? | see below | 10 invariants, `ReceivableFollows` and `OverIsFinal` hold |
| `SettlementWriteOff` | Is every write-off in the ledger? | one invoice, one payment | `WriteOffsAreInLedger` is violated |

What `Jobs` and `Settlement` show:

- application runs: `OneRunPerRevision`, `StepFollowsRun`, `RunLifeCycle` hold of
  every run on which no two requests worked at a time and that no request left half
  written; `StaleRunsExpire` of every run;
- calendar sync: `WorksUnderLease` (two runs work at a time only after one of them
  lapsed); `NoBlindOverwrite` (no edit at the provider is overwritten unread,
  lease or no lease); `CursorCovers` (no failure or restart makes a change be
  skipped); `QuietSyncConverges` (a two-way sync that succeeds undisturbed leaves
  both sides equal, whatever earlier runs left half done);
- notifications: `DeliveredOnce`, `AttemptsBounded`, `SentWasNotified`, and
  `DueIsNotified` (a due notice is dispatched, given up or changed, unless clogged
  notices fill the list of due ones);
- settlement: `InvoiceConserved`, `CollectibleIffOwed`, `PaidAtTellsPaid`,
  `AllocationsAccountForInvoice`, `SourceConserved`, `LedgerAccountsForReceivable`
  (the exact gap between ledger and rows: intents, second write-offs, and what an
  invalidation struck out beyond what it entered), `ReceivableFollows` (every Serializable
  transaction that moves a customer's sums also rewrites the columns). A payment that
  meets an invalidation costs exactly what `Struck` says: `InvoiceConserved` names that
  amount when the payment is canceled and the invoice reopens, and `PaidAtTellsPaid` the
  void invoice that keeps a payment date;
- subscription billing: `OneInvoicePerPeriod` (a period has an invoice that is not void
  exactly if its run succeeded, and never two, but for one voided by hand, which leaves
  the run, and one that a reversal reopened); `PassedPeriodsAreInvoiced` (no period
  since the billing anchor is skipped, unless a request voided its invoice which had
  found it still ahead, or the invoice was voided by hand); `OverIsFinal` (a canceled or
  ended subscription is not invoiced, and only an actor that had read it before can open it
  again); and in
  `Jobs` `BillingCatchesUp` (a period that is due does not stay so).

The exceptions in these properties (`overtaken`, `lapsed`, `contested`,
`unsettled`, `rewritten`, `invalidating`, `voidedLate`, `byHand`, `reopened`, ...) are
history variables that name when the code gives the guarantee up: each stands for an interleaving or a fault whose trace breaks the
plain statement.

*Several small instances in one run.* `MCJobs` and `MCSettlement` add a variable
`scope`, chosen at the start and never changed, and a condition per scope on what
a behaviour may use. So one run explores several small instances, each rich in one
respect, in place of one instance that is too large. `MCJobs` composes the three
job modules and the billing sweep, `MCSettlement` settlement and subscription billing; a
behaviour belongs to one of them. Where settlement and subscription billing meet, at the
invoice of a period, each has the other's side as actions of its own: settlement the
invalidation of an advance invoice, subscription billing `Settle`, `Unsettle` and
`VoidByHand`. `MCBilling` has the scopes of
`SubscriptionBilling`, for both.

| Scope | Instance |
| --- | --- |
| `sync` | two runs one after the other, 2 ids on each side and 2 mappings, 2 contents, 2 edits, 4 writes at the provider, failures anywhere, both directions (one edit when only pulled) |
| `overlap` | two runs that crash and lose the lease to each other over one event, one edit |
| `lease` | heartbeats fail and the user acts, over an empty calendar |
| `runs` | one run, claimed up to twice, two requests |
| `two runs` | two runs, two revisions, two requests that never meet on one run |
| `two calls` | a notice, two overlapping calls, a fault |
| `changes` | a notice, a call, a change by the user, a fault |
| `crowd` | two notices, `DueLimit` and `BatchLimit` 1, a change by the user |
| `recurring` | a notice and a recurring one, a fault |
| `two sweeps`, `retry` | of subscription billing, as below |

Times are 1..2, `Window` is 1, `MaxAttempts` 2. `Settlement` has the scopes "two
payments on an invoice", "a payment, a note, due dates", "a payment and an edit",
"a payment on two invoices", "a note on two invoices", "the payment of an intent",
"edits of dates", and with an invalidation of an advance invoice "a payment" and "a note
and an edit"; amounts are 1 and 2, totals 0 and 2, a payment is corrected
once, and invoices, and payments, are interchangeable (`SYMMETRY`; `ReceivableFollows`
is an action property, not liveness).

Of `SubscriptionBilling`, with `Cadence` 2, `Lead` 1, the times 0..3, and subscriptions
active or on trial:

| Scope | Instance |
| --- | --- |
| `one sweep` | one call at a time, in advance and in arrears, with and without a limit of cycles, a request of any kind |
| `two sweeps` | two overlapping calls, a fault |
| `retry` | one call at a time, a request, a fault; a period billed in advance fails and is tried again |
| `two requests` | two requests that take effect at once, beside a call |
| `changed mind` | a cancellation, and a request to keep the subscription |
| `schedules` | two overlapping sweeps come upon a scheduled change, in arrears |
| `invoices` | one sweep at a time, a pause or cancellation at once or at the last day, and invoices of any period that are settled, taken back and voided by hand at any moment |

Why these are enough. A lease, a run or a row is contended by pairs, and the loser
of a race leaves or repeats; two revisions give each run a predecessor;
two attempts give the first, the last and one after the limit; two amounts give a
partial and a full payment and a total of 0 the invoice that is paid at once; a
payment moved to another customer needs two customers. A period is contended by two
calls or a call and a request, the lock keeps a third one out; the times give a
period that is due, the one after it, and one invoiced ahead of its time. The two limits are 1, so that
they are reached.

Why the finance bounds are enough. Two versions are the least with an older and a newer
event; the third one in `FinanceOverlap` lets two undelivered events compete
about a connection that exists already, which is a different branch of Billing's
transaction from the first event. Two reconcilers give every pairwise race for
the next version; a third one can only repeat it, since the loser of the race
ends. A worker and an activation are two dispatchers of the two kinds there are,
with all claims of each other's rows, because any processing row may be claimed
again at any time. Two subscriptions give both the loop over rows and the
stamping of several rows. The runs that start later (`MCProvisionedInit`,
`MCPublishedInit`) start in states the whole specification reaches: the first
event published, or delivered, while nobody is at work.

`MaxVersion` bounds the history: the caller that would exceed it stops before it
decides. `MaxOrphans` bounds requests without a sender; beyond it such a request
is lost, which is also possible in the code. `BatchSize` is 2, so that a batch may
hold an older and a newer event.

`CHECK_DEADLOCK FALSE` is set where the system really may stop: in
`FinanceDeliver` when the last revision was archived and nothing is left to
activate, in `FinanceOverlap` when the only subscription row was deleted, and in
`FinanceDiverge` when all versions are used; in `Jobs` when all runs of the sync
are over, no request has anything to do or all notices were handled at the last
time; and in `Settlement` and `SettlementWriteOff` when everything is void or
canceled and no new row may be created. All other runs check deadlock.

Every property of a passing run is also run against a mutated definition of the
code (`Matches` that looks at live connections only, `Accepted` on any answer,
`Newer` without the version test, a push that names no etag, a cursor stored
before the changes are settled, a reversal that leaves the status, ...), listed in
`PROJECT.json`; TLC finds each of them.

## 4. Fairness

`Fairness`, of the finance plane, assumes something of workers and of Billing only. The worker's loop
(`runFinanceProvisioningWorker`) never ends, polls for ever, and no attempt
counter ever gives a row up; a lock that expired makes a row due again. Hence

- a claim that is possible again and again is made, at some time with every row
  due (`SF` of `ClaimBatch(w, Versions)`: backoff and locks run out);
- a claimed row is sent again and again (`SF` of `SendEvent`), and of the requests
  sent not every one is lost or rolled back (`SF` of Billing's steps);
- of the accepted answers not every one fails to be recorded, nor does the process
  die before recording it every time (`SF` of `ConfirmDelivery`);
- recording a failure is only weakly fair: `RecordFailure` stays possible until it
  happens or the process dies.

Strong fairness is needed because each of these steps competes with a failure
(timeout, rollback, crash) that may win any single time but, in a system that
works at all, not every time. Callers and operators owe nothing: a request may
die anywhere. The run has no operator: one who retries exactly while each answer
comes in could keep an event from ever being settled.

Liveness is stated for one dispatcher and no orphans, a case in which Billing's
transactions never overlap (`OneDispatcherSuffices`, section 5). With overlapping
deliveries it does not hold, as a consequence of the first finding below: after
an older event replaced a newer one, Billing answers every redelivery of the
newer event with the older version, and Core refuses that answer as stale for
ever.

`RunsFairness` assumes that time passes (`WF` of `GoStale`) and that the worker
expires stale runs (`WF` of `ExpireStale`): `dispatchFinanceProvisioningOnce` does
so at the start of every round of a loop that never ends
(`apps/api/src/workers/finance-provisioning-dispatch.ts:189-196`), and catches its
exceptions. `StaleRunsExpire` needs no more: materializers and operators owe
nothing.

`OutboxFairness` assumes that the scheduler keeps calling and that a call goes on
until it ends (`WF` of `CallStep(n)`). Faults are bounded by `MaxFaults`: a system in
which every call fails delivers nothing, and the property does not claim it does.
The gateway owes nothing: `DueIsNotified` allows for a row that is given up.

`BillingFairness` likewise assumes that the scheduler keeps calling
(`apps/billing-api/src/modules/billing-engine/billing-engine.routes.ts:42-82`, a daily
cron among the callers) and that a call goes on until it ends (`WF` of `SweepStep(b)`).
Faults are bounded by `MaxBillFaults`, as above; conflicts are not, and need not be: the
other side of a conflict has got further. Users owe nothing.
In `Jobs` it is stated of the steps that the scope of a behaviour has
(`JobsSweepFairness`); fairness of a call that the scope never lets begin would exclude
every behaviour. For the same reason `StaleRunsExpire` is checked in the scope `runs`
only: in `two runs` no run goes stale.

`SyncSpec` and `Settlement` state no fairness; nothing has to happen there.

## 5. Proofs

The theorems hold for every value of the constants, from the named assumptions on
them only (`SubscriptionsAssumption`, ..., `SyncLeaseAssumption`,
`CalendarSyncAssumption`, `MarksAssumption`, `ApplicationRunsAssumption`,
`NotificationOutboxAssumption`, `ReceivablesAssumption`, `SettlementAssumption`,
`SubscriptionBillingAssumption`, `NeverIsNoRun`):
any number of callers, workers, runs, requests, calls, events, invoices, payments
and amounts, any length of a period, and any value of the bounds. What these
assumptions ask for is what any database gives: the sets of invoices, payments, credit
notes and of calls at work are finite, a payment is not an invoice, the counter of the
provider's writes goes at least to 1 (`MaxTick`), and the values that mark an event or a
mapping as absent are not events or mappings.

Every safety invariant and every action property that a passing run checks is the
conclusion of a theorem. One pair of them carries a condition in the theorem: see
`OneTransaction` below.

| Theorem | States |
| --- | --- |
| `InvariantHolds` | finance plane: `Spec => []IInv` |
| `TypesHold` | every variable has its type |
| `DeliveredWasTakenHolds` | `delivered` in Core implies a receipt in Billing |
| `SucceededRunWasTakenHolds` | a succeeded run implies a receipt in Billing |
| `ConnectionIsAsPublishedHolds` | the connection is one event as published, with an `applied` receipt |
| `ConsecutiveEventsDifferHolds` | no gap and no repetition in the history |
| `ReadyWasTakenHolds` | ready implies receipts for all that was waited for |
| `PlaneKeepsContract` | `Spec => KeepsContract`, the refinement |
| `SerialDeliveriesTakeEffect` | `DeliveredIsInEffect`, in every behaviour in which no two of Billing's transactions overlap |
| `SerialDeliveriesKeepNewest` | `NewestWins`, in the same behaviours |
| `OneDispatcherSuffices` | both without a condition, for one dispatcher whose requests do not outlive it |
| `SyncImplementsLease` | `SyncSpec => LeaseSpec`: whatever the work does, a sync keeps to the lease |
| `SyncWorksUnderLease`, `SyncLeaseTypeCorrect` | hence `WorksUnderLease` and the lease's types in every sync |
| `RunsRespectEdits` | `NoBlindOverwrite`, for overlapping runs too |
| `SyncTypeCorrect` | the types of the calendar sync |
| `CursorNeverSkips` | `CursorCovers` |
| `QuietSyncsConverge` | `QuietSyncConverges` |
| `RunsTypeCorrect` | the types of application runs |
| `RevisionsGetOneRun` | `OneRunPerRevision` |
| `StepsFollowRuns` | `StepFollowsRun` |
| `RunsKeepLifeCycle` | `RunLifeCycle` |
| `OutboxTypeCorrect` | the types of the notification outbox |
| `NotificationsArriveOnce` | `DeliveredOnce` |
| `SentNoticesArrived` | `SentWasNotified` |
| `RowsAreGivenUp` | `AttemptsBounded` |
| `InvoicesAreConserved` | `InvoiceConserved` |
| `OpenInvoicesAreOwed` | `CollectibleIffOwed` |
| `PaymentDatesTellPaid` | `PaidAtTellsPaid` |
| `SettlementTypeCorrect` | the types of settlement |
| `AllocationsAddUp` | `AllocationsAccountForInvoice` |
| `SourcesAreConserved` | `SourceConserved` |
| `LedgerTellsTheReceivable` | `LedgerAccountsForReceivable` |
| `ColumnsFollow` | `ReceivableFollows` |
| `PeriodsGetOneInvoice` | `OneInvoicePerPeriod` |
| `OverStaysOver` | `OverIsFinal` |
| `BillingTypeCorrect` | the types of subscription billing |
| `NoPeriodIsSkipped` | `PassedPeriodsAreInvoiced` |

None of the properties is inductive by itself.

*Finance plane* (`FinanceProvisioningProofs`). `IInv` adds what carries the properties through the
in-between states, each part a named definition:

- `HistoryIsComplete` and `CallersAreGrounded`: what a handler carries from one
  statement to the next still fits the tables. A version chosen from an old read
  has all lower versions below it, and its payload differs from the payload right
  below; payloads never change once published, so this survives any interleaving.
  It gives `ConsecutiveEventsDiffer`.
- `RequestsCarryEvents`: a request, however late, carries the payload that was
  published under its version. With `ConnectionHasReceipt` it gives
  `ConnectionIsAsPublished`, although transactions may overwrite each other.
- `RequestsAreCurrent` and `RepliesAreProof`: a dispatcher has at most one open
  request, about the row it is waiting for, and no answer before it; so an answer
  with a version proves that a receipt exists for this row. This is what timeouts
  could break and `LeaveRequest` preserves. It gives `DeliveredWasTaken`,
  `SucceededRunWasTaken` and `ReadyWasTaken`.
- `RunsHaveRows`, `RetriesHaveRows`, `BatchesHaveRows`, `ActivationsInTurn`: no
  pointer to a row that does not exist, and an activation dispatches only while
  it waits.

The proof splits `IInv` into what callers hold and the plane they share, and shows
for every action what it preserves; two monotonicity facts (`HistoryGrows`,
`InboxGrows`) carry each half over the steps of the other. The refinement maps
each action to a step of the contract or a stutter. The lemmas about the derived
payload say that it exists and has its type, because the first of a non-empty set
of naturals does.

`NewestWins` and `DeliveredIsInEffect` do not hold of every behaviour, as the run
`FinanceRegress` shows. The theorems give the exact place: they assume
`[]OneTransaction`, that of the transactions which have read the connection and not
yet written it there is one at most. This is what a row lock in Billing would give. Nothing else
is assumed: dispatchers may overlap, requests outlive their senders, answers get
lost. `SerialInv` says that what such a transaction read is still so, and that no
answer on its way names a newer version than the connection has.
`OneDispatcherSuffices` shows that the instance of `FinanceSerial` (one
dispatcher, `MaxOrphans` 0) meets the condition in every behaviour, for any number
of callers, operators and versions.

*Lease* (`CalendarSyncProofs`). `LeaseInv` adds `ExpiredMeansLapsed`: a run whose lease is
past its end has lapsed although the row still has its token. Without it
`AcquireLease` could take the token from a run that is not in `lapsed`. The
refinement is shown action by action; what is proved of `LeaseSpec` then holds of
`SyncSpec`.

*Calendar sync* (`CalendarSyncProofs`). `SeenInv`: every etag a mapping, a run's copy
of a mapping, a pulled change or a pending `todo` holds is one that no unseen edit
has (`Seen`). A push succeeds only where its etag is the current one, so it cannot
hit an unseen edit. Which event an etag was read for is left out on purpose: with
overlapping runs nothing could be said of that. The proof uses neither the lease
nor the unique keys of the mappings.

`CursorCovers` and `QuietSyncConverges` share an invariant, `CoverInv`, beside the
types (`CalendarTyped`). `PlainInv` holds of every run; `WorkInv` as long as no lease
lapsed, when by `WorksUnderLease` the run that has begun works alone. Between runs
(`Covered`) every event that the cursor has passed has a mapping that tells its etag and
content, and a mapping that does not is about an event the cursor has not passed. During
a run (`AtWork`) what it read is so still, but for what users have edited since (`Newer`);
what it pulled and has not settled is as it pulled it; and every event it has settled
will be mapped as it is once the row at hand is saved (`KeptFor`, `WrittenFor`). Each
stage of a run has a lemma that says what it leaves.

*Application runs* (`ApplicationRunsProofs`). `TypeInv` grounds a request in a run
that exists. `RevisionInv`: a reconcile that is about to create a run has found none
of its revision, or the revision is in `doubled`. `TurnInv`: as long as a run was not
overtaken, it has the status its one request expects (`Expected`), and the step the
status that a half-done request left it (`StepLeft`); it gives both `StepFollowsRun`
and `RunLifeCycle`.

*Notifications* (`NotificationOutboxProofs`). A call works on the foremost row of
those it read; that there is one (`ForemostIn`) follows from the well-foundedness of
finite sets. `OnceInv` says where a row may be that has arrived and is neither
unsettled nor contested: it is marked dispatched, or the one call that sent it is
about to do so, and no other call has it in hand. `TimelyInv`: unless its notice was
changed, an open row is for the time its notice has. `AttemptsInv` counts: a row's
attempts, the calls that hold it (`Holders`) and those of them that may mark it twice
(`Untried`) never exceed the bound together. Each mark is paid for by a call that leaves
one of the two sets, and a call enters them only while the attempts are few.

*Settlement* (`SettlementProofs`). A reversal puts an invoice back into a state that
an allocation remembered, so the invariant speaks of these moments: each was an
invoice that could be collected and had no payment date, and a live allocation
belongs to an invoice that is finalized and adds up, what an invalidation struck out
included (`Backed`), so never to one that was voided by hand. With it each row keeps the
three properties (`SoundRow`), and a draft owes what it adds up to. Of an invalidated invoice
it matters what was struck out, so the invalidation keeps the row that it overwrote: an
invoice that was a draft, paid, void or written off had nothing to lose, any other one lost
what was due on it.
None of this depends on what several rows add up to, so sums stay unexpanded.

*Settlement, the money* (`SettlementMoneyProofs`). Here sums are expanded. `SumFunction`
folds a function in an order that is not stated; by well-founded induction over the
subsets of a finite set (`SubsetInduction` is about a set of sets, so that no operator is
a parameter) the sum is shown not to depend on the order and to change by what one value
changes. `MoneyInv`: what an invoice has as paid and as credited is the sum over its
sources (`Accounted`), the amount of a source is the sum over the invoices plus what is
left and what was refunded (`SourcesSound`), and the rest has its types. The types of the
amounts need these sums: what a reversal subtracts was part of them.

*Settlement, the ledger* (`SettlementLedgerProofs`). One lemma per operation says what it
does to five sums: outstanding, unused credits, the ledger's balance, what intents brought
in, and per invoice what the ledger was not told of write-offs and invalidations (`Gap`).
The story they tell (`StoryInv`) follows. An entry
needs a new key to change the balance; an entry with that key would say something of its
row that the operation's guard excludes (`BookInv`). A second write-off is the one
operation that finds its key used; the invalidation of an advance invoice has a key of its
own and enters an amount that may be stale. The property names both gaps.
An invoice that was voided by hand is kept from being voided again by what it has lost
(`Dead`): it does not add up, so no allocation on it can bring it back.
`CustomersMatch`: a source is only applied to invoices of its customer.

*Subscription billing* (`SubscriptionBillingProofs`). `BInv` needs little of the row and
nothing of its dates. `LockInv`: one call bills at a time, and if the subscription is
over meanwhile, the row that call will write is over too. A call commits only if the runs
it decided by are those in the table, so the period it invoices has no invoice
(`OneInvoicePerPeriod`), and a request voids only invoices whose runs it finds as it read
them; an earlier invoice of a period is void unless it was reopened.
`RequestsInv`: a request on its way to pause, resume or cancel had found the subscription
alive, which is the exception in `OverIsFinal`.

The other two theorems are about the dates. `TInv`: of the stored row, and of the row a
call has in hand, the next invoice is due when its terms say (`DueAt`), and the period is
`anchor + Cadence * completed` unless no cycle remains (`RowHolds`); this keeps all
dates in the calendar, for every `Cadence` and `Lead`. `PInv`: a run whose period
passed has succeeded, and every period behind the stored row, and behind the row in
hand, is one of `DoneWith`, which no step takes a period from.

Only model-checked: liveness, which is out of the provers' reach, as `ENABLED` is:
`EventsGetDelivered`, `StaleRunsExpire`, `DueIsNotified`, `BillingCatchesUp`. And, of
course, what is violated.

## 6. Where code and documents disagree

Each has a run whose trace shows it, and an entry under `findings`.

1. *Older events overwrite newer ones* (`FinanceRegress`). ADR-001 says that
   Billing applies only newer lifecycle revisions. The version test and the
   update are separated inside a READ COMMITTED transaction, and the update
   selects by id alone.
2. *Runs lag behind their events* (`FinanceRunLag`). ADR-007 says that event and
   run are created in one transaction and updated together. They are created in
   three.
3. *Ready on a superseding state* (`FinanceReady`). The comment on the delivery
   function says that foreground readiness requires the exact state. The final
   check accepts rows that a background worker settled on a newer answer.
4. *Silent divergence* (`FinanceDiverge`). The comment at the status change says
   that its inline reconcile keeps connection and organization together. Two
   overlapping reconciles may both succeed and leave the older state newest.
5. *Publishing is not atomic* (`FinanceUnpublished`). `docs/tenant-provisioning.md`
   says that publishing archives and promotes atomically. Between the two
   statements a reconcile revokes access.

6. *A second write-off is not in the ledger* (`SettlementWriteOff`).
   `docs/876-invoice.md` says that every write-off emits a ledger event. Its key
   is one per invoice, entries are never updated, and an invoice that a canceled
   payment reopens can be written off again.

Further remarks of documents that the models put a condition on, where a property
states what does hold:

- ADR-007's run life cycle and monotonic attempts (lines 52-55) hold of a run until
  two requests overlap on it (`RunLifeCycle`, `overtaken`): the writes do not
  repeat the tests of the reads.
- ADR-007 has attempts, outbox, run and steps updated together (lines 26-29); for
  application runs a request that dies between its statements leaves a step behind
  (`StepFollowsRun`).
- `docs/work-service.md:106-109` says that the outbox key keeps retries from
  becoming duplicate delivery. The key keeps *rows* from being duplicated; a late
  answer, a failed update and two overlapping calls each deliver a row again
  (`DeliveredOnce`, `unsettled`, `contested`).
- A conflict that is decided for the local event is pushed with the etag of the
  mapping, which is older than the change just pulled. The provider refuses it, the
  run fails, the cursor stays, and the next run meets the same conflict: nothing is
  lost (`NoBlindOverwrite`), and nothing gets further until one side changes.
- The last update of a sync sets the connection `ACTIVE` whatever it has become,
  also when the user paused or removed it meanwhile (`FinishWork`). No document
  says otherwise.

Behaviour of subscription billing that the models contain and no property rules out:

- A sweep that comes late applies a pause or a cancellation before it bills a period
  that was due earlier (`ApplyBeforeBilling`, `bill.ts:101`): that period is never billed.
- A scheduled change that fails once is marked `FAILED` and not tried again
  (`PickedFails`, `lifecycle.ts:951`); the subscription is billed on.
- A run that `recordBillingFailure` creates is not an advance run. When the period is
  invoiced in advance later the run is reused as it is, and `invalidateAdvanceInvoices`
  does not find it (`RunOf`, `Ahead`): the invoice outlives a cancellation.
- A request may void the advance invoice of a period that passed on the strength of it in
  the meantime (`voidedLate`).
- An invoice of a subscription that is voided by hand is not made again: its run stays
  `SUCCEEDED`, and a period invoiced in advance passes on the strength of it (`byHand`,
  `bill.ts:184`). Only the deletion of a draft deletes the run with it.
- The comment on `invalidateAdvanceInvoices` says that settled documents are blocked so that
  payments and credits cannot be orphaned. A payment that commits between its read and its
  write is not seen: the invoice is void with the payment on it, and canceling the payment
  reopens the invoice with what was due at the void gone from it (`Struck`, `reopened`).
- The resume after a pause with START_NEW_PERIOD makes a period that may overlap one
  that was invoiced (`Resumed`); both stay invoiced, as their runs have different keys.

ADR-001 also says that entitlement changes and outbox events are committed in one
transaction. No change of a subscription, an app or a manifest starts a reconcile
at all; the model has these changes without one, and the contract does not
promise that they are followed.

## 7. Abstractions and what is left out

- *Time*: backoff, lock age and row locks are one set `free` of rows a claim may
  take, any set at any time. Attempt counters choose only a delay.
- *Names and display data* of the organization travel in the event but decide
  nothing; Billing does not compare them either. `scopes` is a set.
- *Organization and app* state is one value `standing`, read in one step; the code
  reads two rows one after the other.
- *Errors inside a handler* that depend on missing data (no profile selected, no
  finance setup) are covered by `EnqueueAborts`: the request ends there. A strict
  activation that finds no finance dependency ends at `ReadManifest`; the code
  makes two more reads before it throws.
- *`desiredStatus`* of the reconcile options is passed by no caller and left out.
- *Application-owned runs* are recorded in `appRuns` when a pair without finance
  is reconciled; in the finance plane finding and creating one is a single step,
  in `ApplicationRuns` it takes its three statements.
- *Publishers*: one publisher at a time, and one profile.
- *Creating the tenant workspace* inside Billing's transaction on first contact;
  listing and statistics endpoints; bulk reconcile cursors and limits.

In the other models:

- *Application runs*: the revision has no steps of its own, so that a run has the
  one default step; errors and timestamps are left out, the age of a claim is
  `stale`. One subscription and app.
- *Calendar sync*: one calendar per connection, events that do not recur. An event
  is its content, which stands for its hash; the two clocks of a conflict may say
  anything. Linking a calendar and its rollback, OAuth's exchange, and the provider
  clients are not modelled. The run's statements after the work are one step
  (`FinishWork`).
- *Notifications*: a reminder and an alert are one kind of notice, read in one step
  (the code reads the two tables one after the other, and they share no row). A
  channel is part of the key like the notice, so two channels behave as two
  notices. Rendering and addressing are left out.
- *Settlement*: one workspace, one currency, minor units without rounding (lines
  and taxes add up to a total that is chosen freely). Allocations of one source on one invoice
  are merged, with the set of what they remembered. A Serializable transaction is one
  step; a conflict rolls it back. Any finalized invoice may be an advance invoice; one is
  invalidated at most once, and by a transaction that invalidates no other. The copy of
  `invalidateAdvanceInvoices` under `documents/repositories/subscriptions` is the same
  operation. Sales receipts, late fees, opening balances, bank
  transactions, stock and the idempotency keys of commands are not modelled; of these, the
  late fee and the opening balance write the customer's columns at READ COMMITTED too. Of
  the errors of an operation only the guard remains.
- *Subscription billing*: one subscription, without an initial stub period; periods have
  a fixed length in place of calendar months. Prices, charges, discounts and the mode of
  an invoice are left out: an invoice is one of a period. Drafts, pro-rated credits of a pause,
  amendments, extension and removal of a subscription, its replacement after its end,
  several subscriptions on one invoice, deleting a draft invoice, and recurring invoices
  are not modelled. An invoice is void or not; its other statuses, and the test of
  `voidInvoiceWorkflow` on them (a paid one has settlements, a written-off one cannot be
  voided), are `Settlement`'s. The two switches of billing in advance do not change meanwhile.

### Not modelled

- *Customer sync outbox* (Core) and *automation* (Projects): claim, send and settle
  loops like the finance dispatcher's, without its versions; the protocol is
  covered there.
- *Sessions and OAuth*: single-row updates around an identity provider.
- *Storage, Communications, Couriers, CRM, Commerce*: requests that keep records in
  front of a database or a provider, without a protocol between actors.
- *User interfaces, shared packages, generated clients and schemas*: no state
  machine of the system lives there. They are most of the repository's lines.

## 8. Plan

Done: the finance provisioning plane with its contract, application runs, the sync
lease and the calendar sync under it, the notification outbox, the settlement of
invoices, the billing of subscriptions; and the proofs of section 5. What is left, by
how much can go wrong:

1. Several calendars of one connection in `CalendarSync`, which share a lease but
   not a cursor, and linking a calendar.
2. Amendments, extension and removal in `SubscriptionBilling`; sales receipts and opening
   balances in `Settlement`.
3. More theorems: the contracts of settlement (an account per customer) and of
   subscription billing (a calendar of periods, each invoiced once) as abstract
   specifications, with the refinements; what several calendars of one connection keep.
