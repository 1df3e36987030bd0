# Formal models of bpro FieldOps

TLA+ models of the Sales-on-Wheels system of this repository, the TLC instances
that check them, and theorems about them that TLAPS checks. Paths below are
relative to the repository (`backend/apps/...` is `src/backend/apps/...` in
`PROJECT.json`, which maps every definition to the lines it models).

To run:

    tlc -workers 2 -config MCErpSync_faults.cfg MCErpSync
    tlapm ErpSync_proofs.tla

## 1. The system

Field agents sell from vans. Each has a phone with an offline database
(`mobile/`, React Native and WatermelonDB over SQLite) that records trips,
visits, invoices, receipts, expenses and so on, and pushes them to a Django
backend (`backend/`, DRF, PostgreSQL, Celery with Redis). The backend numbers
and posts the documents of a sale, keeps stock and customer balances, and posts
every finalized document to the company's accounting ERP (Tally, Busy, Marg),
directly or through an on-premises agent that polls. Back office works with
`admin-web/` (Next.js), a client of the same endpoints.

Several gunicorn processes and Celery processes run at a time. Transactions are
at PostgreSQL's default isolation (READ COMMITTED); requests are not atomic
unless the service says so (`ATOMIC_REQUESTS` is off); Celery acknowledges a
message before it runs the task, and Redis has no volume in
`infra/docker-compose.prod.yml`.

### 1.1 Components

| component | state it keeps | operations | talks to |
|---|---|---|---|
| ERP sync, `integrations` | `SyncLogEntry` (status, retry_count, request_payload), `ERPConnection`, the documents' `sync_status`, Celery queues | `enqueue_tally_job`, `process_sync_job`, `retry_sync_job`, `requeue_stale_pending_jobs`, Sync Monitor retry and resolve, the agent's poll and result | called by an `on_commit` hook of sales; calls the ERP |
| Sales posting, `sales` | `Invoice`, `Receipt`, `CreditNote`, lines and allocations, `DocumentSequence` | create and finalize, PATCH (signature), approve credit, DELETE | inventory, customers, `on_commit` to integrations and webhooks |
| Inventory | `VanStock`, `StockLedgerEntry`, `StockTransfer` | `post_stock_movement`, `complete_stock_transfer` | called by sales |
| Customers | `Customer.outstanding_balance`, beats and stops | CRUD, route optimization | its balance is written by sales |
| Mobile push, `mobile_sync` and `mobile/src/sync` | the phone's rows with `sync_status`, `PushRequestLog` | `synchronize`, `push`, `pushItem`, `PushView.post` | serializers of nine entity types |
| Mobile pull | `lastPulledAt`, the phone's copies of master data | `pull`, `PullView.get` | catalog, customers, inventory |
| Delivery confirmation, `sales` | `InvoiceDeliveryOTP` | send, verify | SMS and WhatsApp gateways |
| Governance | `ChangeRequest` | propose, approve, reject | writes roles and settings, the ERP connection among them |
| Payments | `PaymentOrder` | create an order, verify and record a webhook | gateway; posts receipts through sales |
| Fleet | `Trip`, checkpoints, pings, odometer, fuel and maintenance logs | start, end, log, evaluate | trips are pushed by phones |
| Accounts | users, roles, devices, sign-up requests, links, tokens | login, refresh, approve and reject a sign-up, set and reset a password, deactivate | permissions are read by every view |
| Expenses, attendance | `Expense`, `Attendance` | submit, approve, reject; check in, check out | notifications |
| Tenancy | the current alias of a context, `Tenant` | resolve, activate, provision | every query is routed by it |
| Signed requests, webhooks | nonce cache; `Webhook`, `WebhookDeliveryLog` | `authenticate`; `dispatch_event` | agent; subscribers |
| Catalog and pricing | price lists, schemes, slabs, bonuses | save a scheme; `recompute_invoice` | priced by sales |
| Notifications | device tokens, `NotificationLog`, `SmsLog`, `WhatsAppLog` | push notice, SMS, WhatsApp | gateways |
| Reporting | nothing: computed on each call | alerts, anomalies, dashboard | reads all the rest |
| Import and export | `ImportJob` | upload a sheet row by row | writes master data |
| Company, core | master data; base classes | CRUD; errors, encryption, stamps | |
| Admin web, mobile screens, infrastructure | | requests, forms, deployment | |

### 1.2 What is hard, and what makes each part correct

- **ERP sync.** Five kinds of actors read and write one row without a lock, and
  the voucher is pushed between the read and the write. Messages are lost,
  tasks die, the agent's report comes late. Correct means: nothing is shown as
  acknowledged that the ERP does not have; the retry budget is kept; every job
  is decided; no document is posted twice.
- **Sales posting.** Finalizations overlap: each is a transaction that locks
  the number series and then stock rows in the order of the document's lines,
  can deadlock, be refused or die, and reads the customer before it begins.
  Correct means: numbers unique and without gaps, stock equal to its ledger,
  a document's movements all there or none, balance and payment status exact,
  the credit limit noticed.
- **Mobile push.** Cycles of `synchronize()` overlap on one phone; a request
  may be lost, served twice at a time, or answered after the phone gave up on
  it; the idempotency log is read without a lock. Correct means: what the phone
  calls synced is stored, a child never overtakes its parent, a record is not
  refused for good because of a passing condition, and everything arrives.
- **Mobile pull.** The cursor is a time of the app server's clock, as is
  `updated_at`, which is assigned before the commit, and rows leave the scope of the query. Correct means: the
  phone's copies converge to what the server would send in full.
- **Stock transfers.** Status tested outside the transaction; two godowns'
  rows locked alternately. Correct means: posted once, and items conserved.
- **Delivery confirmation.** A counter incremented in a transaction that is
  rolled back. Correct means: wrong codes are counted, one code is valid.
- **Governance, sign-up, expenses, attendance.** A decision is read, applied
  and saved in separate statements, and PATCH saves every column of an old copy.
  Correct means: the effect is that of a decision somebody took, and whole.
- **Payments.** A webhook is repeated and races itself, and orders and receipts
  are edited and deleted under it. Correct means: one receipt per order.
- **Trips and vehicles.** States are written unconditionally, online and by
  push; pings come late, several of one moment among them. Correct means: the
  figures derived from them do not hide what an earlier figure showed.
- **Tenancy.** Provisioning in unlocked steps, rows that the admin site edits,
  adds and deletes freely, aliases registered once per process, transactions that
  name the default database. Correct means: tenants that nobody gave another's
  slug or database share none, and each is served from its own.
- **Signed requests.** The network repeats a request after minutes, the agent's
  clock is off. Correct means: served once.
- **Pricing.** Bonus lines are lines of the invoice they are computed from, a
  scheme changes in several transactions. Correct means: pricing again changes
  nothing.
- **Routes.** A heuristic, saved stop by stop. Correct means: no stop lost, no
  route longer than the nearest-neighbour order the search sets out from (it may
  be longer than the one stored before), a repetition mends a half-saved route.
- **Imports.** Each statement of a row commits by itself. Correct means: the
  same sheet can be repeated until nothing fails.
- **Reports.** Averages that include the agent judged, deviations of flat
  histories. Correct means: an alert singles something out.
- **Tokens.** Concurrent refreshes with rotation. Correct means: an agent with
  a valid refresh token is not logged out.

`PROJECT.json` lists these hazards one by one, each at its line with the
properties that cover it; two of forty have none, with the reason.

## 2. The plan

The modules in the order of their importance. The first three are the core and
have runs of their own; the rest share the run `office`, except `DeliveryProof`.

| | modules | state |
|---|---|---|
| 1 | `ErpSync`, abstract specification `VoucherDelivery` | modelled, checked, proved |
| 2 | `SalesPosting`, abstract specification `DocumentBook` | modelled, checked, proved |
| 3 | `MobilePush` | modelled, checked, proved |
| 4 | `PullCursor` | modelled, checked, proved |
| 5 | `StockTransfer` | modelled, checked, proved |
| 6 | `Payments` | modelled, checked, proved |
| 7 | `ChangeRequests`, `Accounts`, `FieldDesk` | modelled, checked, proved |
| 8 | `TripTracking`, `FleetUpkeep` | modelled, checked, proved |
| | `DeliveryProof` | modelled, refuted (finding 6) |
| 9 | `Tenancy`, `ConnectorTraffic` | modelled, checked, proved |
| 10 | `Billing`, `BeatRoute`, `MasterImport`, `FieldReports` | modelled, checked, proved |

"Proved" means every safety property that a run checks of the module, except the
type invariants of the office components.

Left: the phone's session (`client.ts:64`: concurrent refreshes with rotation,
done by a library outside the repository); transactions under a tenant's alias
(`db_router.py:29`); the compositions of `MobilePush` with `SalesPosting` (the
record's transaction is the document's) and of `SalesPosting` with `ErpSync`
(the commit opens the hook).

## 3. The modules

### ErpSync and VoucherDelivery

`ErpSync` has one action per step that another process can observe. A job is a
document; `status`, `retries`, `payload` are the columns of its `SyncLogEntry`,
`doc` the document's `sync_status`, and `posted` counts the vouchers in the ERP.

| actor in the code | actions |
|---|---|
| web process: commit, `on_commit` hook, `enqueue_tally_job` | `Finalize`, `EnqueueTallyJob`, `DelayFirst`, `LoseHook` |
| governance applying a change of `ERPConnection` | `ChangeConnection` |
| Redis; beat's `requeue_stale_pending_jobs` | `LoseMessage`; `Sweep` |
| operator at the Sync Monitor | `RequestRetry`, `Resolve` |
| Celery worker in `retry_sync_job`, `process_sync_job`, `_mark_failed` | `TakeRetry`, `DelayRetry`; `TakeJob`, `WorkerPush`, `WorkerSave`, `WorkerSaveDoc`, `WorkerCrash` |
| `connector_agent/agent.py` | `AgentPoll`, `AgentPush`, `AgentKeyError`, `AgentReport`, `AgentContinue`, `AgentCrash` |
| `ConnectorJobViewSet.result` | `ReadReport`, `WriteReport`, `WriteReportDoc`, `LoseReport` |

No step takes a lock, so a worker keeps the copy of the row it read (`worker[w]`
with its `retries`) until it saves. An ERP answer is accepted, refused, or
unknown: the voucher was created but the answer was lost. The backoff times are
not modelled: a failed row may be swept at any time, which allows every order
that some backoff allows.

`VoucherDelivery` is what the sync promises: accepted, delivered at least once,
acknowledged only if delivered or waived by an operator, never undelivered.
`ErpSync` implements it under the mapping `outcomeBar`, `deliveredBar`,
`resolved`.

### SalesPosting and DocumentBook

`txn[d]` is the request that creates and finalizes document `d`: the balance it
read, and the writes of its transaction, invisible to others until `Commit`.
`held` are the rows it has locked. `Receive` is `serializer.is_valid`, `Create`
the insert (committed at once online, part of the transaction through
`PushView`), `Number` is `next_document_number` with the credit check,
`PostLine` is `post_stock_movement` for one line, `ReadPaid` and `WritePaid`
the two halves of the allocation loop of `finalize_receipt`, `Commit` saves the
balance and commits. `Refuse` is a `DomainError`, `Abort` a death,
`DeadlockVictim` PostgreSQL's choice among the transactions of a wait cycle.
`ReadInvoice`/`SaveInvoice` are a PATCH of an invoice, `ReadCustomer`/
`SaveCustomer` one of the customer, `ApproveCredit` and `Destroy` the rest.

One customer, one godown and one series per kind of document stand for all:
rows of other customers, godowns and series are disjoint from these. A document
of a blocked customer says so (`blocked`). A receipt has no allocation or one, as
the payments of the phone have none: each further one is another
`ReadPaid`/`WritePaid` of the same loop, on another invoice. Quantities
are signed by the direction of the movement and amounts are given, since the
arithmetic of taxes and schemes does not depend on the interleaving.

`DocumentBook` enters each document in one step: next number, all movements.
`SalesPosting` implements it (`KeepsBook`).

### MobilePush

The phone (`status`, `version`, `cycle`) and the server (`call`, `row`, `log`).
`cycle[c]` is a call of `push()`: which collection it is at, the rows it has yet
to send, the request it awaits, the trips it holds for confirmed. `call[q]` is a
request: where `PushView.post` is, the record and the version it carries.

| code | actions |
|---|---|
| screens: create a row; end a trip, check out | `Record`; `Finish` |
| `synchronize`, the loops of `push` | `StartSync`, `Advance` |
| `pushItem`: post; answer; exception | `Send`; `Reply`; `NetworkFailure` |
| the phone is killed | `Kill` |
| `PushView.post`: log lookup and permission; validation; `atomic` block; rejection | `Lookup`; `Check`; `Save`; `LogRejection` |
| process death, database failure | `ServerError` |
| role changed; device created or revoked | `SetPermission`; `SetDevice` |

`NetworkFailure` covers a request that never arrived, one that is still being
served, and one whose answer was lost; `ServerError` is answered 500. A device
is a variable because the log is written only for an active one; `mobile/`
itself never registers a device, so the initial state allows both. A payload
is valid when the row its foreign key names exists: other reasons for a
rejection do not change with time and are left out.

### The office components

Fifteen components, `SalesPosting` with one request at a time among them, share
no row with one another as far as their properties go, or share one that is
constant here. Each is a module of its own.

**PullCursor** (`PullView.get`, `pull()`). `appClock` is `timezone.now()` of the
app server, which stamps rows and answers; every reading of it differs. Several
app servers would have several clocks, and what is old would be old by theirs. A writer's `Save` takes `updated_at`,
`CommitWrite` makes it visible; `SaveUnstamped` is a `save(update_fields=...)` or a change of a
child row, `Reassign` one of a beat's assignment. A pull is `StartPull`,
`TakeTimestamp`, one `ReadTable` per entity (querysets are lazy), `Apply`. The
phone's cursor lives in memory (`RestartApp`). `behind` records the rows whose
change was committed behind a timestamp already handed out.

**StockTransfer** (`complete`, `complete_stock_transfer`). `ReadTransfer` is the
test of the status on the view's copy, `ReadLines`, `PostMovement` (one per line
and godown, with its row lock) and `Complete` the transaction; `ReadPatch`,
`SavePatch` and `DestroyTransfer` the requests that meet it, `CallVictim` and
`CallDies` its ends. The status is not tested again under a lock, so that a transfer may
complete twice, against the view's own refusal ("Already completed.",
`inventory/views.py:83`): the property says what survives that.

**ChangeRequests** (`governance`). `Propose`, `ReadToApprove`/`ReadToReject`,
`ReadTarget`, `ApplyChange`, `SaveReview` are the unlocked statements of a
review; `value[t]` are the governed fields of a row, for every model an
application registers. A role is a row too: its permissions decide who may
propose and review.

**Accounts** (`accounts`). A sign-up's `ReadSignup`, `CreateUser`, `GrantRole`,
`SaveSignup`, `MailLink` are separate commits; `RequestReset`, `SetPassword`
and `Login` the stateless links, a hash of password and last login;
`ReadUser` with `SaveActive`, `SwitchOffDevices`, `SaveUser` the edits of a user.

**FieldDesk** (`expenses`, `attendance`, push notices). `desk[d]` is a request
and its copy: `ReadExpense`, `Decide`, then `ReadTokens`, `LogNotice` or
`NoticeFails`; `ReadExpensePatch`, `SaveExpensePatch`; `ReadOpen`, `CheckInShift`,
`PushCheckIn`, `ReadShift`, `SaveShift`. `decided` remembers the decisions taken.

**Payments**. `CreateOrder` with the connection `_active_connection` finds or
makes, `ReceiveHook` (the signature), `LockOrder` (the order of the gateway's id,
`select_for_update` and the re-read), `RecordPayment` (receipt, allocation and
status in one commit), `AbortHook`. The code looks at neither the event nor the
status of the payment a webhook tells of, so that `ReceiveHook` is for any: an
order whose payment failed or is only authorized is marked paid as well. `Switch` is a
governed change of a connection, `EditOrder` the admin site, where any column of an
order may be set or the row deleted, `DropReceipt` the deletion of a receipt.

**TripTracking** (`fleet`, the live map and the fraud alerts on trips).
`StartTrip` and `EndTrip` ask for no state; `ReadTrip`, `SaveTrip` push or PATCH a
copy; `PushPing` brings a ping of any moment, of one there is a ping of already
too. `order_by("recorded_at")` leaves pings of one moment in any order, so that
everything shown is an operator over the rows and such an order (`Orders`): `SpeedingEvents`, `IdleTime`, `SafetyScore`,
`DriverScore`, `Deviations`, `GeofenceAlerts`, `ImpossibleTravel`.

**FleetUpkeep** (odometer, fuel, maintenance, fleet dashboard). `SaveOdometer` and
`LogReading` are the two statements of a start or an end, which may overlap; `FillUp` inserts a
fill-up and evaluates it (`Suspicious`). `ShownStatus` is the loop of
`FleetDashboardView` over the alerts, in whatever order they come.

**ConnectorTraffic** (`authentication.py`, `webhooks.py`). `SignRequest` by the
agent's clock, `Authenticate` with the window and the nonce cache, at any time
and any number of times; `LoseCache`. `CommitDocument`,
`EnqueueTallyJob`, `ReadSubscribers`, `CallHook`, `BreakOff` are the hooks of a document in their
order and the single attempt for each subscriber.

**Tenancy** (`provisioning.py`, `middleware.py`, `routing.py`). `Validate`,
`CreateDatabase`, `SaveTenant`, `ActivateNew`, `Prepare` are the steps of
`provision_tenant`; `Resolve` and `Serve` those of a request; `registered[w]` the
aliases of a worker process, which nothing ever reads again; `EditTenant` (any
column of a row), `AddTenant` and `DeleteTenant` the admin site, `Restart` the end
of a process. Name, host, port and user of a database are one value here, since
they select it together. The admin site may give two rows one database, or a row
another one than its worker has registered, and a slug whose row is gone may be
used again: in each case a request may reach a database not its tenant's own.
`typed` and `known` record when this happened, and `Ordinary(k)` says that it
did not happen to tenant `k`, whatever happened to the others.

**MasterImport** (`dataio`). An upload is `Upload` (permission of the entity),
one `ImportRow` per row with all its commits, `WriteJob`; `ImporterDies` leaves the rows.
`Registry` says for each entity what a row makes on the way and what must exist.

**Billing** (`recompute_invoice` and the scheme engine). `StartRecompute` deletes
and derives the bonus lines, `PriceLine` prices a line with queries of its own,
`FinishRecompute` totals; `SaveScheme`, `DeleteSlabs`, `InsertSlab` are the
separate commits of a scheme's update. Amounts are integers of paise, rounded as
`Decimal.quantize` rounds.

**BeatRoute** (`route_optimization.py`, `optimize_route`). `ReadStops` with the
nearest neighbour order, `TryReversal` per pair of edges and `EndPass` for 2-opt,
`SaveStop` per row, `PlannerDies` between two. `Metres` is any symmetric table of
distances, since the heuristic uses only their order and sums; in the run the
places are on a line.

**FieldReports** (`reporting`). The rows a day's work leaves, and the alerts as
operators over them. Averages are compared without dividing, standard deviations
by their squares.

**DeliveryProof** (`send_delivery_otp`, `verify_delivery_otp`, `eway_bill.py`).
`SendOtp` replaces the row, `SendSms` and `SendWhatsApp` follow; a verification is
`ReadOtp` and `RightCode` or `WrongCode`, whose increment
(`AttemptsAfterWrongCode`) the error rolls back.

### MCOffice and MCLive

`MCOffice` puts the fifteen components side by side in one instance: it extends
their modules, and the cfg gives the constants of each. A behaviour
is one of a single component, `focus`, and the others keep their initial values:
as they share no variable, their product would show each component the same
states many times over. Each property speaks of its own component. `MCLive` does
the same with `ErpSync` in realtime mode and `MobilePush`, and asks the fairness
of the steps of the component in focus.

## 4. What the runs check

| run | instance | shows |
|---|---|---|
| `erp_faults` | one job, two workers, agent, all three kinds of connection, one fault of any kind, one operator intervention, MAX_RETRIES 2 | `AckMeansPosted`, `SyncedMeansPosted`, `RetryBudgetConsistent`, `PendingOnlyByRetry`, and that `ErpSync` implements `VoucherDelivery` |
| `erp_duplicate` | two workers, no fault | violation: the code posts a voucher twice, against `sales/models.py:51` and `integrations/models.py:47` |
| `erp_batch` | batch mode, only the agent | violation: a row no task has filled stays pending forever, against `integrations/tasks.py:102` |
| `sales_books` | two invoices with opposite line orders, a return, an over-allocated receipt; online and pushed; two at a time, one death, two other requests of any kind | `LedgerExplainsStock`, `PostedWhole`, `NumbersUnique`, and that the interleaved code implements `DocumentBook` |
| `sales_push` | five pushed documents, two part payments, two at a time, one death | `SeriesGapless`, `PaidMeansCovered`, every request is answered although documents deadlock |
| `sales_balance` | two overlapping invoices | violation: one is missing from the balance, against `customers/models.py:28` |
| `push_cycles` | trip, visit, receipt; two overlapping cycles, two requests in service, one mishap | `AppliedMeansStored`, `SyncedMeansStored`, `NoCheckpointBeforeTrip`, `OnlyOrphansRemembered` |
| `push_partial` | trip and receipt, one mishap | violation: a receipt that came before its trip is refused for good, against `synchronize.ts:185` |
| `push_tripend` | one trip | violation: its end is acknowledged and dropped, against `fleet/serializers.py:35` |
| `live` | `ErpSync`: realtime mode, two workers, one ERP fault, one operator; `MobilePush`: trip and visit, one cycle after the other, two requests in service, two mishaps; with fairness | `GivenUpMeansExhausted`; `JobsDecided`: every open job is decided; `RootsDelivered` |
| `office` | the fifteen components above, one to a behaviour (instances in `MCOffice.tla`, bounds below) | one property of each, in the next table |
| `otp` | one invoice, two verifications at a time, two codes, three tries | violation: wrong codes never lock it, against the error text of `sales/services.py:353` |

The properties of `office`:

| property | what it says |
|---|---|
| `BalanceExact`, `PaymentStatusExact`, `BreachFlagged` | with requests one at a time, and deaths between them, the balance and the payment status are those of the committed documents, and what goes over the credit limit is marked |
| `NothingElseMissed` | a row that is old on the phone is in the next answer, unless its change was committed behind a timestamp already handed out |
| `ItemsConserved` | transfers neither make nor lose goods, and stock is what the ledger adds up to |
| `ApprovedChangesStand` | what is approved was applied, and every field has the value of the last applied change that named it |
| `ApprovedAccountsWhole` | an approved sign-up names one account, its own, with its address and role |
| `DecisionsWhole` | status, supervisor and reason of an expense are those of one decision, and a notice tells of a saved one |
| `OrdersSettleOnce` | an order nobody changed by hand is paid exactly when one receipt was ever posted for it, of its amount, and names it unless it was deleted |
| `SpeedingStays` | a late ping of a moment of its own does not take away a trip's last speeding event, however the others of one moment are ordered |
| `WorstShown` | a vehicle shows the status of its worst schedule, in whatever order the alerts come |
| `AtMostOnce` | a signed request is served once, a subscriber called once and only after the commit |
| `TenantsApart` | a tenant whose database nobody typed in by hand and whose slugs were never another's has a database that exists, is its alone, and that its requests and no others reach |
| `ErrorsOnlyShrink` | a sheet repeated before another import or an edit touches its rows fails on no row that went in before |
| `RecomputeStable` | pricing a priced invoice again changes nothing |
| `RouteKept` | search and saving keep every stop, are never longer than the nearest-neighbour order, and number the stops 1 to n |
| `AlertsSingleOut` | the discount alert never names every agent that sells; at most a quarter of the days behind an insight are as far off as its outlier |
| `AllTypesOK` | the type invariants |

Every property has a mutant, a definition changed as a plausible bug would
change it (a lock dropped, `>` for `>=`, a log entry committed by itself), and
TLC finds the property violated with it. The mutated forms stand before the
definitions they change.

### Bounds and why they are enough

- Jobs of the sync share no row; what one does to another is to occupy a worker
  or to stop the agent's poll. One job with two workers has every interleaving
  on one row. A row is read by at most one step before it is written, so that
  two holders of stale copies and an agent or an operator between them show
  every overwriting. `MaxMsgs` bounds the messages per job in a queue; an extra
  one changes nothing, since tasks of the same job are alike.
- `MAX_RETRIES` is 2 in the runs and any number in the theorems. Two tells
  apart a first, a last and an exhausted attempt.
- Sales documents interact pairwise through a series, a stock row, an invoice
  or a customer; `MaxOpen` is two, documents that come later meet what a
  finished or dead pair left. Lines in opposite orders make a deadlock.
- A record interacts with its parent only; three records have a root, a child
  that waits for it (a visit) and a child that does not (a receipt). Two slots
  let a retry overtake the request it repeats.
- In `office` (451,449 states, the pair of workers being interchangeable) each
  instance is the smallest with all its cases. Two requests at a time, since
  each hazard there is a pair of requests; three calls, so that one comes after
  the pair. `StockTransfer`: a load and an unload whose lines are in opposite
  orders, hence deadlocks. `SalesPosting`: an invoice of a blocked customer, one
  over the limit with an override, two part payments and a payment on account.
  `Payments`: two orders, three webhooks, two edits. `ChangeRequests`: two roles that govern one another
  and a row of which two fields change. `TripTracking`: two pings and one that
  falls between them or on the moment of one of them, at two places. `ConnectorTraffic`: a window of 1 tick and a nonce kept
  for 3, the smallest that keeps the code's inequality (900 s against twice 300
  s). `Tenancy`: two slugs, two databases, one call
  of the admin site; slugs and databases are interchangeable, so that the first
  row ever inserted is taken to be of `s1` and `d1` (`FirstRow`). `MasterImport`: a
  manager who comes later in the sheet, swapped unique codes, a missing unit.
  `Billing`: two slabs, a percentage, a flat amount larger than the line.
  `BeatRoute`: four stops, the least 2-opt works on, with every placement.
  `FieldReports`: two agents, three discounts, four days with a window of two.
- Mishaps, faults, deaths and edits are bounded by `MaxMishaps`, `MaxFaults`,
  `MaxAborts`, `MaxEdits` and their like. The theorems hold for every bound.

`CHECK_DEADLOCK FALSE` stands in runs where the system may stop for good: a
finite set of documents has been decided, no fault is left to happen.

### Fairness

- `ErpSync`: a process that is running goes on (weak fairness of the hook, the
  steps of a task, the agent and the result handler); beat runs the sweep every
  300 s (`config/settings/base.py`). The broker is FIFO and workers become idle
  again and again, hence strong fairness of taking a message. `Finalize`, faults
  and operators are not fair.
- `SalesPosting`: a request that waits for a lock gets it if it is free again
  and again (strong fairness of its next step: PostgreSQL queues lock waiters),
  and the deadlock detector runs (weak). Nothing forces a request to arrive.
- `MobilePush`: a running cycle goes on and a received request is served;
  `synchronize()` is called again and again by the GPS timer
  (`sync/locationTracking.ts`), by every screen that saves and by the button.
  `RootsDelivered` holds only where the permission is there for good, its premise.

## 5. What is proved

Each theorem holds for every value of the constants that satisfies the named
assumption of its module: any number of jobs, documents, lines, records,
workers, cycles, requests, faults. The assumptions give the constants their
types, and beyond that say:

| assumption | beyond types | because |
|---|---|---|
| `ErpSyncAssumption` | `MAX_RETRIES` is positive, there is a kind of connection | `integrations/tasks.py` |
| `SalesPostingAssumption`, `StockAssumption`, `BeatAssumption`, `ReportAssumption`, `UpkeepAssumption` | the documents, godowns, stops, agents and schedules are finitely many | rows of a database |
| `MobilePushAssumption` | a trip has no parent, a checkpoint has a trip | the serializers' required keys |
| `TrafficAssumption` | a nonce is kept for more than twice the window | 900 s against 300 s |
| `BeatAssumption` | distances are symmetric | the haversine formula is |
| `ImportAssumption`, `TripAssumption`, `PullAssumption`, `ProposalsName` | "no sheet", "no code" and "no trip" are not values; a proposal is of a target | |

A theorem with a premise of its own has it in its statement, and it is named below.

### `Sums`: facts used by several proofs

`SumFunctionOnSet` of the community modules is a fold, hence a recursion over a
set. `Sums` proves that it exists and that any element may be taken first
(`SumFirst`), and from this what the proofs use: adding, removing and changing an
element, a sum over a union, of sums, of squares, over an image. Induction is
stated for a set of numbers or of sets (`SetInduction`, `SubsetInduction`), which
the provers can instantiate, where the library's theorems take an operator.
`WaitingCycle`: in a finite set whose members all wait for a member, some
members wait in a circle; it takes a smallest set that waits within itself
(`SmallestSet`), and is what the two theorems about deadlocks share.

### `ErpSync_proofs`

`TypeCorrect`, `AckIsHonest`, `SyncedIsHonest`, `RetryBudget`, `GivenUp`,
`OnlyRetryReopens`, `AgentReposts`, `SyncImplementsPromise`. That an
acknowledgement is honest is not inductive: a worker that holds an answer, an
agent that holds one and a payload that was saved must stand for a voucher too.
`IInv` adds `WorkerHonest`, `PayloadHonest`, `AgentHonest`, `AgentOnlyReposts`
and `PostedHasRow`. The refinement is proved step by step under `IInv`: each
action is one step of `VoucherDelivery` or leaves its state alone.
`GivenUp` has the premise that every connection has a connector class.

- `NobodyForgotten`, with the premise `Undisturbed` (connections post at once; no
  web process, message or task is lost): a pending row has its message at the
  broker or a process at work on it (`PendingAttended`). The sweep selects failed
  rows only, so that without the premise a pending row may stay alone for good.
- `PostedAtMostOnce`, with the premise `OneAtATime` (one worker, an ERP whose
  answers arrive, no killed task, no retry by hand): no document is posted twice.
  This is the property that `erp_duplicate` finds violated; the theorem says what
  is enough to keep it, while messages are lost, doubled by the sweep or polled by
  the agent. `OnceInv`: what was posted is acknowledged or in the worker's hands,
  the worker holds no acknowledged row, and the agent is never fed.

### `SalesPosting_proofs`

- `TypeCorrect`, `SeriesUnique`, `SeriesWithoutGaps`, `LedgerExplains`. The
  argument is that of locking: `LocksExclude` says no two transactions hold a
  row; `NumberHeld` that one past `next_document_number` holds its series and the
  number after the last committed one; `RowsNumbered` that committed numbers are
  at most that, and that a PATCH which saves an old copy of an invoice saves the
  number it had. `LedgerChained` and `MovesChained` say that a ledger is a chain
  of running totals, and what an open transaction has moved continues it, because
  the stock row is locked from its first movement to the commit.
  `SeriesWithoutGaps` assumes that no document is deleted (`"destroy"` is not
  among the requests): a numbered document then stays, so that every number up to
  the last is somebody's (`FinalStays`).
- `WholePostings`: `MovesWhole` says that the moves of an open transaction are
  those of the lines it has posted, once each and in their order, and that these
  are all lines when it is ready to commit. So the commit appends all or nothing.
- `KeepsBook`: the refinement of `DocumentBook`. `BookInv` adds to the above that
  what a transaction reads of a stock row is what is committed and the sum of its
  own lines (`OnHandSummed`), and that the last number of a series counts the
  documents that have one (`NumbersCount`). A commit is one step of
  the book; every lock, move, refusal and death leaves it alone.
- `PaidOnlyCovered`, with the premise that all documents are pushed and none is
  deleted: an invoice is shown as paid only if finalized receipts cover it.
  `PushedWhole` says that a row appears finalized or not at all, `PaidCovered` that
  wherever "paid" is held (in the row, the copy of a PATCH, a receipt's
  transaction) the receipts finalized, with that transaction's own, cover it. More
  receipts cover no less, which is why the order of their commits does not matter.
- `BalanceIsExact`, `BreachesFlagged`, `PaymentStatusIsExact`, with the premise
  `Serial`: one request at a time, and nothing but approvals of credit in
  between. `Alone` says that the balance a transaction read is still the one of
  the row, `NoCopies` that no request holds an old copy. Without the premise the
  first is refuted by `sales_balance`: what loses a document from the balance is
  an overlap, a PATCH of the customer or a deletion, never a death or a refusal.
  `PaymentStatusIsExact` needs pushed documents too.
- `RequestsNeverStuck`: of any requests that wait for nobody outside themselves,
  one can go on or is for the deadlock detector (`NeverStuck`), however many items
  they lock in whatever order. `LocksServed` says that a request that is over holds
  no lock; so who waits, waits for one that is served, and if nobody can go on
  there is a cycle (`WaitingCycle`). `Ready(d)` spells out when `Step(d)` is
  enabled, which the prover cannot work with. It is the safety part of
  `EveryRequestAnswered`, without its fairness.

### `MobilePush_proofs`

`TypeCorrect`, `LogHonest`, `SyncedHonest`, `CheckpointsWait`, `OrphansOnly`.
`IInv` adds `Backed`: an answer "applied" on its way to the phone, a trip a cycle
holds for confirmed and the trip of a checkpoint a cycle is about to send are
stored; each awaited request is there and is awaited by one cycle. Rows never
disappear, so that what a cycle learnt stays true while others run
(`OthersBacked`, `CyclesBacked`).

### `Goods_proofs`: what is counted

- `Conservation` (`StockTransfer`). `BookOK` says that every stock row is its
  opening and the sum of its entries, and that the entries of each item sum to
  nothing over the godowns. It survives a completion because of `CallsOK`: an open
  call has done a prefix of its transfer's movements, on rows no other call holds,
  and sees on them the committed quantity with its own entries. So what it commits
  is a whole sheet, even when the transfer was completed before.
- `BalancesRun`: the balance in a ledger entry is that of its row at that point.
  It was computed before the commit; `CallsRun` says it of the entries an open call
  holds, from the committed quantities on, and the rows are still the call's then.
- `TransfersNeverStuck`: as `RequestsNeverStuck`, of finitely many callers.
- `Stable` (`Billing`). `BillInv` says that as long as nothing a price depends on
  has changed, a line not waiting to be priced has the price it would be given,
  the bonus lines are those of the quantities, and the totals those of the lines.
  `PricedOnce` is the reason: a line that found a discount keeps it, and one that
  found none finds none again.
- `SchemesNeverPayOut` (`Billing`), with the premises `OrdinaryEntries` (amounts,
  slabs and quantities are not negative, lines finitely many) and `PercentsOnly` (no
  percentage above a hundred): the discount of the schemes on a line is between
  nothing and its gross amount, by rounding and slabs half saved too. The second is a
  premise because nothing in the code bounds the percentage of a scheme.
- `StockTyped`, and `BillsTyped` under `OrdinaryEntries`.

### `Requests_proofs`: requests served side by side

What people decide, and who they are:

- `DecisionsStayWhole` (`FieldDesk`): a copy held by a desk is itself of one
  decision taken (`Fits`), so that saving all of it, or the columns of a decision,
  leaves an expense of one (`Whole`).
- `AccountsWhole` (`Accounts`): `Working` says what each stage of a call may rely
  on (the account it made is not named by a request, has the address, and past
  `GrantRole` the role), `Named` the same of decided requests; `UsersGrow`, that
  users are never removed, keep their address and only gain roles, keeps both true
  while other calls run.
- `ApprovalsStand` (`ChangeRequests`): a review past its apply step is of a change
  in the list of the applied (`Reviewing`), and an application writes the
  fields it names and no other (`update_fields`), so that the last one applied
  that names a field decides its value.
- `Apart` (`Tenancy`): a database nobody typed in has at most one owner, a row or
  a call of `provision_tenant` past `CREATE DATABASE`, and exists (`Owned`); one that
  a worker has registered under a slug, or resolved for a request, belongs to a row
  that had that slug (`MapsRemembered`). If a tenant's slugs were nobody else's,
  that row is its own, whatever the admin site did to the others.

What comes from outside, or is asked for again:

- `NothingTwice` (`ConnectorTraffic`). A request served once had its timestamp at
  most a window away from then, so that it is out of the window when its nonce
  expires, wherever the agent's clock was (`ServedRemembered`). Of the subscribers
  of a document, each is in the queue or was called, never both (`DeliveryOK`).
- `PaidOnce` (`Payments`). `HooksHold` says that no two webhooks have locked one
  order and that the status a holder of the lock has read is the one of the row,
  which is what the re-read after `select_for_update` is for; `Settled` pairs paid
  orders with receipts. Orders somebody edited are set aside in `retouched`: one
  set back to "created" is paid again. That money was received is not claimed.
- `NothingMissedUnseen` (`PullCursor`). `KnownBefore`: a current row at or before
  a pull's cursor is on the phone. `Answered`: what a pull has read and has not
  changed after its timestamp is in its answer or was not asked for. `ReadOnce`:
  a pull reads a table once, after its timestamp. The rows announced too
  late, or changed without a stamp, are set aside in `behind` when it happens.
- `RepeatedSheetsShrink` (`MasterImport`). An import that nothing disturbed has
  left behind every row it did not report (`Underway`); from then on these rows
  hold until something disturbs them (`SheetStands`), so that a repetition goes
  through them (`Repeating`). It has the premise `KeysOnce`: no sheet lists a key
  twice. Without it the second row of a key can give up the unique code of the
  first, a third row take it, and the repetition fails on the first row.

Types, whose invariants say what the stages of a call leave in its hands:

- `DesksTyped`, `AccountsTyped`, `ReviewsTyped`, `TenantsTyped`,
  `TrafficStaysTyped`, `PaymentsTyped`, with bounds that are numbers.
- `PullsTyped`: the clock of the app server is bounded by the writes and pulls there
  were. `Readings`: together with the pulls that have begun and not read it yet, it
  is at most one ahead of them.
- `ImportsTyped`: a job has made and refused no more rows together than it has been
  through (`Counted`), so that what `ImportJob` shows is never negative.

### `Reports_proofs`: what is computed from the rows

Here the induction is small (`PingInv`, `ReportInv` are about the rows) and the
argument is about the operators.

- `LatePingsDoNotWhitewash` (`TripTracking`): a ping that falls between two others
  splits their hop into two that take as long and go at least as far, so that one
  of the two is at least as fast (`SplitHop`). It must be of a moment of its own: one
  of the moment that ends the hop, at the place where it began, leaves a slow hop and
  one without a duration, which `trip_speeding_events` passes over
  (`fleet/services.py:353`), and the event is gone. That is how the code is; the
  property says that lateness alone does not do it. Pings of one moment that were
  there before are allowed, in whatever order they are read then and now.
- `RouteStaysWhole` (`BeatRoute`): the nearest-neighbour order visits every stop
  once (`NearestNeighborVisits`, by counting), a reversal is accepted only if it
  shortens the path, and its test on two edges decides that for the whole path
  (`FlipShortens`, where distances must be symmetric); a call that has saved `k`
  stops has numbered them 1 to `k` (`NumberedUpTo`).
- `AlertsAreForFew` (`FieldReports`): not everybody is far above the average that
  includes him (`NotEveryone`); of `n` days at most `n/4` are as far off
  as one that is two standard deviations off, which is Chebyshev's inequality
  (`FewFar`).
- `WorstIsShown` (`FleetUpkeep`): after `i` alerts the loop shows a status at least
  as bad as the first `i` (`ShownSoFar`).
- `TripsTyped`, with the premise `TripBounds`: the time a trip stood still is
  within the time that passed. The gaps of hops that do not overlap add up to at most
  the moments they span (`GapsAdd`), however late the pings came. A
  trip's score, and the average of a driver's, is a percentage or missing
  (`ScoreRange`, `MeanOf`).
- `BeatsTyped`, `ReportsTyped`, `UpkeepsTyped`: a request has always a pass left
  while it looks for one (`BeatCounts`), and no fuel costs less than nothing
  (`CostType`), with bounds that are numbers and litres that are.

### `Office_proofs`: the components that share no state

`MCOffice` runs one component at a time, named by `focus`. `OfficeRunsEach` says
that its specification implies that of each of its components, so that each
theorem above about one of them holds in it too. `OfficeTyped` is the property
`AllTypesOK` of the run `office`, from the type theorems of the fifteen components.
Its premise `OfficeBounds` collects theirs: bounds that are numbers, and the
places, litres and offers above. The constants of `MCOffice.cfg` satisfy it.

### Only model-checked

- Liveness: `JobsDecided`, `EveryRequestAnswered`, `RootsDelivered`. They rest on
  fairness, that is on `ENABLED`, which is beyond this prover.
- That the sums of `Billing` are those of the tax law, and any other value a
  recursive definition computes: the theorems say how results relate, not what
  they are.

Of the six properties of the violation runs, which are false of the code, only
`NoDuplicatePosting` has a theorem, under the premise above.

## 6. Findings

1. A document may be posted to the ERP twice without any fault
   (`erp_duplicate`): two messages for one row both pass the status test.
2. In batch mode a row is polled by the agent before anything filled its
   payload; the agent raises `KeyError` and the poll ends there (`erp_batch`).
   A pending row whose message was lost is not reconciled either: the sweep
   selects failed rows only.
3. `outstanding_balance` loses one of two concurrent documents of a customer
   (`sales_balance`).
4. With an active device, a receipt that reaches the server before its trip is
   refused now and forever (`push_partial`).
5. The end of a trip that was pushed at its start is acknowledged and not
   stored (`push_tripend`).
6. Wrong delivery codes never lock an invoice (`otp`): the attempt is counted in
   the transaction that the error rolls back. The test that says it locks keeps
   the count in a cached instance.

## 7. Not modelled, and why

- Connectors' formats, PDF and print layout, message templates, sales registers,
  exports, parsing of sheets, the audit log, encryption: formatting, queries and
  storage without a protocol.
- Admin web, mobile screens, deployment: clients of the actions modelled, and
  the assumptions stated above.
- The phone's session: tokens are issued, rotated and blacklisted by a library
  outside the repository, and what a refresh answers is not in it.
- Durations: backoffs, lifetimes of codes and tokens, the agent's 20 s timeout.
  They are nondeterministic choices; clocks are modelled where two of them are
  compared (`PullCursor`, `ConnectorTraffic`, `TripTracking`).
- Several tenants in one model of a transaction. The models are of the
  single-database deployment, where the services' `transaction.atomic` and the
  rows they write are on one connection; `Tenancy` is about which database a
  request reaches, not about its transactions.
- Rows of an import lack none of their required cells; sales orders, which
  nothing reads, and plain master data (vehicles, items, units, contacts) have no
  state of their own.
