# cash-van in TLA+

TLA+ models of the van-sales back end in `src/src` (NestJS, TypeORM,
PostgreSQL): what its services promise about stock, voucher numbers, documents
re-sent by mobile devices, documents pushed to the ERP and pulled from it,
invoices and the tax ledger, receipts, approvals, settlements, offers and the
watchdog over the salesmen, checked with TLC on small instances and, where it
can be done, proved with TLAPS for every instance.

1. [The system](#1-the-system): components, state, interactions, what is hard
2. [The plan](#2-the-plan): modules, order, composition, theorems
3. [The models](#3-the-models): how state and actions correspond to the code
4. [The runs](#4-the-runs): what each shows, bounds, fairness
5. [The proofs](#5-the-proofs): assumptions and arguments
6. [What is not covered](#6-what-is-not-covered)
7. [Where the code departs from what it says](#7-where-the-code-departs-from-what-it-says)

To repeat a run: `tlc -config VouchersConcurrent.cfg MCVouchers`; to repeat the
proofs of a module: `tlapm Vouchers_proofs.tla`.

## 1. The system

One Node process (or several) serves a dashboard and the salesmen's mobile app
over HTTP and sockets. Its state is in PostgreSQL; requests run in READ
COMMITTED transactions or in none. Node runs one callback at a time, so requests
interleave at each `await`, and two processes interleave at each statement.

| Component | State | Operations | What makes it correct |
|---|---|---|---|
| **Vouchers** `vouchers.service.ts`, `van-stock.service.ts` | `voucher_headers`, `voucher_transactions`, `van_stock`, the `item_balance` view | create, post, fulfil, update, remove; load and unload a van; emits `erp.voucher.posted` | a posted voucher is immutable and announced ones are posted; no store below zero; reservations follow open orders |
| **Voucher numbering** `nextVoucherNumber` | `voucher_counters`, unique index on `voucher_number` | allocate in a transaction, reserve for the inbox, preview | no serial twice; an allocated number is free |
| **Sync inbox** `sync.service.ts` | `voucher_inbox` with a partial unique index on `client_ref` | ingest, promote, retry, edit, discard | a re-sent document enters the books once; a row says what happened |
| **ERP outbox** `erp-outbox.service.ts` | `erp_outbox`, in-memory `draining` | enqueue, drain (30 s), push, fail with backoff, retry | posted means delivered whole; every row is settled |
| **ERP sync, outbound** `erp-sync.service.ts` | `erp_id_map` | listens to `erp.voucher.posted` and `collection.confirmed`, manual export | what happened here gets queued |
| **ERP sync, inbound** `erp-sync.service.ts` | `erp_sync_cursor`, `erp_id_map`, in-memory `pulling` | scheduled pull, manual sync, webhook debounce, movement and receipt mirror | each movement mirrored once; the cursor skips nothing |
| **Hub webhook** `hub-webhook.service.ts` | `hub_webhook_events` | verify, de-duplicate, dispatch, reprocess | an event is handled once, and is handled |
| **Collections, cheques** | `collections`, `cheques` | create, confirm, update, batch deposit; reconcile, clear, bounce | confirmed receipts do not change; cheque and receipt agree |
| **Approvals** | `approval_requests` | submit, approve (creates a voucher), reject, cancel | one voucher per approved request, none otherwise |
| **Invoices, tax** | `invoices`, `tax_ledger_entries`, `credit_notes` | confirm, approve, reject, override, cancel; submit to JoFotara; credit notes | one submission per invoice; credit at most what was invoiced |
| **Rep liveness** | `rep_statuses` | heartbeat, watchdog (offline alert) | every outage is announced, and once |
| **Offers** | `offers`, `offer_redemptions` | preview a cart, price a sale, redeem | redemptions within the limit; a sale costs what its preview said |
| **Money calculators** | none | totals, taxes, discount shares | shares add up to the whole |
| **Routes** | routes, plans, stops | plan, visit, deviation alerts | a stop is visited once |
| **Reports** | `salesman_settlement` | read-only queries, settle a salesman | what a settlement counted stays in the books |
| Catalogue, users, settings, realtime, notifications, assistant, schema, scripts | reference data, accounts, sockets | CRUD and glue | none that needs a model checker |

How they interact:

- `sync` calls `vouchers.create` and `collections.create`, each of which commits
  by itself, and then marks its own inbox row: two transactions.
- `vouchers` and `collections` emit in-process events after they commit;
  `erp-sync` listens and enqueues in `erp_outbox`. Nothing survives a crash
  between commit, event and enqueue.
- `erp-outbox` pushes to the ERP, or to the Integration Hub when it is active.
- `erp-sync` pulls from the ERP into the same voucher tables.
- `approvals` and `sync` reserve or choose the numbers that vouchers are
  created under; `nextVoucherNumber` serves all of them.

What is hard here: check-then-save on rows read without a lock; TypeORM `save()`
of a whole entity, which compares it with the row it finds at that time and
writes every column that differs, so a stale image is put back; two
transactions where one is needed; events and flags in memory; retries of what
may already have happened; soft deletion that some readers see and some do not.
`PROJECT.json` lists each such place under `hazards` with its line and the
properties that cover it.

## 2. The plan

Order of work, the behaviour that matters most first. Each component is a
module, `MC<module>` instantiates it for TLC, and theorems are in
`<module>_proofs`, but for two modules that hold the proofs of several
components: `Claims_proofs` those of `VoucherNumbering` and `RepLiveness`,
`Finance_proofs` those of `TaxDocuments` and of `BackOffice` with `Receipts` and
`Approvals`. `Sums` proves what they all need of sums over finite sets. So
that one module can extend two components, the operators of `RepLiveness` and
`TaxDocuments` that every component has carry a prefix (`LivenessSpec`,
`TaxSpec`, ...).

| | Module | Models | State |
|---|---|---|---|
| 1 | `Vouchers` | lifecycle and both stock ledgers | done, proofs done |
| 2 | `VoucherNumbering` | one number series | done, proofs done |
| 3 | `DocumentIntake`, `SyncInbox` | abstract promise; the inbox implementing it | done, refinement proved |
| 4 | `ErpOutbox` | outbound queue | done, proofs done |
| 5 | `ErpPull` | inbound mirror: cursors, id map, `pulling` flag, webhook debounce, crashes between the writes of a movement; the Hub's inbound events | done, proofs done |
| 6 | `RepLiveness` | heartbeats against the watchdogs of several servers | done, proofs done |
| 7 | `TaxDocuments` | invoices, credit notes, submission with late answers, tax ledger | done, proofs done |
| 8 | `Receipts`, `Approvals`, composed with the settlements in `BackOffice` | receipts and cheques; requests and the vouchers they create; what a salesman owes | done, proofs done |
| 9 | `Money`, `Offers` | the calculators as functions; sales under offers with limits, priced by both engines | done, proofs done |
| | reference data in `ErpPull`, routes | upserts from the ERP by key; visits of stops | open: one statement each, nothing overlaps that a test would not reach |
| | posting, event, enqueue and push composed | abstract "posted documents reach the ERP" | open: it does not hold, since nothing repeats an event lost in a crash, and the manual export that would repair it is pressed by a person; `AnnouncedIsPosted` and `Settles` say what does hold at both ends |

Every safety invariant and action property of the runs that TLAPS can treat is
proved; what remains is liveness (section 5).

## 3. The models

### Vouchers

| In the model | In the code |
|---|---|
| `voucher[v]` | the header with voucher number `v` and its line; `None` when no row has that number. `deleted` is `deleted_at` |
| `van[rep]` | the `van_stock` row of the modelled item, `None` before there is one |
| `req[r]` | what a request holds in memory between two awaits: `snap` the header it read (or is about to insert), `seen` the van row it read, `dirty` whether its UPDATE really took the row lock |
| `announced` | vouchers whose `erp.voucher.posted` was emitted |
| `CreateCheck`, `CreateCommit` | `create`/`createUnchecked`: validation and the stock check, then the insert |
| `PostRead`, `PostSave`, `PostCommit` | `post`: read and refuse; `save` the header and read the van; write the van and commit |
| `FulfillRead`, `FulfillVan`, `FulfillCommit` | `fulfill`, an `ORDER` leaving the van |
| `EditRead`, `UpdateSave`, `RemoveSave` | `update` and `remove`, which run outside any transaction |
| `VanRead`, `VanCommit` | `VanStockService.mutate`, for load and return |
| `Emit`, `Abort` | the event after the commit; any error or crash |

One item and one line per voucher stand for all: the code runs the same read and
write for each line. `item_balance` counts posted lines and does not look at
`deleted_at`; neither does `Movement`. `MaxVan` bounds what a van holds so that
the state space is finite; no other action is disabled by a bound. A voucher
that carries no store moves no store's balance and is left out. `VAN_EFFECT`'s
`RETURN_IN` is left out because no transaction kind has that code. `PostedFlags`
gives, for each kind, whether vouchers are created as drafts, as posted, or as
either: the code accepts all of it (section 4 says what the run takes).

Nothing in the code keeps two requests on one voucher apart, so the properties
are about what they may do to each other. `HeaderOvertaken(r)` says that another
request has changed, since `r` read it, the header `r` is about to save, and
`VanOvertaken(r)` the same of the van row. `PostedIsFrozen`, `AnnouncedIsPosted`
and `ReservedFollowsOrders` are action properties: what they speak of is kept by
every step of every request but the save of one that was overtaken (and, for
the reservations, the creation of an order as posted, `BornPosted`).

### VoucherNumbering

One series (one store and kind). `counter` is `voucher_counters.last_number`,
`holder[n]` says who inserted the voucher with serial `n`, `deleted` the soft
deleted ones, `reserved` the serials the inbox keeps. `Allocate` is the upsert
with its row lock and the walk past the numbers `exist()` can see; `CommitCreate`
inserts under the unique index, which also sees deleted rows; `CommitReserve` is
`reserveVoucherNumber`, which commits the counter alone; `Rollback` restores the
counter. `CreateWithNumber` is a client that brings its own number, from
`ClientNumbers`; `Preview` is `GET next-number`. `shown` is 0 when the screen is
out of date, that is when anything was created, reserved or deleted since the last
`Preview`.

### DocumentIntake and SyncInbox

`DocumentIntake` is what a device relies on: a document may be held and dropped
any number of times, it enters the books at most once and never leaves.

`SyncInbox` is the code. `inbox[row]` is the row of `voucher_inbox`,
`copies[d]` counts the vouchers or collections created from device document
`d`, `numbers` the voucher numbers in use. A handler goes through `checked`
(looked for the `clientRef`, reserved a number), `staged` (row saved),
`created` or `rejected` (the called service committed or threw), and then
marks the row by id. `Retry` enters at `staged`, `EditRead`/`EditSave` are
`updatePayload`. `Crash` drops a handler between any two steps.

Which documents are `Referenced` (sent with a `clientRef`) and which vouchers are
`Numbered` (carry the app's own number) are constants: the code accepts all
combinations. `MaxCopies` bounds documents that nothing de-duplicates. A row
identifier stands for a new one once nobody stores or holds it. `Intake ==
INSTANCE DocumentIntake WITH ...` maps the numbered vouchers: held are those with
a row or in the hands of a promotion. Any handler may crash between any two steps
and any row may be discarded at any time, in every run.

### ErpOutbox

`outbox` is the table in order of creation. A row is `due` when
`next_attempt_at` has passed. A push works on an image and saves it whole.
`DrainCheck`/`DrainLoad` are the two halves of `drain` around its first `await`:
the flag is tested before it and set after it. `DrainOff` is the drain that finds
the ERP switched off, or not configured, and returns. `Route` is the choice between
the direct ERP and the Hub, made anew at each attempt; `CallAnswered` and
`CallFailed` make one external call after another, the latter including calls
that were accepted and whose answer was lost. `Posted`, `MapVoucher`, `Fail`
save the image. `MapVoucher` may fail after the row was saved as posted, and
the catch then queues it again. `EnqueueRead`/`EnqueueSave` are the two halves
of `enqueue`. `Tick` is the backoff running out, `Restart` the process dying
with everything in memory, `ToggleHub` the setting.

The ERP and the Hub are external. They are modelled from how the code uses
them: they accept a call once per path and `externalId`, which is what makes a
repeated call harmless, and may refuse or not answer. `delivered[d]` is the set
of calls accepted for `d`. `SALES_RETURN` behaves as `SALE_INVOICE` without the
mapping and `STOCK_ADJUSTMENT` and `CASH_SETTLEMENT` as `SALES_ORDER` (one
direct call). An error of the save that marks a row posted is one of the ways in
which `Posted` goes on to `Fail`; an error of any other read or save of the drain
is not separated from a restart: the drain gives up its batch, and the next one
reads it again.

### ErpPull

| In the model | In the code |
|---|---|
| `erp` | the rows the ERP has committed, listed by `created_at` in pages; external |
| `cursor[f]` | `erp_sync_cursor` of a store, or of the receipts |
| `headers`, `mirrored`, `idmap` | the three writes of `mirrorMovement`: header `ERP-MV-<id>` under its unique index, line, `erp_id_map`. A receipt has the last two |
| `pulling`, `webhookTimer` | flag and debounce timer of the scheduled pull |
| `stockPending`, `stockRunning` | flags of `drainHubStockSync` |
| `pull[p]` | a pull in hand: feeds left, page, rows left, largest `created_at` seen |
| `event`, `request` | `hub_webhook_events`, and the requests that store, dispatch and record an event |
| `Tick`, `TimerFires`, `ScheduledStart`, `ManualStart` | `scheduledPull` up to its await and after it, `triggerWebhookSync`, `syncNow` |
| `NextFeed`, `ListPage`, `ListFails`, `PageOver`, `CheckRow` | `runEntity`, `pullMovementsForStore`, `pullReceipts`, page by page |
| `SaveHeader`, `SaveLine`, `SaveMap`, `SaveCursor` | each write on its own; one that a unique or foreign key refuses ends the feed |
| `ErpOff` | the ERP is switched off, or not configured: `scheduledPull` returns, and what `syncNow` pulls then mirrors nothing |
| `Receive`, `Dispatch`, `Record`, `Reprocess` | `HubWebhookService` |
| `Restart` | the process dies with everything in memory |

`CostOnly`, `UnknownSku` and `Skipped` name the rows with which the code does
nothing, or whose line the items table refuses. A feed is ordered by distinct
times; `MayCommitLate` says whether the ERP may commit a row after a younger one.
The pulls of warehouses, items and customers, which are upserts by key, are left
out.

### RepLiveness

`status[r]` is the row of `rep_statuses`; timestamps are ages in minutes,
counted one past the limit they are compared with. `HeartbeatRead` and
`HeartbeatSave` are the read and the save of the whole row in `heartbeat`,
`Touch` the update after a location upload. `CheckStart` is the query of a
watchdog, then each row of its result is looked at by `SignedOut`,
`GoneOffline`, `BackOnline` or `NothingNew`, each against the table as it is by
then. `CheckFails` is the catch of `tick`. `Minute` passes once every instance
has checked. `alerts[r][i]` counts the `rep.offline` that server `i` has emitted
since the last sign of life, recovery or sign-out of `r`.

`GoneOffline` sets the flag and emits, whether or not the flag was set by
then: the `UPDATE ... RETURNING` of the code is meant to tell who set it, but
`query()` of TypeORM 0.3.29 answers an `UPDATE` on PostgreSQL with the pair
`[rows, count]`, so `claimed.length > 0` is always true.

### TaxDocuments

| In the model | In the code |
|---|---|
| `doc[d]`, `qty[i]` | header of an invoice or credit note with its totals and `jofotara_status`; the invoice's line |
| `linked` | credit notes whose line refers to a line of the invoice; `ON DELETE SET NULL` unlinks it |
| `OfficeRead`, `DeleteLines`, `OfficeSave` | update, confirm, approve, reject, cancel, override: a read, a change in memory and a save of the whole header; update deletes the lines first |
| `ReturnCheck`, `ReturnCommit` | `CreditNotesService.create`: the view `invoice_line_returnable_qty`, then the transaction |
| `Submit` ... `Post` | `submitInvoice`/`submitCreditNote`: validate, mark SUBMITTED, call, log and save the answer, `TaxLedgerService.post` |
| `IstdAccepts`, `IstdFails` | `JoFotaraApiService.submit` to the tax authority, which is external: it may accept and answer too late |
| `StandIn` | `submit` in mock mode, which is the default, or without credentials: success at once, and nobody is asked |
| `answered[d]` | the figures a submission of the document was answered for, by either |

`Answerers` says who may answer: the authority, the stand-in, or, while the
setting or the credentials change, either. A figure stands for the totals of an
invoice, and for the quantity of a credit note. The UBL document and the log of
attempts are left out.

### Receipts, Approvals, BackOffice

`Receipts`: `receipt` and `cheque` are the tables; `req[q]` a request between its
read and its save, with the image it will save and, for the properties to look at,
the rows it read: `OvertakenSave(c)` is the save of a request that another one
overtook. Creation commits receipt and cheque together and, when confirmed, is
followed by `Announce`. `Approvals`: `request` is the status, `review[v]` a
decision: `Read` refuses what is not pending, `Execute` is `vouchers.create`
(external here: it commits once, or refuses; a payload with its own number is
refused the second time), `Decide` saves the status; several decisions on one
request may be in hand. `cutOff` records the requests whose execution was cut off
after the voucher's commit. `BackOffice` takes both by `INSTANCE` and adds
`settle`: `SettleRead` sums the cash of the chosen days, sales and receipts less
cash returns (`Refunds`, the approved vouchers that pay back), so what is expected
may be negative, and the last balance; `SettleSave` inserts the row. A period is
any set of receipts and sales. A restart takes all of it down at once.

### Money and Offers

`Money` holds the calculators: `calcVoucher`, `calculateInvoice` and
`calculateTobaccoTax`, with the code's names, over whole fils, percents and
quantities, and a quotient rounded half up. `Offers` runs them.

| In the model | In the code |
|---|---|
| `Preview`, `Leave` | `POST /offers/evaluate`: the app asks what a cart comes to, names the store, and shows the total; the rep may not go on |
| `Unseen`, `Confirmed` | `POST /vouchers` with a cart not asked about, or with one that was, some time ago: the offers that are active and within their limit are read again |
| `Granted`, `Evaluate` | `evaluate`: scope, store, limit per customer; best payment and item offer, gifts |
| `ApplyOffers` | `applyOffers`: the evaluation, its discounts written into the lines, the gift lines |
| `OffersFail` | its `catch`: nothing was evaluated, or the discounts stay and no offer is recorded |
| `Post`, `PostFails` | `createUnchecked` |
| `Record`, `Count`, `RecordFails` | `recordApplied`, which saves the redemptions and then increments the counts one by one |
| `ToggleRead`, `ToggleSave` | `toggle`, with its stale entity |

Between preview and sale other sales may use an offer up, the customer may have
bought, and an administrator may pause it. `shown` is a history variable: the
total the app was shown, if the sale is evaluated with the very offers it was
shown with; `missed` is another: redemptions the count will never show. A
preview reads all it evaluates with in one step; a sale reads the offers in one
and what the customer has bought and redeemed in the next. Prices and the
terms of an offer are constants. The schedule of an offer, its editing and
removal, larger units and fractions of a quantity are left out. `MaxSales`,
`MaxLost`, `EditsUntil` (how long the administrator opens offers; he may save
later) and `Carts` (the carts the app asks about before it sends them) are bounds.

## 4. The runs

Symmetry is used only for safety properties and interchangeable values.
Deadlock is checked in every run but `SalesWithOffers`, whose bound on sales
ends it.

| Run | Shows | Instance |
|---|---|---|
| `VouchersConcurrent` | two overlapping requests of every kind, failing at any step: `TypeOK`, `FulfilledIsPosted`, `ShortOfOthersOnly`, `PostedIsFrozen`, `ReservedFollowsOrders`, `AnnouncedIsPosted` | 2 requests, 2 vouchers, 1 rep, 2 stores, quantities 1 and 2; orders are created as drafts or posted, what moves stock is created posted |
| `NumberingMixed` | two overlapping allocations, rollbacks, deletions, clients that choose any number: `IssuedOnce`, `CollidesOnlyWithDeleted`, `PreviewIsExact` | 2 requests, 4 serials, all of them open to clients |
| `InboxReplay` | two handlers that may die, all operations: `NumberedOnce`, `PostedIsInBooks`, and that the inbox implements `DocumentIntake` | 2 handlers, 3 rows, numbered and unnumbered voucher, collection |
| `OutboxOverlap` | overlapping drains, a retry, restarts, lost answers, the ERP and the Hub switched on and off: `PostedIsDelivered`, `IssuedBeforeReceived` | 2 drains, 1 retrier, 1 transfer |
| `OutboxSettles` | `PostedIsFinal`, and the liveness property `Settles` | 1 producer, 1 drain, a sale and an order in a batch of one, restarts, the ERP and the Hub switched on and off |
| `PullOverlaps` | a scheduled and a manual pull that overlap, outages, a restart: `MovementOnce`, `SeenIsMirrored`, `CursorCovers` | 2 movements of one store (one of an unknown SKU), 1 receipt, pages of one row |
| `PullCatchesUp` | Hub events stored, lost or reprocessed, the ERP switched off and on: `PendingIsServed`, and the liveness property `MovementsAreMirrored` | no manual pull, 1 stock event, 1 restart |
| `RepsWatched` | heartbeats, uploads and two watchdogs: `AlertedOnceByEach`, and the liveness property `SilenceIsAlerted` | 1 rep, 2 servers, 1 heartbeat in hand, threshold 2 minutes, 1 failed check |
| `RepsAnnounced` | that `AlertedOnce`, which the code claims, does **not** hold: both servers announce one silence | the same |
| `TaxLedger` | an invoice through every request, submitted again and again, to the authority or its stand-in: `LedgerIsAnswered`, `ReturnsFit` | 1 invoice, 3 credit notes, 2 figures, a line of quantity 1, 1 submission and 2 returns in hand |
| `BackOfficeDay` | receipts, decisions and settlements: `ApprovedIsExecuted`, `TakenIsReconciled`, `TakenIsFrozen`, `SettledIsCovered` | 1 receipt, 1 cash return, 2 decisions in hand, 1 request on receipts, 1 settlement |
| `SalesWithOffers` | previews and overlapping sales under four offers: `LimitHolds`, `PostedAsPreviewed`, `HeaderIsSpread`, `EnginesAgree` | 2 sellers, 3 items (one tobacco), 3 sales, 1 missed count, one offer that may be paused, one for a store only |

Why the bounds are enough. Every race in these components is between two
requests on one row, or between one request and a stale image, so two actors
and two or three rows reach it. Quantities 1 and 2 make a
line smaller than, equal to and larger than what is in stock. Three inbox rows
let a discarded document be staged again while an old handler still holds the
first row. `MaxAttempts` is 2 in `OutboxOverlap`, a first failure (backoff) and
a last one (dead letter), which is all the code distinguishes, and 3 in
`OutboxSettles`, where the row also fails in between. `Batch = 1` makes the
rows compete for a batch. With `Producers = {e1, e2}` and one drain,
`OutboxOverlap` also covers two enqueues that leave two rows for one document;
its properties hold there too.

Of the later runs: pages of one row make a feed of two rows a full page, a
second one and the safety cap `MaxPages`; two movements let the cursor of one
pass the other. A threshold of two minutes has an age below, at and past it, and
leaves room for one failed check while a rep is back. Three credit notes of a line of
one let two returns in hand take what is left twice, and a third one come after
them. Two decisions in hand are two approvals, or an approval and a cancellation,
of one request. `BackOfficeDay` has one request on receipts, so nothing is
overtaken and `TakenIsReconciled`, `TakenIsFrozen` and `SettledIsCovered` hold
there without their exception; with two requests they pass as stated (904,000
states of `Receipts` alone), and the theorems are for any number. The two carts of
`SalesWithOffers` are chosen so that rounding leaves fils over (prices 7, 20,
150; discounts of 3 fils over four lines), a gift is also bought, an item is on
two lines, and an offer is limited to one. The theorems of section 5 do not
depend on any of these bounds.

What the passing runs assume of the system. No property needs requests on vouchers
or receipts, decisions, returns or settlements to come one at a time. What moves
stock is created as posted for `ShortOfOthersOnly`. `CursorCovers` needs an ERP
that commits rows in the order of their `created_at`; `MovementsAreMirrored`
excepts stores that an orphaned header blocks. `TaxDocuments` has one request of
the back office on invoices at a time, beside submissions and returns, and so have
its theorems. Where a property has an exception for what the code does not
prevent, section 7 says what happens.

The type invariants of `ErpPull`, `RepLiveness`, `Offers`, `TaxDocuments` and
`BackOffice` (with those of `Receipts` and `Approvals`) are proved and not run.

Fairness (`ErpOutbox!FairSpec`, used by `Settles` alone): the 30 s timer keeps
firing, a push that can take a step takes it (HTTP calls end by their 20 s
timeout, saves complete), and a backoff runs out. Nothing is assumed of the ERP:
each call may fail for ever. `Settles` has the premise that restarts, new
enqueues, manual retries and drains that find the ERP switched off eventually
stop: a process that restarts for ever, or a drain that returns for ever because
`erpEnabled` is off or the URL or key is missing, settles nothing, a producer that
keeps reviving a dead letter keeps it unsettled, and a dashboard that keeps
retrying the oldest dead row fills a batch of one and starves the rows behind it.
`MaxRows`, the number of rows an instance can have, is one for each pair of a
producer and a document.

Fairness of the others. `ErpPull!FairSpec`: a pull in flight goes on, the 5 min
timer keeps firing, and from some time on the ERP is switched on in the settings
and its outages are over (`ErpOff` and `ListFails` no longer happen): while it is
off, `scheduledPull` returns and nothing is mirrored. That is an assumption about
the system's operation and not something the code provides. Nothing is assumed of
the Hub, whose events may all be lost. `LivenessFairSpec` of `RepLiveness`: minutes pass
whatever the devices do (strong fairness, since every heartbeat in hand holds a
minute up in the model), a heartbeat in hand is saved unless it fails, and a
check goes on. The cron job runs in each instance. `SilenceIsAlerted` needs
fewer failed checks than the threshold has minutes (`MaxFailures`).

## 5. The proofs

`Sums`, of `SumFunctionOnSet` over any finite set: it unfolds, is an integer, or a
natural number, when its terms are, a term can be taken out, added or
changed, and terms that are equal, or 0, add up to the same. The community
module defines it as a `CHOOSE` of a recursive function, and the schemas of
induction cannot be used here; instead, among the subsets for which a statement
fails there would be a smallest one (`Smallest`, from the well-foundedness of
strict inclusion on the subsets of a finite set), and that one is shown not to
fail.

`Vouchers_proofs`, for any sets of vouchers, stores, reps, quantities, requests:

- `TypeCorrect` and `ShippedOrdersArePosted` under any overlap of requests.
  `FulfilledIsPosted` is not inductive, since a save puts back what was read
  long before: `IInv` adds `ImageOK`, that no image in memory is of a
  shipped order that is unposted.
- `PostedIsImmutable`, `AnnouncementsCorrect`, `ReservationsFollow`, under any
  overlap too. The strengthening `Sounds` says of what a request holds in memory
  only what it knows by itself, whatever the tables have become (`Sound`): an edit
  holds a draft, a post that is ready to commit holds a posted image and the van it
  moves. A step of a request that was not overtaken then saves the row as it is,
  changed by what the request does. For the reservations, each action is shown to
  change at most one voucher, hence one term of the sum of the open orders.

`Claims_proofs`, of the numbers, for any number of requests and serials and whatever
numbers clients choose:

- `NumberingTypeCorrect`, `NoDoubleIssue`. The argument: the row lock keeps one
  allocation open, an open one lies above the counter, what was issued lies at
  or below it.
- `CollidesOnlyThere`, `PreviewCorrect`. The strengthening
  `SeriesInv` adds that what the server holds was issued, that an open
  allocation skipped only numbers in use, and that an up-to-date preview shows
  the number after the counter.

`SyncInbox_proofs`, for any number of handlers, rows and documents, with
crashes:

- `TypeCorrect`, `NumberedEntersOnce`, `PostedIsThere`. `IInv`
  adds that a numbered document is in the books exactly when its number is in
  use, that a row not yet saved is in one handler's hands only, and that whoever
  works on a row agrees with it, and with each other, on its document.
- `KeepsThePromise`: the inbox implements `DocumentIntake` for the numbered
  vouchers. Every step is about one document (`OnlyAbout`), so it stages it,
  drops it or changes nothing (`HoldOrDrop`), except for the commit of the
  document, which is `Enter` because `VoucherEnters` shows it was not there.

`ErpOutbox_proofs`, for any number of producers, drains, retries, documents and
rows, any `MAX_ATTEMPTS` and `BATCH`, with restarts, lost answers, and the ERP and the
Hub switched on and off:

- `TypeCorrect`, `PostedMeansDelivered`, `TransfersInOrder`. `IInv` says of each
  push what it relies on (`Fits`): its images are of rows of the table with the
  same document, and pending, unless the push itself has just posted one; the
  calls it has behind it were accepted (`Underway`); when it is done all were
  (`Whole`). What fits a table fits every later one (`FitsGrows`), since rows
  keep their documents and what was accepted stays accepted: so the saves of one
  push cannot hurt another, and each action is about its own push (`OnePush`).
- `PostedStays`: the action property `PostedIsFinal`, from the same invariant.

`ErpPull_proofs`, for any stores, rows, pulls, events, page sizes and restarts,
and an ERP that may commit late:

- `TypeCorrect`, `MovementOnceHolds`, `SeenIsMirroredHolds`. `Inv` adds that a
  pull that writes has a row to write (`InHand`), that a movement without a
  header has no line, and that only the one pull that inserted the header writes
  the line (`OneLine`): the unique voucher number is what keeps two pulls apart.
- `PendingIsServedHolds`, from an invariant about the two flags and the drain
  alone (`Served`): an event is pending only while the flag of the drain is up,
  and the flag is up only while the drain is at work.
- `CursorCoversHolds`, if `MayCommitLate` is `FALSE`. `CoverInv` speaks of the
  rows before a position: those before the cursor of a feed need nothing any
  more, and so do those before what a pull has seen, whose remaining rows are a
  suffix of what it listed; a row that failed ends the feed before the cursor is
  saved. What the ERP commits later is younger than all of it.

`Claims_proofs`, of the watchdogs, for any reps, servers, heartbeats, thresholds:

- `LivenessTypeCorrect`, `AlertedOnceByEachHolds`. The strengthening (`Flagged`) is
  about a server and a rep it has announced: his flag is up, also in the row the
  server may be about to look at, and whatever lowers it ends the silence.

`Offers_proofs`, for any catalogue, items, requests and number of sellers:

- `TypeCorrect`, `LimitIsHeld`. The strengthening `Bounded`: the count of an
  offer lags behind its redemptions by those it has missed and by the sales that
  have saved theirs and not counted them; those sales and the ones that may
  still record one (`Holding`) are of different sellers, so with the one that
  begins they are as many as there are sellers at most. It counts with the
  library's theorems on finite sets.
- `HeaderIsSpreadHolds`, `EnginesAgreeHolds`, `PostedAsPreviewedHolds`. The
  inductive invariant is `CartsOK`: the lines of a sale are lines the DTOs let
  through, those of a posted one carry the rate of their item, its voucher and its
  tobacco tax are computed of them, what the app was shown is what the evaluation
  comes to with the offers granted then (`PreviewOK`), and, if these are granted
  to the sale, what the lines of a plain sale come to (`Previewed`, `Worth`). The
  rest are facts about the operators, for any arguments:
  - `SharesAdd`, `SharesSpread`: the rounded shares of all lines but the last
    charged one are off by half a fils each, so their sum is by half a fils for
    each of them (`Weighed`, `SumBound`), and the last charged line takes what is
    left.
  - `SameEngines`: line by line the two engines find the same gross, discount and
    net. Within the price one of them rounds the tax up and the other what is
    left of it; the two differ only when half a fils is left over. Then
    `100 + rate` times an odd number is `200 * net`, a multiple of 8, so the
    rate leaves 4 when divided by 8 (`NoTie`).
  - `PlainWorth`: a plain item is on one line, so its discount is the discount of
    that line and never cut off; a gift is a line of its own that comes to nothing
    at 100 % (`GiftIsFree`, `WorthWithFree`); so the lines come to the
    evaluation's total, whose sum runs over items instead of lines
    (`SumRenamed`). The evaluation is a function of the cart and the offers granted,
    so what other sales and the administrator do meanwhile enters only by these.

`Finance_proofs`, of the tax documents, for any documents, figures, submissions and
returns:

- `LedgerCorrect`, `ValidatedCorrect`. `Inv` says that a submission with its
  answer in hand has it for the figure of the image it holds (`Answered`), and
  that the back office never holds a header that says VALIDATED of a document
  that was not answered for (`HeldInOffice`): stale images may be put back, but
  they are images of what once was true, and what was answered stays answered.
  With `Answerers = {"istd"}` the theorems say that the authority has accepted it.
  The invariant relies on the shape of the records (`Shape`) and not on
  `TaxTypeOK`.
- `TaxTypeCorrect`. That what is returnable of a line is an integer needs that
  every note has a quantity, and that there are finitely many.
- `ReturnsFitHolds`. `ReturnInv` counts what the returns in hand have claimed
  together with what was returned (`ClaimsFit`): a return that begins claims no
  more than is left, and there are only so many of them. Between its check and its
  commit a line is only replaced, and then the notes that referred to it, the
  returned quantities with them, are unlinked; what refers to no line is no return
  of it (`NoLineNoReturns`).

`Finance_proofs`, of the back office, for any receipts, cheques, requests, reviewers,
settlements and restarts, however they overlap:

- `DayTypeCorrect`. What is expected of a salesman is an integer.
- `ApprovedHolds`: `DecisionsFit` counts the vouchers of a request that was decided
  with the decisions on it that are still to be executed or saved, and the one that
  refused it, against the decisions there may be.
- `ReconciledHolds` and `FrozenHolds`: `ReceiptInv` says that what a request will save
  is right for the rows it read (`Grounded`); so it is right for the table, unless the
  request was overtaken.
- `SettledHolds`: as long as receipts keep (`Keeps`) and vouchers stay, the cash that
  came in over any period only grows (`CashGrows`).

Assumptions on the constants are those of each module (`VouchersAssumption`,
`NumberingAssumption`, `InboxAssumption`, `OutboxAssumption`, `PullAssumption`,
`LivenessAssumption`, `OffersAssumption`, `MoneyAssumption`,
`DocumentsAssumption`, `AbsentAssumption`, `ReceiptsAssumption`,
`ApprovalsAssumption`, `BackOfficeAssumption`: disjoint sets of identifiers,
natural bounds, `None` outside of everything). What is counted or summed over is
assumed to be finite: vouchers, the rows of a feed, sellers, credit notes,
receipts, sale requests, items, offers; no assumption says how many there are.
`MoneyAssumption` is what the DTOs and `validateLines` check of offers and
requests, with fils, percents and quantities as whole numbers (section 3).

Only model-checked: the liveness properties `Settles`, `MovementsAreMirrored` and
`SilenceIsAlerted`, which depend on fairness and are out of the prover's reach, and
`ShortOfOthersOnly`. Every other property of the passing runs is a theorem,
`CursorCovers` under the hypothesis named above.

## 6. What is not covered

- The open rows of the plan, for the reasons given there.
- Of vouchers: the payments and cheques of a voucher, the permission gate, and
  several items and lines in `Vouchers` (in `Offers` a sale has several). That
  `update` changes the header discount of a draft and recomputes no total is
  listed in section 7.
- Of the inbound mirror: warehouses, items, prices, customers, which are upserts
  by the ERP's key. Of collections: several cheques of one receipt. Of reports:
  everything but the settlement, as queries that change nothing.
- Of tax: the UBL document, what validation looks at beyond the lines, and the
  monthly report, which is a sum over the ledger.
- Floating point in the calculators: the models divide exactly and round half
  up, while the code rounds the quotient of two doubles.
- The give-up of the numbering walk after 1000 numbers is an action that finds
  no candidate; no property says when it happens.
- Routes and journey plans, catalogue, users, settings, realtime, notifications,
  assistant, scripts: CRUD, glue, read models or external services, one
  statement or one transaction each, without state that two actors share.

## 7. Where the code departs from what it says

Found while modelling, with the claim and its line (paths under `src/src`, or
`src/docs`). A property in parentheses says where the models show it: most often
it has an exception for just this. The first of the watchdog's is checked as a
finding by the run `RepsAnnounced`.

Vouchers and numbers

- `vouchers.controller.ts:138`, posting "makes it immutable". `update`
  (`vouchers.service.ts:825`) and `remove` check a copy outside any
  transaction: a post that commits meanwhile is undone by the save, or a posted
  voucher is edited or deleted (`HeaderOvertaken` in `PostedIsFrozen`).
- `vouchers.service.ts:591`, "Don't allow a sale/out/transfer-out to drive a
  store's stock negative." The check is made when a draft is created and not
  when it is posted; two sales created posted check one balance before either
  commits (`ShortOfOthersOnly` says by how much they may exceed it).
- `docs/SPEC-app-settings-returns-units-images.md:202`, "Over-return blocked
  client-side (cap) **and** server-side". `create` of a return never looks at
  how much was sold or returned before.
- `vouchers.service.ts:988-989`, "we always return the true next-available
  number and never collide". `exist()` does not see soft-deleted vouchers,
  whose numbers the unique index keeps: the walk stops at such a number, the
  insert fails, the counter is rolled back, and so for ever
  (`CollidesOnlyWithDeleted` says that nothing else collides).
- Two overlapping posts, or fulfilments, of one order move the van twice
  (`HeaderOvertaken`, `VanOvertaken` in `ReservedFollowsOrders`).
- An order created as posted reserves nothing, and releases on fulfilment what
  it never reserved (`BornPosted` in `ReservedFollowsOrders`).
- A client's number may be one reserved for the inbox, since only vouchers are
  looked at, and `PreviewIsExact` excepts a number shown that a client has used.
- `update` (`vouchers.service.ts:824`) patches the header discount of a draft
  and leaves its totals as they were.

Inbox and ERP

- `voucher-inbox.entity.ts:29`, "idempotency key so replays don't double-post".
  A collection carries nothing of the `clientRef`: a crash between its commit
  and the marking of the row, and then a retry, post it twice (only
  `NumberedOnce` holds).
- `docs/SPEC-integration-hub.md:38-39`, "We do **not** run both push paths at
  once for the same document". The route is chosen at each attempt: a transfer
  whose first direct call was accepted before the Hub is switched on goes again,
  whole, through the Hub. No property excludes it; `PostedIsDelivered` says that
  one of the two routes was taken whole.
- `erp-sync.service.ts:564`, "Guarded against overlap with itself and a manual
  sync", and `docs/ERP-MIRROR-SYNC.md:113-116`, "single-flight". `syncNow`
  neither tests nor sets the flag, and the flag itself is set after an await. A
  movement is saved by its unique number, but two pulls mirror one receipt
  twice.
- A crash between the header of a movement and its id-map entry leaves a header
  whose number stops every later pull of that store
  (`MovementsAreMirrored` without its exception). A movement of a larger unit's
  SKU does the same: its line is refused, although `:1181-1182` says that "any
  unit's SKU" resolves.
- The cursor passes a row that the ERP commits late with an older `created_at`
  (`CursorCovers` with `MayCommitLate`).
- A Hub event stored and not dispatched before a crash is answered as a
  duplicate when delivered again; only the 5 min pull makes up for it.

Back office

- `collections.controller.ts:106`, "Blocked once confirmed". An update that has
  read a pending receipt puts a confirmed one back to pending, and a confirm
  racing a deposit undoes it (`OvertakenSave` in `TakenIsFrozen`).
- A cheque read before it was reconciled and saved after takes the
  reconciliation back while its receipt is confirmed (`OvertakenSave` in
  `TakenIsReconciled`). Reconciling changes the amount of the cheque and not of the
  receipt; an update to cash, or back, escapes the block of a mismatch; a
  bounced cheque may be cleared.
- `PATCH` of a collection with `cheques` always rolls back.
- `docs/features/F10-approvals-notifications-permissions.md:119`, "runs in a
  transaction". The voucher commits on its own: two reviewers, or a crash and a
  second approval, create two vouchers, and when reading the voucher back fails
  the request is rejected although it exists (`ApprovedIsExecuted` excepts
  `cutOff`, and bounds the vouchers of two reviewers by two).
- `settle` does not look at the period of earlier settlements: overlapping
  periods count twice, a receipt confirmed late is in none, a receipt edited by a
  request that was overtaken takes cash out of a settled period (`SettledIsCovered`),
  and two settlements at a time start from one balance.

Tax

- `configuration.ts:45` makes mock mode the default: unless `JOFOTARA_MOCK` is
  `false`, or without credentials, documents become VALIDATED and enter the ledger
  without the authority (`StandIn`).
- Overriding, rejecting or cancelling a VALIDATED invoice leaves its ledger
  entry, and a crash between saving VALIDATED and posting leaves none.
- A document is submitted whatever its status, so twice when asked twice, and a
  second confirmation gives an invoice another `jofotaraUuid`. An answer that
  comes after the timeout leaves ERROR on a document that was accepted.
- A submission saves the header it read up to 30 s before, over a cancellation,
  rejection or override made meanwhile; the back office may put SUBMITTED back.
- Editing a rejected invoice replaces its lines: the lines of its credit notes
  lose their reference, and the goods can be returned again. A crash in between
  leaves an invoice without lines, which confirm does not notice.
- `invoice_line_returnable_qty` is read before the transaction: two credit notes
  at a time return more than there is (`ReturnsFit` says how much at most). Credit
  notes ignore the header discount of their invoice.

Watchdog

- `heartbeat-watchdog.service.ts:73-74`, "RETURNING yields a row only for the
  instance that actually flipped NULL→now(), so only it emits". What `query()`
  answers is `[rows, count]` (section 3), whose length is 2: each server whose check
  had read the rep before the flag was set emits `rep.offline` (`AlertedOnce` fails
  in `RepsAnnounced`; `AlertedOnceByEach` is what does hold).
- `rep-status.service.ts:10` and `:46-47`, "once per cooldown window". GPS
  coming back on clears the time of the last alert, so a flip-flop alerts each
  time.
- A heartbeat saves back the offline flag it read: a recovery goes unannounced,
  and one server after another announces a recovery they both saw. With as many
  failed checks as the threshold has minutes the flag hides the next silence
  (`SilenceIsAlerted` with `MaxFailures` = `Threshold`).
- `docs/api/10-realtime-websocket.md:36`, "no ping in 2h"; the code says ten
  minutes. A rep deactivated while flagged keeps the flag.

Offers and money

- `offers-engine.service.ts:40-41`, "the first NON-stackable offer that applies
  ends the chain". Nothing reads `stackable`.
- `offers.types.ts:77` gives the dynamic percentage without the anchor from
  which the code counts steps.
- `vouchers.service.ts:219-220`, "matches exactly what /offers/evaluate
  previewed". It does for plain sales when the same offers may be granted as then
  (`PostedAsPreviewed`). An offer confined to stores is previewed for the store
  the app names and never granted to the sale, for which `applyOffers`
  (`vouchers.service.ts:229-240`) passes neither store nor rep to `isEligible`; an
  offer paused, used up or spent by the customer meanwhile is not granted either.
  An item on several lines gets its discount on the first only, where it is cut
  off at the line's total; the preview is exclusive of tax whatever the setting,
  and ignores tobacco tax and larger units.
- The same comment, "any failure leaves the sale exactly as the client sent it".
  When the names of the gifts cannot be read, the discounts stay written and no
  redemption is recorded (`OffersFail`).
- The limit of an offer is exceeded by sales that overlap and by counts that were
  missed; `LimitHolds` says by how much. Saving an offer after a toggle puts an
  older count back, and nothing returns a redemption when a voucher is deleted.
- `voucher-calc.ts:2-4`, "the SINGLE source of truth for tax + discount math [...]
  Every system MUST reproduce these exact numbers". `calculateInvoice` is another
  engine. At 4 % within the price and 13 fils, the voucher has
  12.5 fils without tax, which it rounds to 13 and no tax; the invoice has half a
  fils of tax, which it rounds to 1. It can happen at the rates that
  leave 4 when divided by 8 (`EnginesAgree` excepts them within the price;
  `EnginesAgreeHolds` says that it happens at no other rate).
- `invoice-calculator.ts:60-61`, "absorbed by the last discounted line". It is
  the last line even when that comes to nothing, which then goes below zero
  (`EnginesAgree` excepts it). In `calcVoucher` the share of the last line may
  exceed its net, or be negative, from four lines on (nets 3, 3, 3, 1 and a
  discount of 8 fils).
