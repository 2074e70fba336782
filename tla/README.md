# Verification of the textile ERP backend

TLA+ models of the parts of this NestJS/Prisma/PostgreSQL backend whose
correctness depends on what happens between two statements: stock, invoices,
the offline queue of the mobile clients, bills of materials and MRP runs, orders
and the queue that plans them, purchase orders, production and accounts; and of
its two calculations, the MRP engine and the tax of invoices. TLC
checks each model on small instances; TLAPS proves the main properties for every
value of the constants. Paths below are relative to the repository
(`src/modules/...`, `prisma/schema.prisma`).

Contents: 1 the system, 2 how code becomes TLA+, 3 the modules, 4 the runs,
5 the proofs, 6 where code and its comments disagree, 7 what is not modelled,
8 plan.

## 1. The system

One Node.js process (or several) serves HTTP requests of many tenants. Every
row carries its tenant and every query filters by it, so the models are of one
tenant. There is no shared memory between requests: all state is in PostgreSQL,
at NIC (the tax portal), in the queues of the mobile clients, and in the local
variables of a handler between two `await`s. Only two places open an interactive
transaction over several statements of stock: `InventoryService` and
`SyncService`; Prisma runs them at READ COMMITTED, and nobody asks for another
level, locks a row explicitly, or puts a condition on what was read into the
`where` of an update. That is where most hazards of this code come from.

| Component | State | Operations that change it | Interacts with | What is hard | Must hold |
|---|---|---|---|---|---|
| Inventory (`inventory.service.ts`) | `stock_balances` (a cache), `stock_ledger` (append only), `grns.status` | adjust, issue, return, opening stock, transfer, `postGrn`, `rebuildBalance` | Kafka event `inventory.grn-posted`, audit | overlapping transactions, row locks and deadlocks, stale reads, rollback half-way | an operation is booked wholly or not; transfers create nothing; POSTED iff booked; cache = ledger; no over-issue |
| Other writers of stock (`sync.service.ts`, `mrp.repository.ts`) | the same tables | pushed adjustments, GRN PATCH, `upsertStock` | Inventory, through the rows | several columns of one row written by code that does not know of each other | no write is lost to a write of another column |
| Finance (`finance.service.ts`, `finance.repository.ts`) | `invoices`, `payments` | create, PATCH, cancel, record payment, generate and cancel IRN | GST service, NIC | no transaction at all: each statement commits; process may end between two | paid amount backed by payments; no overpayment; status agrees; IRN agrees with NIC; credit limit |
| Offline sync (`sync.service.ts`, `sync.repository.ts`) | `client_mutations`, and what the handlers write | `POST /sync/push`, `POST /sync/ack` | mobile clients that retry | overlapping retries, lost answers, failures inside a batch | recorded iff applied; nothing lost; applied once |
| Bills of materials (`inventory.service.ts`, `mrp.service.ts`) | `boms`, `bom_lines` | two `createBom`s, `updateBom` | MRP runs read them | three statements without a transaction, two services with different ideas of a version | an item is not left without an active version |
| MRP runs (`mrp.service.ts`) | `mrp_runs`, `mrp_lines`, `purchase_requisitions` | `runMrp`, `approvePrs` | bills of materials, stock, orders | six statements without a transaction, numbers taken from a count | numbers distinct; COMPLETED means whole, and stays |
| MRP engine (`mrp-engine.ts`) | none (pure) | `calculate` | MRP runs give it bills, demands and stock | multi-level explosion, shared parts, cycles, depth limit, rounding after netting | what is requested is what all paths need and the stock does not cover, by the earliest date |
| MRP queue (`modules/queues`) | Kafka topic, Bull jobs | consumer of `order.confirmed`, `run-mrp` jobs, 3 attempts | orders, MRP runs | events delivered twice, refused jobs, attempts | no published confirmation is lost by the consumer |
| Orders (`orders.service.ts`) | `orders`, `order_lines`, `order_revisions` | create, update (with a revision), confirm, cancel, dispatch | Kafka | status and revision number read before the write | life cycle; revisions are the history of the lines; totals agree with the lines |
| Suppliers, POs (`suppliers.service.ts`) | `suppliers`, `purchase_orders` and lines | create, edit lines, send, acknowledge, close, cancel | Kafka (no consumer) | the same; numbers from a count; partial edits of a line | life cycle, distinct numbers, amount = quantity x rate |
| Production (`production.service.ts`) | `cut_orders`, `line_plans`, `wip_records` | create, update | Kafka (no consumer) | sums and statuses compared with stale values; numbers from a count, with a key | output + reject <= input; life cycles; numbers without gap |
| Quality, Buyers | one row each | create, update | Kafka | nothing beyond a last-writer-wins row | - |
| Authentication (`auth.service.ts`, `local-token.provider.ts`) | users, one-time codes, refresh tokens, password resets | login, resend code, register, forgot/reset/change password, refresh, logout, logout-all | email | counters read then written; tokens and links looked up, then revoked or used by id | lock, plan limit, one use of tokens and links, ended sessions stay ended |
| GST, e-invoice client (`gst.service.ts`, `einvoice.service.ts`) | token kept by the client | compute tax, build the payload, call NIC | invoices, NIC | rounding by line and by half, computed twice; token expiry and overlapping authentications | amounts agree from the lines to NIC; a token reaches NIC while it is taken |
| Infrastructure | - | audit log, Redis, Kafka, email, WhatsApp, S3, guards, filters, pipes | - | audit and Kafka swallow their errors; Redis is not used by any module | - |

## 2. How code becomes TLA+

* **One step is one `await`** (or several that commute with everything else, and
  then the comment says so). Between two steps any other request may move.
* **Transactions** (`Inventory`, `StockWriters`): `balance` is what is committed,
  `dirty[k]` the uncommitted version of a row, `lock[k]` the transaction that
  wrote it. Reads see the committed row or the transaction's own (`View`), writes
  wait for the lock, `Commit` publishes all, `DropWrites` none. A cycle of waits
  is broken by aborting one of its members (`AbortDeadlock`). `PoolSize` bounds
  the transactions open at a time, as Prisma's pool does; with `PoolSize = 1` the
  model is the serial execution that the comments in the code assume.
* **Without transactions** (`Invoices`, `Boms`, `MrpRuns`, `Auth`) every statement
  commits at once; `Fail`, `BomFail`, `Throw`, `LoseRun` and `AuthFails` stop a
  request after any of them.
* **Read, check, write by id** (`Orders`, `PurchaseOrders`, `Production`, `Auth`;
  the common part is `Handlers`): a handler reads one document, checks what it
  read and writes the document with no condition. `was` is the copy read; `late`
  (auxiliary) says that somebody has written the document since. Properties that
  such a write can break are stated with that exception and no other, so that
  they say exactly how much of the check survives an overlap.
* **Calculations** (`MrpEngine`, `Gst`) are functions over records of integers
  and folds; one computation is a short behaviour, so that its steps can be
  followed, and the properties compare its result with a definition of another
  shape (all paths of the bills, level by level) or with a second computation in
  the code (the payload for NIC).
* **A request is a record** with a `pc` and exactly the local variables its
  handler keeps across an `await` (for instance `was`, the invoice as first
  read). Requests are finite in number and each is served at most once: this is
  the bound on every counter of the models.
* **Inputs** are the values the DTOs let through, taken from small sets.
* **Auxiliary variables**: `booked` (the sum of the ledger), `received` (the sum
  of the payments), and `effects` (the log of applied mutations), `history` (writes
  to a row in commit order; in `Orders` the lines of each revision), `overlaps`
  (another push, or run, was in progress), `late`, `overtaken`, `partly` and
  `tally` of the documents. No guard reads these; `booked` and
  `received` stand for the aggregate
  queries of the code, which read nothing else.
* **Mutants.** Definitions named `Bug...` are plausible mistakes in the
  definition that follows them. No specification uses them; they exist so that
  each property can be seen to fail when the code is wrong.

## 3. The modules

| Module | Models | State -> code | Actions -> code |
|---|---|---|---|
| `StockTypes` | data of stock | keys, GRN lines, legs | `GrnLegs`: order and filter of `postGrn`; `SignedQty`: signs of the operations |
| `AtomicStock` | what callers may count on | `stock`, `applied` | `Apply`: an operation in one indivisible step |
| `Inventory` | `InventoryService` | `balance`/`dirty`/`lock`: `stock_balances`; `ledger`, `booked`: `stock_ledger`; `grnStatus`; `req`; `published`: Kafka | `BeginMovement`, `ReadBalance`, `RefuseInsufficient`, `UpsertBalance`: `postMovement`; `FetchGrn`, `BeginPostGrn`: `postGrn` before its transaction; `SumLedger`, `ReadReserved`: `rebuildBalance`; `Commit`, `Rollback`, `AbortDeadlock`: PostgreSQL; `EmitGrnPosted`, `DropGrnPosted`: `KafkaService.emit` |
| `StockWriters` | the other code on the same tables; EXTENDS `Inventory` | `sync`: pushed adjustments | `ReadExisting`, `ApplyIncrement`, `CreateRow`, `CreateConflict`, `CommitAdjustment`: `handleInventoryMutation` in its transaction; `PatchGrn`: `handleGrnMutation`; `StoreMrpLevels`: `MrpRepository.upsertStock` |
| `Invoices` | `FinanceService` | `invoice`; `received`: payments; `registered`: NIC | one action for each statement of `createInvoice`, `updateInvoice`, `cancelInvoice`, `recordPayment`, `generateEInvoice`, `cancelEInvoice` |
| `SyncPush` | `SyncService` and its clients | `effects`, `processed`: `client_mutations`; `deleted`: the clients' queues; `push` | `FindProcessed`, `AnswerDuplicate`, `Answer`: `pushMutations`; `BeginMutation` .. `CommitMutation`, `FailMutation`: `executeMutation`; `DeleteAcknowledged`: `/sync/ack` |
| `Boms` | bills of materials | `bom`: rows by item and version (the unique key) | `Deactivate`, `ReadLatest`, `CreateVersion`: `InventoryService.createBom`; `CreateGiven`: `MrpService.createBom`; `FindBom`, `DeleteLines`, `InsertLines`, `UpdateRow`: `updateBom` |
| `MrpRuns` | `runMrp`, `approvePrs`; EXTENDS `Boms` | `run`: `mrp_runs`, `mrp_lines` and the request; `prs` | one action for each statement of `runMrp`; `Materials`: which items `explodeBom` reaches |
| `Handlers` | what the handlers below share | `request`: requests under way | `Read`, `Written`, `Refuse` |
| `Orders` | `OrdersService`; EXTENDS `Handlers` | `order`, `revisions`; `topic`: events of `order.confirmed` | a read and a write of each handler; `EmitConfirmed`, `LoseConfirmed`: `KafkaService.emit` |
| `OrderPlanning` | consumer and queue; EXTENDS `Orders` | `offset`: of the consumer; `job`: Bull; `planned`: runs created | `Consume`, `ConsumeFails`, `ConsumeTwice`: `KafkaService.subscribe` and `OrderConsumer`; `RunJob`, `JobFails`: `handleMrpRun` |
| `PurchaseOrders` | purchase orders of `SuppliersService`; EXTENDS `Handlers` | `po` | `CountPos`, `InsertPo`; `ReadToEdit`, `EditLines` of the line the body names, whichever order it is of; `ReadToMove`, `MovePo` for send, acknowledge, close and cancel |
| `Production` | `ProductionService`; EXTENDS `Handlers` | `work`: cut orders and line plans; `wip`; `year`: the clock | `CountCuts`, `InsertCut`, `RefuseCut`, `CreateLinePlan`, `ReadWork`, `UpdateCutOrder`, `UpdateLinePlan`, `CreateWip`, `ReadWip`, `UpdateWip`; `NewYear`: time |
| `Auth` | `AuthService`, `LocalTokenProvider`; EXTENDS `Handlers` | `user`, `token`, `link`, `code`: their tables | one action for each statement; `LockEnds`, `Expires`: time |
| `MrpEngine` | `MrpEngine.calculate` and its loaders | `calc`: inputs, gross requirements, lines | `Load`, `ExplodeDemand`, `NetAndSort` |
| `Mrp` | runs and the computation they store; EXTENDS `MrpRuns`, `MrpEngine` | `ComputedBoms`: the bills of a computation as rows of `bom` | those of the two modules |
| `Gst` | `GstService`, `buildPayload`, and the lines `createInvoice` stores | `bill`; `ties`: how halves round | `CreateBill`, `ReportBill` |
| `NicToken` | `EInvoiceService.authenticate` and its three callers | `kept`: `authToken`, `tokenExpiresAt`; `now` | `UseKept`, `AskNic`, `NicIssues`, `KeepToken`, `ReachNic` |
| `Documents` | orders with their planning, purchase orders, production and accounts side by side; EXTENDS the six modules above | `service`: the one a behaviour exercises | `Next`: a step of that service |
| `MC*` | instances | | |
| `*Proofs`, `FoldLemmas` | theorems, and the induction and the sums they need | | |

Composition: `StockWriters` runs the whole of `Inventory` beside the other
writers on the same rows and locks; `MrpRuns` runs beside the whole of `Boms`
and reads its rows as `loadBomMap` does. `Inventory` is related to `AtomicStock`
by a refinement mapping (`stock` is the committed `onHand`, `applied` the
requests that have ledger rows). `OrderPlanning` runs the topic, the consumer
and the queue beside the whole of `Orders`. `MrpRuns` models a run by which
materials it plans; `RunsStoreWhatIsComputed` of `Mrp`, which has both modules,
says that these are the lines of `MrpEngine` for the same bills, in order and in
time (`PlansItsMaterials`, `OrderedInTime`). How much of each is needed is
`ComputedIsNeeded` of `MrpEngine`, against a definition of its own that adds up
the bills level by level. Both are checked and proved. `Gst` computes what
`Invoices` has as one amount. `Invoices` and `SyncPush` share no table with the
others as far as they are modelled; nor do orders, purchase orders, production
and accounts with one another, so that `Documents` and `MCFinance` exercise one
subject in each behaviour.

### Abstractions worth knowing

* Ledger quantities are DECIMAL(14,4) and invoice amounts DECIMAL(14,2);
  balances and note lines are doubles. Integers stand for all of them: rounding
  is a subject of `Gst` and `MrpEngine` only.
* The insert of a ledger row is one step with the read before it: it is
  invisible before commit, conflicts with nothing, and nothing is read in
  between. Likewise the update of the note with the commit.
* The producer and the audit log swallow their errors. Of the events only that
  of a posted note and `order.confirmed` are kept: no other has a consumer or a
  property.
* In `SyncPush` the handlers are abstracted to the identity of the mutation.
  The inventory and GRN handlers are modelled in `StockWriters`, with their own
  transaction.
* Prisma may implement an upsert with an empty update as SELECT and INSERT, and
  may report a key inserted in between as an error: both outcomes are in the
  model (`InsertRecord`, `RefuseRecord`).
* NIC is external: it keeps at most one active IRN for an invoice and may refuse
  or not answer. When it does not answer it may have registered all the same.
* A BOM line is its component: two equal lines are one. Of several active
  versions of an item `loadBomMap` keeps whichever the database returns last;
  the model takes any.
* In `MrpRuns` what is short is any subset of the materials of the plan; the
  quantities are in `MrpEngine`. There a line asks for hundredths of a piece,
  waste included, where the DTO allows four decimals and a percentage, and
  products are exact: a quantity is counted in hundredths of hundredths, as
  often as the explosion is deep (`Unit`); demands and stock are whole pieces.
  The code multiplies and adds doubles and rounds at the end, so that a sum that
  is not representable may round the other way. In `Gst` amounts are in paise
  and a product that ends in a half may be a double above or below it: `ties`
  chooses up, down or by parity once for a behaviour, since the same product
  rounds the same way wherever it is computed.
* Orders: `OrdersService` addresses `lines`, `revision` and `linesJson` through
  `(prisma as any)`, which the schema calls `orderLines` and `revisionNo`; the
  model follows the service. Lines of an order are one value, totals and the
  JSON copy are known by the lines they were made from.
* A purchase order has one line, and its rate and quantity are positive integers.
  An edit names the order in its path and the line in its body, and the model
  keeps the two apart as the code does. The service writes an `amount` on each
  line, for which the model `PurchaseOrderLine` of `schema.prisma:354-371` has no
  column: Prisma would refuse `createPo` and an edit of a quantity as they stand.
  The module follows the service.
* A cut order is numbered by the year and a count over all years; line plans and
  WIP records have no number.
* The create arm of `rebuildBalance` stores `available` without the clamp of its
  update arm (`inventory.service.ts:464`). It is only taken where no row exists,
  hence no ledger row, and the sum is zero.
* The queue remembers jobs for ever (`removeOnComplete: 100` and the like are
  bounds the instances do not reach); a worker that dies in a job, and a consumer
  that starts behind the end of the topic (`fromBeginning: false`), are left out.
* Accounts: a password is a value, not a hash; `verifyOtp` is left out because
  nothing issues the temporary token it asks for (`issueTempToken` has no
  caller), while `resendOtp` takes any signed token. `isActive` is left out with
  its checks (`auth.service.ts:82`): nothing in the repository sets it to false.
  Locks, tokens and links
  expire at any moment after they were made.

## 4. The runs

Twelve configurations: nine that pass and three that show a disagreement.
Symmetry permutes requests (and pushed adjustments, BOM requests, runs): no
definition tells one from another. It is not used where liveness is checked.

| Run | Instance | Shows |
|---|---|---|
| `inv_movements` | 2 items x 2 locations, quantity 1, one note with 3 postable lines (two of one item, one inspected) and one refused line, one empty note; 3 requests, 2 transactions | `TypeOK`, `AllOrNothing`, `TransfersBalance`, `GrnPostedIffBooked`, `BalanceSane`, `StockMovesWithLedger` under every overlap, rollback and deadlock |
| `inv_serial` | same data, all 7 kinds, 3 requests, 1 transaction | `CacheMatchesLedger`, `NoOverIssue`, and the refinement `ImplementsAtomicStock` |
| `inv_live` | 3 postings of one note with two lines, 2 transactions | `EveryRequestAnswered` under fairness |
| `inv_grn_twice` | 2 requests, 1 transaction | *violated*: `GrnBookedOnce` |
| `writers_replay` | 1 key, 1 request, 2 pushed adjustments of all 6 types, of either sign, 1 MRP store, GRN patches | `RowsReplay` |
| `fin_concurrent` | 1 invoice of 100, 5 requests of all kinds, 3 at a time, amounts 40 and 60, any may die | `PaidNeverAhead`, `PaymentsOnIssuedOnly`, `StatusMatchesPaid` |
| `fin_serial` | 2 invoices, 5 requests, 1 at a time, any may die, GST 0 or 12%, limit 170 | `NoOverpayment`, `PaidIsReceived`, `IrnsAgree` |
| | 11 lines, alone and in pairs, with and without rate and code, on, above and below a half, three rules for halves; every flag and pair of states | `AmountsAgree` |
| | 2 calls of NIC, clock 0..6, lives 1 and 3, buffer 1 | `TokenTakenByNic` |
| `fin_overpaid` | 4 requests, 2 at a time, amount 60 of 100 | *violated*: `NoOverpayment` |
| `sync_push` | a queue of 3, 2 pushes that may overlap, fail, be lost, be retried with what is left | `RecordedIffApplied`, `DeletedTookEffect`, `AppliedOnceWithoutOverlap`, and `EveryPushAnswered` under fairness |
| `mrp_runs` | a garment of panels, a panel of lining, 2 versions, 2 BOM requests, 2 runs, depth 3 | `LatestIsActive`, `NumbersDistinct`, `CompletedIsWhole`, `CompletedIsFinal` |
| | 4 items in 2 locations, depth 3, bills with shared, nested and missing parts, a part of itself and a cycle; 4 lists of demands, 4 states of stock | `ComputedIsNeeded`, `RunsStoreWhatIsComputed` |
| `documents` | 3 requests to one service: 1 order, absent, CONFIRMED or QC_PASSED at the start, with 3 faults of Redis, Kafka or the database and 3 attempts; 2 purchase orders; 2 cut orders and a line plan, and a New Year; 1 WIP record with quantities 0..2; 2 users of 1 tenant with a limit of 1 and a lock after 2 failures, one of them signed in already | `LifeCycles`, `RevisionsAreHistory`, `DerivedFromLines`, `CountedNumbers`, `WipBalanced`, `FailuresAreCounted`, `LockHolds`, `UsedOnce`, `EndedStayEnded`, `WithinPlan`, and `PublishedIsTried` under fairness of the consumer and the queue |
| `confirmed_unplanned` | 1 order, 2 requests, no fault | *violated*: `ConfirmedIsPlanned` |

What the less obvious properties say:

* `RevisionsAreHistory`: the number of a revision is read before the update, so
  that two updates may take the same one. The unique key turns it into an
  optimistic lock: every revision is the state it claims to be, with no gap.
* `LifeCycles`: under its service a document leaves its life cycle only by a
  request that held an old copy. It happens: a cancelled order may be confirmed
  by a request that read it before. The line of a purchase order is the one thing
  that changes outside it without an old copy, by an edit of another draft that
  names it (`EditElsewhere`): the code checks one order and writes another. The offline sync writes orders
  past `OrdersService` and is not part of this (section 6).
* `CompletedIsFinal`: a run that planned something stays COMPLETED, unless the
  answer to the statement that completed it was lost: `runMrp` then takes it for
  failed and says so in its row (`CompleteUnheard`, `MarkFailed`).
* `CountedNumbers`: cut orders of one year are 1, 2, ... without a gap or a
  repetition; over New Year the key tells the same sequence number of two years
  apart and lets both in.
* `PublishedIsTried`: whatever fails between the topic and the queue, a published
  confirmation reaches a job that is completed or given up, its attempts used up. That it never leads
  to a run is `confirmed_unplanned`; that an event may not be published at all
  (`LoseConfirmed`) is in section 6.
* `LockHolds`: a locked account is unlocked by time, by a reset of its password,
  or by a request that had read it before its last change; not by a login.
* `EndedStayEnded`: after logout-all or a reset no earlier token is live or can
  start a session, unless its request had begun by then.
* `TokenTakenByNic`: for every token that lives longer than the buffer, whatever
  overlaps, if answer and request together took no longer than the buffer.

Why the bounds are enough for what is claimed:

* Stock: two requests suffice for any pairwise race, a third for a deadlock with
  a bystander or a rebuild between two movements. Two items let two notes or
  transfers lock in opposite orders, two locations make transfers possible, the
  two lines of one item make a note read its own write, and the opening piece
  makes one issue possible and two an over-issue. Issues, returns and openings
  are left out of `inv_movements` because an adjustment books the same single
  leg of either sign; `inv_serial` has them all.
* Invoices: 40 and 60 sum to the total and 60 twice exceeds it. To reach a
  cancelled or settled invoice with two payments racing takes a creation, a
  PATCH, and three requests: five. PATCHes to PAID or PARTIAL are left out of
  `fin_concurrent`, since they make `StatusMatchesPaid` meaningless;
  `fin_serial` has them and leaves out CANCELLED, which would let a clerk go
  round the check of `cancelInvoice`. The GST of `fin_serial` is at most the 12%
  the credit check assumes. A PATCH that carries an IRN typed by hand
  (`TypedIrns`) is in the model and in no run.
* Sync: a failure at the first of three mutations with the other two applied,
  then a retry of what is left, is the shortest history in which every clause of
  the promise is at stake.
* MRP: two creations of a version may overlap, or one with an update; two runs
  may overlap with them, with each other or follow. There is one material, so
  that a run has at most one requisition: a clash of two ranges of numbers is
  seen only as a clash of their first. Style variants are left out (section 6).
  For the engine, three levels are one more than the deepest bill without a
  cycle, so that the limit is met only by cycles; the cycle and the part of
  itself reach it. Quantities of 2.04 and 0.5 make products that round, a half included.
* Documents: a stale write needs two requests, a third makes it visible in a
  number, a revision or a counter. One document of each kind is enough, since a
  handler looks at one; two where numbers are compared. Loaded statuses stand
  for what longer histories lead to; `PART_RECEIVED`, `IN_PRODUCTION` and
  `QC_PASSED` are set by nothing in the code, and no handler tells `IN_PRODUCTION`
  from `CONFIRMED`. Three faults fall on the consumer, its offset and the job in
  any combination; on the job alone they use up its attempts. One New Year
  separates a count from its insert, or two cut orders.
* Accounts: a limit of one user and a lock after two failures are reached by two
  requests, and the account found at the start with any number of failures
  stands for the histories before. One token and one link are there already.
* Gst: the lines include codes that are listed, longer than listed and unknown, a
  rate that is no slab (refused), and products on, below and above a half.
* NIC: over six units a token of life three expires, is replaced and expires
  again; a token that lives no longer than the buffer serves only
  the call that asked for it.

`CHECK_DEADLOCK FALSE` stands where requests are served at most once and the
instance may end: `fin_*`, `mrp_runs`, `documents` and `confirmed_unplanned`. `Inventory` has a `Finished` step for
that, so there a deadlock would be one; in `SyncPush` the client may ask for
acknowledgements forever.

**Fairness.** `FairSpec` asks weak fairness of `Work(r)` for each request:
the event loop runs a continuation whose promise is settled, PostgreSQL grants a
lock that is free, breaks deadlocks, and the pool hands out a free connection.
It forces no arrival, no failure and no answer of a client. Nothing in the code
orders waiters, and none is assumed: requests are finite, so a lock or a
connection that is contended is free for good in the end.

`QueueFairness` asks weak fairness of `Consume` and of `RunJob`: the Kafka
consumer and the Bull worker are started with the process and call their
handlers as long as there is something to do. Faults are not fair, and there are
finitely many of them.

## 5. The proofs

Each theorem holds for every value of the constants that satisfies the named
assumptions of its module (`StockAssumption`, `InventoryAssumption`,
`InvoicesAssumption`, `SyncAssumption`, `BomsAssumption`, `OpeningAssumption`,
`RunsAssumption`, `HandlersAssumption`, `OrdersAssumption`, `PlanningAssumption`,
`PosAssumption`, `ProductionAssumption`, `AuthAssumption`, `WritersAssumption`,
`GstAssumption`, `NicAssumption`, `EngineAssumption`, `MrpAssumption`); TLC evaluates them on
every run. They say that bounds are numbers, that identifiers of different
kinds differ, that `None` is none of the data, and that what is found at the
start is what the schema allows: any number of items, notes, invoices, orders,
users, requests and runs is covered, and any interleaving of them.
`MrpAssumption` says that a run hands the engine its own depth
(`maxDepth`) and bills of the items it knows; `EngineAssumption` that bills and
rows of stock are finitely many, that a line asks for more than nothing (`@Min(0.0001)`
of `CreateBomLineDto`), and that a demand is of one piece at least
(`OrderLineDto`). What is allocated may exceed what there is.

| Module | Theorem | Property | Argument |
|---|---|---|---|
| `InventoryProofs` | `TypeCorrect` | `TypeOK` | inductive with `RequestsSound` and `LocksAreHeld` (`IInv`) |
| | `LegsAllOrNothing` | `AllOrNothing` | `RowsFollowLegs`: a request inserts the rows of its legs in order, has them all when it commits, and the ledger shows them from then on |
| | `TransfersCreateNothing` | `TransfersBalance` | `LegsAsAsked`: the legs of a request are those of one operation; with `AllOrNothing` a ledger with the OUT leg has the IN leg |
| | `BalanceShownIsSane` | `BalanceSane` | `RowsInv`: what is said of a committed row holds of its uncommitted version and of the write a request is about to make; a key that was `Rebuilt` stays so |
| | `StockMovesOnlyWithLedger` | `StockMovesWithLedger` | `RowsInv`: a transaction that holds a row has written a ledger row of its key, or rebuilds it |
| | `PostedMeansBooked` | `GrnPostedIffBooked` | `NotesInv`: status and ledger change in one commit; `GrnLegsCover`: the legs of a note, in any order, are one for each postable line |
| | `SerialCacheMatchesLedger` | `CacheMatchesLedger` | with `PoolSize = 1`: a locked row differs from the committed one by exactly the `delta` of the one open transaction |
| | `SerialNoOverIssue` | `NoOverIssue` | the check of `postMovement` is then made against the sum of the ledger |
| | `SerialStockIsAtomic` | `ImplementsAtomicStock` | the abstract stock is the booked sum of each key, an operation is applied when its ledger is not empty (`MappedStock`, `MappedApplied`). With `PoolSize = 1` the commit of a movement maps to one step of `AtomicStock` and every other step, a rebuild included, to a stutter; `DeltasInv`: what a request has added for a key is the sum of the legs it has rows for, hence at its commit the whole operation |
| `StockWritersProofs` | `NoWriteIsLost` | `RowsReplay` | `WInv`: the uncommitted row of an operation keeps the columns it does not set and shows the balance its commit publishes; that of a push is the committed row adjusted, and a row that is locked is not written by others. `ReplayAppend`: one more write acts on what the writes before it give |
| `FinanceProofs` | `TypeCorrect` | (`TypeOK` of `Invoices`, in no run) | |
| | `PaidAmountIsBacked` | `PaidNeverAhead` | a request about to settle carries a sum that the payments already cover and that does not exceed the total: payments are only ever added |
| | `PaymentsNeedIssue` | `PaymentsOnIssuedOnly` | no update leads back to DRAFT once a request has seen the invoice issued |
| | `StatusTellsPaid` | `StatusMatchesPaid` | paid amount and status are written by one statement; assumes that no PATCH sets PAID or PARTIAL |
| | `SerialNeverOverpays`, `SerialReconciles` | `NoOverpayment`, `PaidIsReceived` | `MoneyInv`, with `MaxInFlight = 1`: the one request in progress knows the sum of the payments; paid differs from received only while it is between insert and settlement, or died there |
| | `SerialIrnsAgree` | `IrnsAgree` | `IrnInv`, with `MaxInFlight = 1` and no typed IRN: NIC and the row differ only between a call and the statement that stores its outcome |
| | `TokensReachNicInTime` | `TokenTakenByNic` | `NicInv`: a kept token is believed valid until it ends, plus the time its answer took, less the buffer; a call that was sent held it before that moment, or got it new |
| | `AmountsAlwaysAgree` | `AmountsAgree` | `GstInv`: the taxes of a row add up to its rounded tax whichever way a half goes, the sums over the rows follow (`SumsAdd`, `SumsNear`), and the computation made for NIC starts from the same rows |
| `SyncPushProofs` | `RecordIsEffect` | `RecordedIffApplied` | effect and record are published by the same commit |
| | `NothingDeletedEarly` | `DeletedTookEffect` | what a push reports as saved is recorded |
| | `AppliedOnce` | `AppliedOnceWithoutOverlap` | `AloneInv`: two pushes are in progress only if one of them is marked as overlapping; as long as none is, a push that goes on knows which of the mutations to come took effect; assumes `BatchesDistinct` |
| `MrpProofs` | `BomTypeCorrect`, `MrpTypeCorrect` | `BomTypeOK`, `MrpTypeOK` (in no run) | |
| | `LatestStaysActive` | `LatestIsActive` | `LatestHasSuccessor`: a latest version that is switched off has a request that is still to create a higher one |
| | `NumbersClashOnOverlapOnly` | `NumbersDistinct` | `RunsInv`: a run that has counted and met no other knows how many requisitions there are, and every number given is at most that count; a run that has met another is marked, as the other is |
| | `CompletedRunsAreWhole`, `CompletedStaysCompleted` | `CompletedIsWhole`, `CompletedIsFinal` | what a run at each of its statements has stored; the handler of failures is entered only by a run that is not COMPLETED, or has not heard that it is |
| | `LinesInTime` | (`OrderedInTime`, a part of the next) | `EngineInv`: what has been reached is materials of demands, needed no later than the delivery of every demand exploded so far and with at least the lead time of every line that asks for them; `LeavesAreMaterials`: the leaves of an explosion are the materials a path of the bills leads to (`Deep`), at any depth and through cycles; `InsertKeepsOrder`: a stable insertion keeps a sorted list sorted |
| | `RunsPlanWhatIsComputed` | `RunsStoreWhatIsComputed` | with `EngineInv` and `OwnBills`: the levels of `MrpRuns` are the same paths, counted from the top (`ComputedLevels`), where the recursion of the engine counts from the bottom |
| | `PlanIsWhatIsNeeded` | `ComputedIsNeeded` | `NeedInv`: after each demand the entry of every item is what the leaves of the demands exploded so far ask of it. See below |
| `DocumentsProofs` | `RevisionsKeepHistory` | `RevisionsAreHistory` | `OrdersInv`: the revisions kept are those before the current one, with their lines; an update keeps the revision it read, and if somebody was faster that one is kept already and the key refuses |
| | `FiguresAreDerived` | `DerivedFromLines` | `OrdersInv` and `PosInv`: a row carries figures of its own lines, and so does what a request waits to write, unless its copy is old |
| | `NumbersCount` | `CountedNumbers` | `WorkInv`: no number, stored or counted, runs ahead of the cut orders there are, and those of one year are an interval as long as the set of them, so that the next is free or refused; `PosInv`: a creation that is not late knows how many there are |
| | `WipStaysBalanced` | `WipBalanced` | `WipInv` |
| | `DocumentsFollowLifeCycles` | `LifeCycles` | a request that is not late writes the document it checked, except that an edit of a draft writes the line it names |
| `AuthProofs` | `FailuresStayCounted` | `FailuresAreCounted` | `AccountsInv`: a login that waits to write and is not late knows the count and the lock of its account |
| | `TokensAreUsedOnce` | `UsedOnce` | `TokensInv` and `LinksInv`: at most one token or request follows a token, none while it is live or while a rotation that is not late is about to revoke it; a link that is live has set nothing |
| | `SessionsStayEnded` | `EndedStayEnded` | `TokensInv`: a live token was stored since its user's sessions were last ended, and a waiting rotation carries the age of the token it read |
| | `TenantsStayWithinPlan` | `WithinPlan` | `PlanInv`: a registration that is not late knows that its tenant is below the limit; the key of tenant and e-mail is checked by the insert itself |
| | `LocksAreKept` | `LockHolds` | from `AccountsInv`: a login that is not late and clears the counters found the account unlocked, and one that counts writes a lock where there was one |

None of the properties is inductive as it stands: they speak of committed rows
at rest, and say nothing of the copy a request has read and is going to act
upon. Every strengthening has the same shape: (a) the types; (b) what the rows
satisfy; (c) what each request *still knows* at each `await`, qualified by
exactly what can make its copy old: the lock it holds in `Inventory`,
`MaxInFlight = 1` in the serial theorems, `overlaps` in `MrpRuns`, `~ late` in the
handlers. The invariants were checked with TLC as invariants of the runs before
they were proved. Each proof has one lemma or step for each action.

The engine explodes one demand after another, each depth first, and accumulates
leaf by leaf; `ComputedIsNeeded` compares what it returns with the pieces needed
at each level of all bills at once (`Needed`), which has neither leaves nor an
order. The proof meets in the middle. What the leaves below an item ask of a
material is a sum over the lines of its bill, of the leaves below their components
(`LineAsks`, `ItemAsks`); hence, for the items of a whole level, what their leaves
ask is what the next level needs of the material itself, and what the leaves
below the next level ask: a table added up by rows and by columns (`LevelAsks`,
`SumsThrough`). Over all levels that telescopes to the reference (`NeedIsLeaves`);
where the depth ends both sides have nothing left. On the other side each demand
adds what its leaves ask (`AccumulateAdds`, `AddLeafAdds`, `ExplodeAdds`), so
that at the end every item has one entry, or none if nothing is needed of it,
with the sum over the demands. Netting makes one line of each entry and the
sort loses and doubles none (`LinesAreSorted`, `RequisitionsAreLines`); the stock
of an item is that of all its locations (`FreeIsAvailable`), and rounding takes
at most half a hundredth off (`NetIsShort`).

In `Documents` the services share only `request`. `DocumentsInv` is the
invariant of the service a behaviour exercises and the rest at its start, so that
each service's lemmas are about its own next-state relation.
`Same` and `OthersAfter`, with the lemmas about them, say once what a write, a
refusal or a failure does to the requests of any service.

The serial theorems of `InventoryProofs` assume `PoolSize = 1`, those of
`FinanceProofs` `MaxInFlight = 1`. The code ensures neither: they state
under which discipline the comments of the services are true.
`inv_grn_twice` shows a case in which not even that discipline is enough, and
`fin_overpaid` what two overlapping payments do. `AppliedOnce` assumes
`BatchesDistinct`, that no batch names a mutation twice: one that did would
apply it twice (section 6).

Induction over data is done with `FoldLemmas`: `SetInduction` speaks of a set of
naturals where the theorems of the library take an operator, which none of the
provers can instantiate. The module shows what the folds of the community
modules go through, one element at a time, when sums agree, and that a function
defined by recursion over levels exists (`RecursionExists`) and takes the values
of its steps (`RecursionGoes`). For sums over finite sets it shows that
`SumFunction` is what it is meant to be, whichever order its CHOOSE
takes (`SumOnSums`), and that it is linear and can be exchanged with another
sum (`SumAdds`, `SumScales`, `SumsThrough`). `MrpProofs`
uses it for the paths of the bills, the explosion, the sort and the requisitions,
`InventoryProofs` for the legs of an operation, `StockWritersProofs` for the
history of a row, `FinanceProofs` for the rows of an invoice. `RECURSIVE`
operators are not used.

Only model-checked: liveness (`EveryRequestAnswered`, `EveryPushAnswered`,
`PublishedIsTried`), which is out of the prover's reach as is anything about
ENABLED; and the three runs that expect a violation. Every safety property of
a passing run, invariant, action property or refinement, is a theorem.

## 6. Where the code and what it says disagree

With a run:

* `inv_grn_twice`: the status of a note is checked before the transaction
  (`inventory.service.ts:478-487`) and not again inside; two requests that both
  fetched the DRAFT book it twice, even one after the other.
* `fin_overpaid`: two overlapping payments exceed the total
  (`finance.service.ts:279`).
* `confirmed_unplanned`: `order.consumer.ts:35` reads `confirmedBy`,
  `orders.service.ts:255` sends `triggeredBy`; without a user `createMrpRun`
  cannot insert its row, outside the `try` of `runMrp`, and all attempts of the
  job fail: "Order confirmed -> Kafka -> BullMQ -> MRP engine"
  (`order.consumer.ts:4`) ends before its last arrow.

Seen in the models, with no run of their own; most are the reason why a property
is stated under a restriction:

* A replayed `PATCH /grns/:id/post` sets POSTED and books nothing
  (`sync.service.ts:239`), though the service promises to "replay the HTTP
  operation" (`:20`); the note can then never be booked. `StockWriters` has the
  action (`PatchGrn`).
* Purchase order lines are to be edited on drafts only ("only allowed on DRAFT
  POs", `suppliers.controller.ts:134`; `suppliers.service.ts:121`). `updatePoLines`
  ignores the order and the tenant it is called for and updates the lines whose
  ids the body names (`suppliers.repository.ts:201-216`): an edit of a draft changes
  the line of an order that was sent or closed, with no old read. Hence
  `EditElsewhere` in `LifeCycles`.
* A retry that overlaps the first attempt applies a mutation twice in spite of
  "full idempotency" (`sync.service.ts:16`): the lookup precedes the transactions
  and the upsert with an empty update accepts the second
  (`sync.service.ts:124-141`). Hence `AppliedOnceWithoutOverlap`.
* `rebuildBalance` is "wrapped in a transaction so no movement can slip in between"
  (`inventory.service.ts:440-441`); at READ COMMITTED one can, and the cache is off
  the ledger. Two overlapping OUT movements may pass the check that is to
  "prevent negative on-hand" (`:227`), which compares with a balance read without
  a lock, and book more out than in.
* A pushed `PATCH` or `PUT` of an order writes the client's body over the row, where
  `id` is all that is asked (`sync.service.ts:219-223`): any status from any
  status, totals without their lines, and orders of another tenant. So does a
  pushed `POST` for a new order. `LifeCycles` and `DerivedFromLines` are statements about
  `OrdersService`; with this writer neither holds of the table.
* Two overlapping movements of one key write balances computed from one read: the
  later upsert overwrites the earlier. Hence `CacheMatchesLedger` and
  `NoOverIssue` are claimed of serial transactions only.
* A pushed adjustment writes no ledger row and leaves `available` behind; two may
  take the stock below zero (`sync.service.ts:303-313`). "ALL stock writes go
  through this single private method" is true of the inventory service only.
* Overlapping payments leave `paidAmount` below the payments; a payment may land
  on an invoice that is being cancelled; a PATCH to PAID without payments, or
  an IRN generated meanwhile, takes an invoice out of a status called terminal.
* The credit check assumes 12% GST whatever the lines carry
  (`finance.service.ts:210`), and is not repeated at the insert.
* A batch that names a `clientId` twice applies it twice, and a mutation that
  fails is overtaken by those queued behind it (`sync.service.ts:54`).
* "Replace all lines atomically" (`mrp.repository.ts:64`) is two statements.
* Versions are counted by style and unique by item: `createBom` for a style
  whose number is taken switches the earlier versions of the style off and is
  then refused. `LatestIsActive` leaves requests with a style out (`Ordinary`).
* The schema speaks of one active BOM for an item; `MrpService.createBom` adds an
  active version and leaves the others active.
* An order that is CONFIRMED can still be updated, and its `linesJson` with it,
  although confirming "freezes the lines snapshot" (`orders.controller.ts:76-79`);
  a confirmation that overlaps an update freezes the lines it replaced.
* `emit` drops an event when Kafka refuses it, and nothing sends it again.
* An event whose handler throws goes to a "DLQ after max retries"
  (`kafka.service.ts:124`); there is none in the repository. The consumer is
  modelled as it is: the offset stays and the event comes again.
* A completion of a run that commits and whose answer is lost is followed by
  FAILED (`mrp.service.ts:159-163`), with lines and requisitions in place.
* The amount of a purchase order line is written as `qty * (rate ?? 0)` when only
  the quantity is sent, and not at all when only the rate is
  (`suppliers.repository.ts:201-216`). Hence `partly` in `AmountsOfLines`. PO
  numbers have no unique key.
* Lines without an HSN code are taxed at 12% and reported to NIC under code 5208
  (`einvoice.service.ts:395`), which is listed at 5%.
* Logout without a token ends all sessions; the controller says "Omit it to keep
  other sessions alive" (`auth.controller.ts:130`).
* The count of failed logins is not reset when a lock expires: the next failure
  locks at once. A failure counted from an old value can lift the lock.
* Accounts are unique by tenant and e-mail, and login looks an e-mail up in all
  tenants. The controller says "MFA is enabled by default" (`auth.controller.ts:29`);
  `register` switches it off, and login never asks for it.

## 7. What is not modelled

See the components with status `not_modelled` or `partly` in `PROJECT.json`.
Quality and Buyers, and suppliers themselves: single rows, last writer wins.
`verifyOtp`: unreachable. Infrastructure (audit, Redis, email, WhatsApp, S3,
guards and pipes): no state of the ERP. Reports, listings and the batches of
reads behind them change nothing. The handlers of the offline sync for buyers,
suppliers and orders are known by the mutation they apply.

## 8. Plan

Done, in order of importance: 1 `StockTypes`, `Inventory`, `AtomicStock`;
2 `StockWriters`; 3 `Invoices`; 4 `SyncPush`; 5 `Boms`, `MrpRuns`; 6 `Handlers`,
`Orders`, `OrderPlanning`, `PurchaseOrders`, `Production`, `Auth`; 7 `MrpEngine`,
`Gst`, `NicToken`.

Nothing is left to prove of what the runs check. Next would be the parts of
section 7 that keep state, first the services with single rows (quality, buyers).

The number of runs is kept at one for each distinct question; a run that shows a
disagreement gives way to a passing run of a new component when its point is
made elsewhere.
