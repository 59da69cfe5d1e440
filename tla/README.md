# c-erp: models, checks and proofs

TLA+ specifications of the parts of c-erp whose correctness depends on the order
in which requests, timers and failures reach the database, the TLC runs that
check them on small instances, and theorems about them checked by TLAPS. Paths
below are relative to the repository (`core/`, `modules/`, `web/`).

## 1. The system

c-erp is an ERP server in C++20 (about 12,000 lines of core and 58,000 of
modules) with a JavaScript client. Drogon serves HTTP on four worker threads
(`core/infrastructure/HttpServer.hpp`); a JSON-RPC call is dispatched to a
handler of a view model, which takes a connection from the pool, opens a
`pqxx::work` transaction at PostgreSQL's default level (READ COMMITTED), issues
statements and commits. An exception leaves the handler without a commit, and
the destructor of `pqxx::work` rolls back. The `ir.cron` thread calls the same
code beside them. **Shared state is the database**: the code serialises on row
locks that UPDATEs take anyway, on two explicit `SELECT ... FOR UPDATE`
(`core/IrSequence.cpp:110,119`; `modules/rental/RentalExpenses.cpp:74`) and on
unique constraints. Everything else is "read, decide, write", with other
transactions in between.

### Components

| Component | State it keeps | Operations | Talks to | Correct when | Here |
|---|---|---|---|---|---|
| Document numbering `core/IrSequence` | `ir_sequence` rows: next number, last period | `nextByCode` in the caller's transaction or its own, `peek` | every posting and confirming handler | no number twice, no gap, waiting always ends | modelled, proved |
| Quant engine and transfers `core/StockQuant`, `modules/stock` | `stock_quant`, `stock_move`, `stock_picking`, cached `qty_available`, delivered and received quantities of order lines | confirm, assign, validate, cancel, unreserve, reset, `set_on_hand` | orders, products, subcontracting BOMs | the ledger is the done moves applied once, reservations are those of open moves, header and moves agree | modelled (no lots, packages, scrap, routes), all but the delivered quantities proved |
| Invoices and payments `modules/account`, `core/PaymentAllocation` | `account_move`, `account_payment`, `account_partial_reconcile`, bank statement lines, posted entries | save, recompute, post, cancel, reset, register and post payments, allocate, reconcile | numbering, the client's save sequence, sales and rental as makers of drafts | an invoice keeps its number, money moves once, the amount due is backed by what was received | modelled (customer invoices, one currency) |
| Rental billing `modules/rental/RentalBilling`, `RentalCalendar` | `rental_contract_line` (state, next period start), `rental_invoice_link`, draft invoices | the run (cron, two buttons), bookings, start and end of a tenancy | cron, accounting | no period twice, none skipped, what is due is billed in the end | modelled, proved but for liveness |
| Sales and purchase orders `modules/sale`, `modules/purchase` | orders, lines, stored amounts, `invoice_status`, invoices raised | save of the form, confirm, cancel, invoices, down payments, final invoice | stock, invoices, numbering, the client's save sequence | amounts agree with quantities and prices, one delivery, invoices are the sum of their lines, the billing status says what was invoiced | modelled (no pricelists, quotations, vendor prices) |
| Time off `modules/hr/HrLeave` | leaves, allocations | create, save, recount, submit, approve, refuse, cancel, reset, delete | the client's generic form | no overlap of approved leave, no approval past the balance | modelled, proved |
| Sessions `core/infrastructure/SessionManager`, endpoints of `JsonRpcDispatcher`, `modules/auth` | an in-memory map under a mutex, company memberships | get, create, update, rotate, expire, evict; log in and out, choose company, switch database, grant, revoke | every request | bounded, an observed id never becomes a login, acts only for an employer | modelled |
| Scheduler `core/IrCron` | `ir_cron` rows, the set of running jobs | tick, execute, run now, reschedule after success or failure | billing, reorder, reminders, pool | a job comes round again, never twice at once | modelled, proved |
| AI jobs `modules/ir/IrModule.cpp` | `ir_ai_job` rows, settings with a counter of calls, a counter of worker threads | ask with caps, claim, call, answer, cancel, recover at boot, prune | pool | every job ends, once | modelled, proved |
| Connection pool and tenants `core/infrastructure/DbConnection.hpp` | idle connections per database under a mutex, a thread-local tenant | route, acquire with a time-out, release | every handler and thread | bounded, never lost, the right database | modelled (no reconnect, no registration of tenants), proved |
| Record layer `modules/base` | any table | search, read, create, write, unlink | every module | a write never stores what its user did not change | as Leave and Orders use it |
| Web client `web/static/src/app.js` | form state | the calls of "save" and the buttons a form shows | invoices, orders, leaves | - | the forms of Invoicing, Orders and Leave |
| Manufacturing `modules/mrp` | productions, work orders and their moves | plan, confirm, mark done, cancel, start and finish work | quant engine, valuation, reordering | components are consumed once, stock follows the done orders, a closed order has no open work | modelled (no edits of a confirmed order, no projection) |
| Valuation, landed costs and reordering `core/StockQuant`, `modules/stock` | valuation layers, cached quantity, value and price of a product, reordering rules | value a move, revalue, land costs, run the scheduler | every applied move, productions | the cache is the sum of the layers, reordering stays within the maximum | modelled (the manufacture route; no journal entries), partly proved |
| Money, taxes, units of measure | none | fixed-point arithmetic | everything that prices | total = sum of its parts | planned as operators with a reference definition |
| Caches `core/infrastructure/TtlCache.hpp` | menus, views, rules with a time to live | get, put, invalidate | readers of metadata | old for at most the time to live | not modelled |
| Migrations | `schema_migrations` | one transaction per version | start-up | each version once, in order | not modelled: a single actor, runs before the server listens |
| Access rules, attendance, portal, website, products, projects, reports, mail, API, help, rest of rental | records | record editing, rendering, predicates | - | - | not modelled: no protocol of steps |
| Files, backup, explorer, audit, external processes | files, rows of a log | I/O around single statements | - | - | not modelled: pure I/O |

The optimistic lock of the record layer is dead code: `BaseModel::write` compares
a `write_date` the client sends (`modules/base/BaseModel.hpp:297`), but no model
registers that field, so no form ever reads one to send back
(`web/static/src/app.js:1166`). That is why a stale form is modelled, in Leave, as
the plain overwrite it is.

### What is hard

`PROJECT.json` lists forty hazards at their lines. They fall into five kinds:

* a state or quantity is read by a SELECT and acted upon by a later UPDATE that
  does not repeat the condition (validate, post, reserve, approve, mark-done);
* a derived column (amount due, on-hand, delivered quantity, next period) is
  kept beside what it is derived from, in several handlers;
* a request fails, waits or dies between two of its statements, so a number, a
  reservation, an invoice or a lock must come back;
* a legal sequence of calls (cancel, reset, validate; pay, edit, pay; book,
  bill, book) reaches a state no single handler would produce;
* something must happen eventually although it waits for locks or connections, is
  skipped as a duplicate, fails, or loses its process.

Also seen, and not in the list, which names what several steps or actors need: the
first line of an invoice group dates all of it (`RentalBilling.cpp:281`); the terms
of a line edited during a run (`:453`); a booking made ahead of its first day that
nothing starts (`RentalCalendar.cpp:342`); two servers that migrate one database;
two counts of one quant.

## 2. The modules

```
ReadCommitted          rows, row locks, COMMIT and ROLLBACK of PostgreSQL
  |-- IrSequence          document numbering      <- MCIrSequence, IrSequenceProofs
  |-- StockTransfers      quants and transfers    <- MCStockTransfers, StockTransfersProofs
  |-- Invoicing           invoices and payments   <- MCInvoicing, InvoicingProofs
  |-- RentalBilling       the billing run         <- MCRentalBilling, RentalBillingProofs
  |     implements RentalSchedule (what billing promises)
  |-- Orders              sales and purchases     <- MCOrders
  |-- Leave               time off                <- MCLeave, LeaveProofs
  |-- Production          making, valuing and reordering goods
  |                                               <- MCProduction, ProductionProofs

SumTheorems            lemmas about SumFunction        <- StockTransfersProofs,
                       InvoicingProofs, ProductionProofs, LeaveProofs

ConnectionPool         a bounded pool per database, a tenant per thread
  |-- Cron                the scheduler
  |-- AiJobs              questions to the AI agent
        Server = Cron + AiJobs on one pool, crash and boot
                                                  <- MCServer, ServerProofs

Sessions               the session store and who a request acts for  <- MCSessions
```

### ReadCommitted

The one part that is not the repository's: what the code uses of PostgreSQL.
`committed[r]` is the version every session sees, `live[r]` the newest one,
`lock[r]` its writer. A SELECT (`Visible`) takes no lock and returns the own or
the committed version; an UPDATE, an upsert or a FOR UPDATE (`Write`) is enabled
only when the rows are free and keeps the locks until `CommitTxn` or
`RollbackTxn`. The specifications built on it take **one step per
data-changing statement**, together with the SELECTs directly before it; other
requests run between any two steps. Between adjacent SELECTs nothing is
interleaved. In StockTransfers an aggregate UPDATE (`qty_available = (SELECT SUM ...)`) takes
two steps, since its subquery may read before the row lock is granted. `Abort`
is possible at every step of a request: a failing statement, a deadlock victim,
a lost connection or a server that dies all end in the rollback.

### IrSequence - `core/IrSequence.cpp`

A worker serves one request that owns one or several documents and draws a
number for each. `SelectForUpdate` is the locking SELECT with its fallback to
the company-agnostic row (`RowFor`), `ComputeNumber` the rollover test,
`FormatAndConsume` the UPDATE, `Commit` the caller's `txn.commit()`.
`CommitDetached` is `nextByCode(code)` with its own transaction, `PeekDone` is
`peek`, `Throw` the missing sequence, `ClockTick` the year that changes between
any two steps (the code reads the clock once in `periodKey_` and again in
`format_`). `BreakDeadlock` is the server's detector. Two properties of the
implementation are visible in the model: the number is computed from the locked
row, and the year that is printed may be later than the one the counter was
reset for.

### StockTransfers - `core/StockQuant.cpp`, `modules/stock/StockModule.cpp`

`txn[w]` holds the request's transfer, the moves its SELECT returned (as read
then, stale afterwards) and a program counter through the handler: `Confirm`,
`Assign` (`reserve`), `Validate` (putaway, refusal of a tracked product without
a lot, `release`, `applyMove` out and in, the two refreshes of `qty_available`,
`MoveDone`, `PickingDone`, delivered quantities and `invoice_status` of the
order, the backflush of subcontracted components), `Cancel`, `Unreserve`,
`Reset`, `SetOnHand`. Quantities are whole units; lots are reduced to "the lot
is missing", which is what makes a validation throw half-way. The sums the code
computes (`DoneUnits`) and those the properties compare are `SumFunction` of a
function, the form about which `SumTheorems` has lemmas.

### Invoicing - `modules/account/AccountModule.cpp`, `core/PaymentAllocation.cpp`

`Post` reads the draft, `DrawNumber` waits for the sequence row, `WritePosted`
writes state and number, `FindCredit`/`Allocate`/`DeriveResidual`/
`WriteResidual` spend the customer's advances inside the same transaction.
`RegisterPayment` creates, books and allocates a payment; `PostPayment` books a
payment entered by hand; `Reconcile` clears a bank line on an invoice;
`EditLines` and `RecomputeSaved` are the calls of the client's save,
which are separate transactions. A number is drawn from the row of the journal's
sequence as IrSequence shows it may be; the number's text is left out.
Allocations and entries are inserted rows, invisible until the commit
(`applying`, `entering` of a request).

### RentalBilling and RentalSchedule - `modules/rental/RentalBilling.cpp`

`RentalSchedule` is the promise, in one action: an invoice and the advance of
every line on it to its next period happen together, one period after the
other, a one-off line once. It also holds the date arithmetic
(`rental_next_period`, the snap to the first of the month), taken from
migration 815 and the due list's SQL.

`RentalBilling` is the code: `Run` reads the due list in its own transaction and
groups it by period start (`DueGroups`, which the `std::map` orders), then every
group is a transaction: `InsertLink` (the draft, its line and the link whose
UNIQUE key waits for, and fails after, a concurrent one), `AdvanceLine`,
`CommitGroup`. `Duplicate` and `GroupFails` are the two catch blocks, which go
on with the next group. `CronRun`, `GenerateNow` and `CreateInvoice` call it
from the scheduler and the two buttons, `Crash` loses every run in flight,
`Book` and `SetState` are what users do to lines meanwhile. Of the group a run
is at, `todo` is the function from the lines still to do to the date its SELECT returned
for each, in whose order (`Before`: date, then id) the loop takes them; `later` holds the
groups after it.

`invoices` is the sequence of the committed drafts, each with its period start and
lines: the code inserts a new `account_move` per group, so a group that is billed
twice is two invoices that look alike, at two places. The refinement mapping takes
the committed `next_period_start` of a line (or its start date) as `due` and this
sequence as it is; since the schedule appends as well, no invoice is a stutter.

### Orders - `modules/sale/SaleModule.cpp`, `modules/purchase/PurchaseModule.cpp`

One module for both, since the purchase module mirrors the sale module statement
by statement; `kind` tells the differences apart: the row of the sequence, the
final invoice, which only sales have, and which buttons the form shows. `CreateLine`, `ReadLine` + `WriteLine`,
`DeleteLine`, `SumLines` and `WriteTotal` are the calls one save of the form makes,
each its own transaction. `Confirm`, `DrawNumber`, `SetState` and `Deliver` are
`action_confirm`, which reads the state and updates without repeating it.
`CreateInvoice`, `InvoiceLines`, `CreateDownPayment`, `CreateFinal`, `Remaining`,
`FinalInvoice` and `SetStatus` are the three ways to bill; a final invoice is what
the *posted* invoices leave of the total. `FormOffers` is which of the three buttons the
form shows, by `invoice_status` and nothing else (`web/static/src/app.js:2668-2672`);
`Moves` is the condition of the UPDATE of that status. `Delivered` is the other
writer of the column: a validated transfer that completes the order sets it to
'to_invoice' ('to_bill'), whatever was billed (`StockModule.cpp:836-846`); `delivered` stands for both. `PostInvoice`,
`CancelInvoice` and `ResetInvoice` are what accounting does to the result, in one
step each because Invoicing takes them apart. A stored amount is in micro-units
and a request carries major units, which is where `Merged` matters: a write that
sends only a quantity takes the price from the copy read before, already in micro-units
(`SaleModule.cpp:1275-1280`). A down payment is stored as sent, in major units,
in a column of micro-units (`SaleModule.cpp:948`).

### Leave - `modules/hr/HrLeave.cpp`

`CreateLeave` and `SaveLeave` + `WriteLeave` store a leave, and `Recount` +
`WriteDays` count its days in a *second* transaction, so a call that dies between
them leaves the old number of days with the new dates. `Begin` takes a workflow
method and a list of records; `Check` reads the subject and, for an approval, the
overlap and the balance (`Clash`, `Left`); `UpdateState` writes the state by id,
without repeating the condition; `Commit` ends the call. `Open` loads a form,
which keeps the state and the number of days it was loaded with: saving it writes both
back, and the old days stay until they are recounted.
`Passes` holds the states each method starts from, which is how "Reset it to
draft before editing" (the message of the refused edit, `HrLeave.cpp:403`) turns
out not to be possible from an approved leave: that one has to be refused or
cancelled first.

### Production - `modules/mrp/MrpModule.cpp`, `core/StockQuant.cpp`, `modules/stock/StockModule.cpp`

A production order is a row with a quantity, its moves and its work orders rows of
their own; the bill of materials is a constant. `Confirm`, `Explode`, `DrawNumber`
and `SetState` are `action_confirm`; `MarkDone` reads the state, the open work orders and
the moves of the components and then applies one move after the other
(`ConsumeRaw`, `ProduceFinished`, `MoveDone`), the product valued at what its
components were worth when each was consumed; `Cancel`, `CancelWork` and
`CancelOrder` pass over what is done; `StartWork`, `FinishWork` and the UPDATE of
the order after them are the buttons of a work order.

`applyMove` is `Moved` (the upsert of WH/Stock's quant), `RefreshOnHand` (which
locks the product's row), `TakeLayer` (one layer of a first-in-first-out product
per step) and `WriteCaches`, which inserts the valuation layer and writes the
caches back as read plus the move. Receipts and deliveries come in by `Receive`
and `Deliver`, one `applyMove` each, since StockTransfers takes them apart.
`Land` + `Revalue` are a landed cost: the second of its two steps writes a value that
was read in the first without a lock. `Reorder` reads what is on hand and
`Replenish` the open orders, and drafts an order up to the maximum.

Layers are inserted rows, so `out` of a request holds what its own add to each
product and the history variable `layers` the sum of the committed ones; `flow`
is what transfers brought less what they took. Quantities are whole units and values
whole micro-units of one, so only the divisions round, as in the code.

### ConnectionPool, Cron, AiJobs and Server

`ConnectionPool` is `DbConnection.hpp`: `idle` connections per database and, per
thread, the tenant it is pinned to and the `lease` it holds; `Acquire`, `Release`
and the five-second refusal `Exhausted`.

`Cron` is `core/IrCron.cpp`: `Tick`, `TickTenant` (each database in turn),
`ReadDue` with its limit, `NextJob`, the overlap guard `Guard`, `ReadRow`,
`RunJob`, `Mark` (success or failure, which sets the next run) and `Done`; `RunNow`
is the button, on the thread of a request, which looks for the id of the row on a
connection of its own first (`FindRow`, `RowNotFound`). A row is due or not; how long the
back-off lasts is left out.

`AiJobs` is `IrModule.cpp`: `Ask`, `Count` and `Insert` of `ask_async`; the worker's
`Claim`, `ReadSettings`, `CallProvider`, `RecordCall`, `Finish`; `Cancel`;
`FailedAtBoot`. `Count` also prunes ended rows of any age. A worker leases and releases a connection around each of its
blocks, and may be refused at every one of them (`WorkerRefused`, load
`crowded`).

`Server` runs both on one pool and adds `Crash`, which drops everything in memory
and leaves the rows, and `Boot`. `load` chooses at the start what the server is
given to do.

### Sessions - `core/infrastructure/SessionManager.hpp`, `JsonRpcDispatcher.hpp`, `modules/auth`

`session`, `recency` and `minted` are the store, whose methods run under one mutex
and are one step each (`Get`, `Create` with `Room` and `Victim`, `Update`, `Expire`,
`EvictExpired`, `Logout`). The handlers take several of these steps with queries
between them: a login finds or creates a session, checks the password, elevates
it, resolves the companies, rotates the id and stores the list again; a choice of
company works on a copy (`WithCopy`), checks it against the database, remembers
it and stores the copy back; `SwitchTenant` opens a session in another database.
`Queried` is what the query for the user's companies leaves in a copy: its failure is
swallowed after the list was cleared, and `LoadOutcomes` adds the failure to get a
connection, which leaves the copy as it was. The switch `DbAnswers` keeps both out.
`Grant`, `RevokeCount` and `RevokeDelete` change the memberships meanwhile. `held`
and `observed` are history: ids a browser was given, and ids it held while they
were anonymous.

## 3. The runs

| Run | Question | Result |
|---|---|---|
| `sequence` | Two requests number documents from a yearly company sequence, a shared one and a detached one, over a change of year, with aborts, peeks and deadlocks: unique, gapless, every request ends | holds |
| `stock_interleaved` | A subcontracted receipt with putaway, a delivery and an internal transfer whose lot is missing, and a count: reservations, ledger, delivered quantities, headers | holds, with one request per transfer at a time |
| `stock_same_picking` | Two requests on the *same* transfer: are units conserved, are reservations never negative | holds |
| `stock_overreserve` | "Never reserves more than is physically available" | violated: two assigns read the same free quantity |
| `invoicing` | Two invoices, an advance, registered payments, a bank line, two requests: debt never understated, never over-applied, money moves once, numbers kept | holds, under the two switches below |
| `invoicing_credit` | Is a credit spent at most once | violated: allocation starts from the payment's full amount each time |
| `rental_billing` | Cron, buttons, crashes and failed groups: no period on two invoices, the schedule is implemented, what is due is billed | holds |
| `sessions` | Visits, logins, logouts, expiry, eviction, choices, revocations and database switches of two requests on a store of two: bounded, an id seen before a login is worthless, floods spare users, only employers are acted for | holds, under the switches below |
| `server` | Scheduler, run-now, questions asked in either database and their threads on one connection per database, with a crash: no overlap, the right database, due jobs run, a question of the default database ends, once | holds |
| `orders` | Lines saved, orders confirmed, cancelled, delivered and billed in three ways by two requests: amounts agree, one delivery, invoices balance, the billing status agrees with the invoices | holds, under the switches below |
| `leave` | Two leaves and an allocation created, saved from stale forms, submitted, approved alone or together, cancelled, deleted, with calls that die: approved leave never overlaps, no approval exceeds the balance | holds, under the switches below |
| `production` | Chairs reordered by a rule and made in two operations, crates made by hand, and the wood they take, with receipts, deliveries, landed costs, cancels and failures: stock follows the done orders, caches are the sums of the layers, closed orders have no open work, reordering stays below its maximum | holds, under the switches below |

The runs marked violated check a sentence of the repository, quoted in
`PROJECT.json` under "findings", against what the code does. Each property of a
passing run has a mutant there: an operator in the module (its comment says which
change of the code it is, for example `SelectWithoutLock`, `CancelUnreleased`,
`LinkAlways`, `ClashCommitted`, `GuardOnce`) under which TLC finds it violated.

### Further counterexamples

These configurations each refute one more sentence. They are kept for a reader
who wants the trace (`tlc -config X.cfg M`).

| Configuration (module) | Property | The sentence | What the code does |
|---|---|---|---|
| `MCIrSequenceSeed` (MCIrSequence) | `NumberingContinues` | "numbering continues rather than restarting at 1", `core/MoneyMigrations.cpp:221` | the first draw finds no last period and resets (`IrSequence.cpp:138`) |
| `MCStockOnHand` (MCStockTransfers) | `OnHandMatchesQuants` | "Kept transactionally consistent", `core/StockQuant.cpp:32` | two transfers refresh the product from different quants |
| `MCInvoicingResidual` (MCInvoicing) | `ResidualFromAllocations` | "residual is DERIVED from them, so the two cannot disagree", `core/PaymentAllocation.hpp:15` | saving a partly paid invoice restores its total (`AccountModule.cpp:1164`) |
| `MCInvoicingDoublePost` (MCInvoicing) | `NumbersKept` | a posted invoice keeps its number, `AccountModule.cpp:734`, `:778` | the second of two posts renumbers it (`:722`) |
| `MCRentalBooking` (MCRentalBilling) | `BookingIsBilled` | Create Invoice bills the bookings, `RentalModule.cpp:936` | a billed booking blocks its group (`RentalBilling.cpp:557`) |
| `MCSessionsCompany` (MCSessions) | `ActiveCompanyAllowed` | "always a member of this list", `SessionManager.hpp:53` | a list is refreshed without the active company (`JsonRpcDispatcher.hpp:634`) |
| `MCServerOrphans` (MCServer) | `NoOrphans` | "every path out of here writes a state", `IrModule.cpp:3102` | a worker of another database's question looks for its row in the default one (`:3086`) |
| `MCServerCap` (MCServer) | `CapIsDaily` | "daily call cap", `docs/reference/api-v1.md:26` | the counter of a past day is compared with the cap (`IrModule.cpp:2330`) |
| `MCLeaveStaleForm` (MCLeave) | `ApprovedNeverOverlap` | "One person cannot hold two approved leaves over the same dates", `modules/help/HelpContentB.hpp:1300` | a form loaded while a leave was approved sends its state back (`web/static/src/app.js:1165`, `HrLeave.cpp:396`) |
| `MCProductionTwice` (MCProduction) | `StockFollowsOrders` | "Stock only changes when the order is done", `modules/help/HelpContentB.hpp:1134` | a cancel beside mark-done half-builds the order, two mark-dones build it twice (`MrpModule.cpp:1292`) |
| `MCProductionLanded` (MCProduction) | `CacheMatchesLayers` | "Maintains the product's quantity_svl / value_svl caches", `core/StockQuant.cpp:137` | a landed cost writes back a value read before a move (`StockQuant.cpp:273`) |
| `MCProductionReorder` (MCProduction) | `ForecastWithinMaximum` | "draft a replenishment up to the maximum", `StockModule.cpp:2313-2315` | two runs read before either inserts (`:2344-2354`) |
| `MCProductionValue` (MCProduction) | `ValueConserved` | "so manufacturing conserves inventory value", `MrpModule.cpp:1303-1306` | a first-in-first-out component leaves at its layers' value and enters the product at its standard price (`:1321`) |
| `MCProductionClose` (MCProduction) | `ClosesWithLast` | "when the last one finishes the MO becomes 'to_close'", `MrpModule.cpp:1371-1372` | two finishes at once each see the other's work order open (`:1492`) |
| `MCOrdersBalance` (MCOrders) | `InvoicesBalance` | "An entry that does not balance cannot be posted", `modules/help/HelpContentB.hpp:845` | the stored total and the lines disagree after a save that stops half-way (`SaleModule.cpp:1239`) |
| `MCOrdersBalance` with `-continue` (MCOrders) | `OneFullInvoice` | "full invoice — disables further Create Invoice", `SaleModule.cpp:877` | a delivery validated afterwards sets the status to 'to_invoice', and the form shows Create Invoice again (`StockModule.cpp:839-842`) |

### Switches that restrict what callers do

The code enforces none of these. A property that holds under a switch holds
under it only.

* `OneRequestPerPicking`, `OneRequestPerDocument`: no two requests work on one
  transfer (invoice, payment) at the same time. Off, validate and post act on a
  stale state: `stock_same_picking` shows which guarantees survive it,
  `MCInvoicingDoublePost` one that does not.
* `CarefulEdits` (Invoicing): lines change only while no money is applied, and a
  save does not stop between its calls.
* `Exclusive` (Orders): the orders on which no two requests overlap. Two confirms
  of one draft at once make two deliveries. The third order of the run is not exclusive.
  `CarefulEdits` (Orders): on those orders no save stops half-way and the last line
  is not deleted, which refreshes no total. `ThroughForm`: the orders billed with
  the buttons the form shows; the methods never look at what was invoiced. It says
  nothing of drafts: an advance that is still a draft is not in what a final invoice
  subtracts, and then the invoices of an order exceed its total. No property promises
  that they do not.
* `OneAdmin`, `DbAnswers` (Sessions): no two revocations at once (the count that
  protects the last company is read before the DELETE), and the query for a
  user's companies does not fail (its failure is swallowed: a session that has just
  changed database may then keep the companies of the other one, and
  `ActsForAnEmployer` fails).
  `TenantSwitch` says that the control plane is on.
* `ApprovalsAlone` (Leave): nothing else of an employee is handled during an
  approval. Off, two approvals each pass the check and overlap. `CarefulSaves`:
  nobody saves a form that shows an approved record; `MCLeaveStaleForm` is the
  configuration without it. Even with both, the *balance* may go negative afterwards, when an approved
  allocation is refused or edited; the property speaks of the approving step.
* `OneRequestPerOrder` (Production): confirm, mark done and cancel of one order do
  not overlap (two confirms never do, whatever the switch: the code would explode the
  bill twice, and here the rows of its moves stand for one explosion). `LandedAlone`: no landed cost of a product is validated while the product is moved.
  `ReorderAlone`: one run of the reorder scheduler per product at a time, and none
  while an order of the product is marked done. Each has its configuration
  without it in the table above.
* `Loads` of Server without `crowded`: `JobsEnd` promises an end only then; a
  worker refused a connection for five seconds leaves its row running until the
  next boot. It also speaks of questions asked in the default database only
  (`MCServerOrphans` is the other case).

### Bounds and why they are enough

Two workers: every hazard above is between
two transactions, and the second finds what a committed or waiting first left
behind. `MaxPeriod` 2 gives one rollover, `MaxNumber` 5 lets a row be drawn from,
given back and drawn again; the increment is 2, so a gap is told from a step.
`MaxUnits` lets every transfer be cancelled, reset and validated beside the counts (a
validated one is never reset; 2 in the same-transfer run, where a
second validation already moves a unit twice). Two invoices and up to three
payments let a payment cover less, exactly and more than an invoice, and be left
over for another. Months of two days with `LastDay` 1 give a line billed day by
day, a whole-month line that starts inside its month and so falls into the first of those
groups, and a one-off that falls into the second and stays due; one failure or crash at any point suffices to leave every
intermediate state behind, and the runs start over from it. `LeadDays` shifts one
comparison and is 0.

`Orders`: `Micros` 10 tells a micro-unit from a major one; `Amounts` 12 is a down
payment that leaves something of a total of 20 micro-units and more than covers one of 10;
the purchase order has one line, since two are summed for both kinds alike; two invoices per order give an advance and its final one; a fourth order without lines,
not exclusive, is billed by two people at once; `MaxStored` stops a line's price from growing by the
merge for ever. `Leave`: three spans with a holiday make one pair overlap, one fit
and one exceed the allocation. `Sessions`: a store of two and four ids are what an
eviction of a logged-in, an anonymous and an expired entry needs. `Server`: one
connection per database is the smallest pool everybody has to wait for, and one
job per database and limit 2 let a tick take two rows; one question is asked in
each database, in loads of its own.

`Production`: one unit per order and document and a cost of three tell a lost update
from a kept one, two documents let a landed cost follow a receipt, and two chairs
let the rule order again; `MaxOrder` 3 is never reached.

Five runs check their hazards one after the other, by a CONSTRAINT: `Focus` of `sessions`
(memberships change with up to two ids, databases are switched with three,
eviction happens with four), `OneOrder` (orders share nothing but the row of
the sequence, so a behaviour works on one of the four), `TwoAtATime` of
`stock_interleaved` (the third transfer waits or is done), `Focus` of
`production` (a second document without a chair, a second chair without a crate, both
products without a document), and `FormsBetweenCalls` and `CallsMeet` of `leave` (a form
shows the leave whose dates can change, beside one call at most, or the allocation, beside none;
two calls meet while the allocation is approved or not there). Workers are interchangeable in the runs that
declare symmetry, none of which checks liveness; in `rental_billing` one worker is
the cron thread.

### Fairness

`IrSequence`: a handler thread goes on executing (weak fairness of
its own statements and its commit), a lock that is released again and again is
granted in the end (strong fairness of `SelectForUpdate`, the server queues
waiters), the deadlock detector runs. Nothing forces an abort. `RentalBilling`:
the cron thread keeps coming round, since `markSuccess_` and `markFailure_` both
set the next run (`core/IrCron.cpp:144-192`); a statement that waits for another
transaction is woken when that ends (strong fairness of a run's steps). Failures
and crashes have none, and are bounded by `MaxFailures`. `PressedSpec`, of
`MCRentalBooking` alone, adds that somebody keeps pressing Create Invoice: it
makes the violation stronger, not weaker.

`Server`: the process is started again (`Boot`), the event loop comes back to the
tick and every thread goes on executing (weak fairness). A connection that is
free again and again is got, since `cv_.notify_all` wakes every waiter, and each database
answers again and again, so that a due list is read and a job's row found (strong fairness of
`Lease`, `LeaseAi`, and of `ReadDue` and `FindRow` per database). An end may be lost every time
(`MarkLost`). Nothing forces a crash, a failure or a
cancel. `DueJobsRun` thereby shows of the scheduler what RentalBilling assumes of
`CronRun`. The other modules promise no liveness and have no fairness.

Deadlock is checked everywhere but in `sessions`, `server`, `orders` and `production`,
where the bound on ids, questions, invoices or orders lets the system stop; `JobsEnd` and
`DueJobsRun` speak of waiting in `server`.

## 4. The proofs

`tlapm` checks eight modules. Their theorems hold for every set of workers, threads, documents, rows
and lines and every value of the bounds, under the named assumptions of the
specifications (`NoTxnAssumption`, that of each module on its constants), which
TLC evaluates for the checked instances.

**IrSequenceProofs**: `TypeCorrect`, `NeverTwice` (`Spec => []NumbersUnique`) and
`Gapless` (`Spec => []GaplessSeries`). Neither property is inductive: a number
becomes visible at a COMMIT, long after it was drawn. The invariant `IInv` adds

* `WorkerInv`: a request past its SELECT holds the lock of its row, and the
  number it computed fits the row as it stands (`Fits`);
* `DocInv`: a drawn, uncommitted number of a gapless row belongs to the request
  that holds the row; only one request owns a document;
* `RowInv`: an unlocked row is its committed version; its last period is never
  in the future;
* `BoundInv`: every number, drawn or booked, lies below the counter of its row
  and period;
* `UniqueInv`, `GaplessSeries` and `DrawnGapless`: uniqueness over drawn *and*
  booked numbers, and a predecessor for each;
* `FrontierInv`: a counter that is not at its start has a document one step
  below it, which is what makes the next number a successor, and what a
  ROLLBACK must restore.

One lemma per action shows that it keeps `IInv`; the rollback lemma is the
reason why the increment has to be part of the caller's transaction.

**InvoicingProofs**: `NumbersStay` (`Spec => NumbersKept`), `MoneyMovedOnce`
(`Spec => []MoneyMovesOnce`), `DebtBacked` (`Spec => []DebtNeverUnderstated`) and
`WithinTotal` (`Spec => []NeverOverApplied`), all under `OneRequestPerDocument`, the last
two under `CarefulEdits` as well. `MCInvoicingDoublePost` and `MCInvoicingResidual` are
what happens without. None of the four is inductive: a handler reads, derives
and writes in separate statements, and what it has inserted and locked shows at its COMMIT.

* `TypeInv`: besides types, which rows a request has written at which place
  (`LockOK`), that a free row is the committed one, and that requests are `Apart`.
* `NumberInv`: who posts found a draft that is still one (`NumberOK`); from the draw to
  the COMMIT the sequence is locked and its one new number belongs to this request,
  so committed numbers stay below the committed counter.
* `EntryInv`: the entry a request has inserted is of a payment it is bringing to
  'posted' or of a line it is marking, and a payment it applies has an entry,
  committed or its own.
* `MoneyInv`: `Accounts`, that every committed invoice is `Sound` (residual and
  `payment_state` against what was applied and cleared) and `Settled` (nothing is applied to one
  that is not paid), and `MoneyOK`, the same of the invoice each request works on as this
  request sees it, with its own inserts counted (`Both`, `Clearing`). `Handles` says how far
  the two may be apart at each place: between an insert and the UPDATE the invoice is sound and
  not settled, a derived residual is still the difference when it is written,
  and only between the save of the lines and recompute_totals does the total not
  match the lines.

One lemma per statement and invariant; a COMMIT makes what its request knows of its
invoice true of the committed rows (`CommitMoney`), by the sums of `SumTheorems`.

**RentalBillingProofs**: `NeverBilledTwice` (`Spec => []BilledOnce`), over the places of
the sequence of invoices, so that two which say the same are two (`InvoicesShape`, that
it is one; `AppendFacts`, what a commit adds to it; `BilledFact`, what is billed). The unique
key is checked when a link is inserted and invoices appear when its group
commits, so the invariant says where the keys in between are:
`PendingDisjoint`, no two uncommitted runs have linked the same line for one
period start, and `PendingUnbilled`, no uncommitted run has linked what is
billed. Fairness is not used.

`BillingFollowsSchedule` (`Spec => ImplementsSchedule`) is the refinement, step by
step: a `CommitGroup` is one `Bill` of the schedule, and every other step, `Book` and
`SetState` among them, leaves `due` and `invoices` alone. That a commit bills
exactly the *current* period of its lines, although the due list is old by then,
takes two more invariants: `RunOK` (every entry of a due list still has the period
start it was grouped under, or is already billed for it) and `LocksOK` (a row is locked
exactly by the run that has advanced it, by one period from the committed row; a free row
is the committed one). The unique key does the rest: an entry that is stale is
already billed, so its link fails and the group is skipped.

**SumTheorems**: what `SumFunction` of the community modules is when a function is
updated at a point, added to another, zero, or taken over two disjoint sets. The fold it is
defined by recurses over sets, so each lemma is an induction over the subsets of the
domain, done as `FiniteSetTheorems` permits it: the set of subsets that have the property
contains the empty set and is closed under adding an element.

**StockTransfersProofs**: `TypesHold`, `ReservationsNonNegative` and `UnitsConserved` hold
whatever requests meet, on one transfer or on several; `HeadersMatchMoves`,
`ReservationsMatchMoves` and `LedgerMatches` under `OneRequestPerPicking`, without which
`stock_same_picking` leaves only the first three. Of the five properties none is
inductive: all speak of committed rows, and a handler changes quants, moves, headers and
order lines in separate statements.

* `Balanced` (for `Conserved`): what a transaction has changed of a product's quants adds
  up to nothing, except between the two statements of `applyMove`, where it `Owes` the
  quantity it has taken; a rollback forgets all of it, a commit happens only when
  nothing is owed.
* `WorkInv` (for `HeaderMatchesMoves`): `Phase` says, for every place of every handler,
  what state the transfer and its moves are in; `KnowsTodo` and `KnowsCur` that the
  moves the handler selected are still what it selected, the reason why acting on a stale
  list is harmless; `RowOK` that a move that is not reserved holds nothing and a component
  exists only once consumed. `StepFrame`, the frame of every step, says that a
  request writes the rows of its own transfer only, so that one lemma (`OthersFramed`)
  passes every step over all other requests.
* `PromisesKept` (for `ReservedMatchesMoves`): per quant, what a transaction has reserved
  and not committed is what it has changed of its own moves, where `HeldFor` says at
  which statements a move's column runs behind the quant. `ReservationCovers` follows:
  a quant always holds at least what a release gives back, so the floor in
  `release()`, which would lose the difference, is never reached.
* `LedgerKept` (for `LedgerMatchesMoves`): per product and region of locations, the quants
  are what the done moves brought in; `InFlight` is what `applyMove` has moved before
  `MoveDone` records it (for a component, after it was recorded). A region holds all of the internal
  locations and inventory loss or none of them, because a count moves units
  among those without a move.

One lemma per statement and invariant; `QuantStep` gives for each statement which quant
it writes, and the invariants about sums use it with the lemmas of `SumTheorems`.

**ServerProofs**: `NeverOverlaps` (`Spec => []NoOverlap`), `AlwaysRouted`,
`EndedStaysEnded` (`Spec => EndsOnce`) and `TypesHold` (`Spec => []TypeOK`). `GuardInv` says that a thread between the
guard and its `Done` has its key in `running` and no other such thread has the same
key; `RouteInv` that a scheduler thread is pinned to the database it works for and
leases only from it; `AiInv` the same of requests and worker threads. One lemma per
action, and two that let the scheduler's steps pass over the questions' side and
back. `AlwaysRouted` assumes nothing about where questions are asked: an asking request holds a
connection to its own database only, and the worker thread, which captures no tenant, to
the default one, also when its row is in another (the reason for `MCServerOrphans`).
`TypesHold` is the accounting of the server: `PoolCounted` (idle connections and the
finite set of holders of a database make up its pool: every step is a `PoolMove` of one thread),
`CronTyped` (a thread past the guard has a registered job, which is why `running` holds no
other; a due list stays free of repetitions) and `QuestionsTyped` (the counter of
live workers is their number: a worker starts once, because a question that was never
asked has no worker).

**LeaveProofs**: `NeverApprovedTwice` (`Spec => []ApprovedNeverOverlap`), `TypesHold`
(`Spec => []TypeOK`) and `BalanceKept` (`Spec => ApprovalsWithinBalance`), under `ApprovalsAlone` and `CarefulSaves`. A commit publishes exactly what the worker saw,
so the invariant speaks of what a call sees: `CallInv` (the shape of a call),
`RowInv` (under a lock only the state differs from the committed row), `LockInv` (a
lock belongs to a workflow call that serves the row's employee, and only an approval
brings a row to 'validate'), `AloneInv` (an approval is the only call of its
employees), `PendingInv` (what an approving transaction sees approved does not
overlap, and its next subject clashes with none of it). It shows that the check
is enough within a batch, where the second approval must see the first
*uncommitted* one. `TypesHold` adds `TypeInv`: a leave whose dates or days are being written
is not approved, and what an approval has checked of a row still holds at its UPDATE; so
approved leave has working days, although they are counted in a transaction of
their own. `BalanceKept` adds `BalanceInv`: each leave an approving transaction has
written fits the balance that transaction sees, and the next one asks for no more than is
left of it. Its UPDATE moves one row into the sum of the days taken (`DaysGrow`), so what
was left covers it; an allocation approved by the call can only add. Nobody else moves
those rows (`Apart`, `OneBalanced`), and a COMMIT makes the sums that were seen the
committed ones (`CommitDays`).

**ProductionProofs**: `CachesKept` (`Spec => []CacheMatchesLayers`), under
`LandedAlone` and for products that are not first-in-first-out (`NoFifo`: folds sum
their layers). Every move reads a product's caches in one statement and overwrites
them in another, so the invariant says what is known in between: `Holds`, whoever
holds a product's row sees there the committed layers plus the ones it has added;
`Reads`, what a request is about to write back is still what the row says; outside
the lock nobody has added anything but a landed cost (`Landing`). The step that
decides is `RefreshOnHand`: its UPDATE waits for the row before the SELECT that
`WriteCaches` builds on, so a read is never stale. A landed cost has no such UPDATE; that
its value is not stale takes `AloneInv` (what others hold, `Covers`, is what they
`Touches`), and `MCProductionLanded` is the trace without it. `RowInv`, `CallInv`,
`IdleInv` and `OrderInv` are types, free locks of idle workers, and orders that do
not vanish.

`ClosedWithoutWork` (`Spec => []WorkBeforeClose`) assumes none of the switches. `handleMarkDone` reads the
work orders, and several statements later sets the state of the order by its id alone;
finishing the last work order closes it in a statement that looks for open work itself.
What makes both right is `WorkInv`: work is opened by the confirmation of its order only
(`WorkHeld`; a start or a finish finds its row open already), an order that
was confirmed is never a draft again, so no confirmation runs beside a mark done (`Apart`,
`StillHolds`), and whoever holds the row of an order is at its COMMIT with one of six
changes (`OrderHeld`).

`StockFollowsDoneOrders` (`Spec => []StockFollowsOrders`) assumes `OneRequestPerOrder`, without which
`MCProductionTwice` is the counterexample. `StockInv` keeps a running account: what a
request sees of the stock of a product is the committed stock and its `Delta`, which is
the quantity of its transfer, or, for a mark done, the components that are not in
`todo` any more and the product once it was moved. That this is the whole bill at the
COMMIT rests on `MovesReady` (the moves of an order in production are all still to do when the mark
done selects them) and on `Owns` and `Cancelling` (an order leaves production together with its moves, so a
cancel never keeps half of it). COMMIT turns the delta into one changed term of
the sums over orders (`CommitBuilds`, `SumFunctionUpdate`), ROLLBACK forgets it.

Only model-checked: `RequestsEnd`, `DueIsBilled`, `DueJobsRun` and `JobsEnd`
(liveness under fairness is out of the prover's reach, as is ENABLED),
`DeliveredMatchesMoves` (the quantity of an order line is a copy of a sum over the moves
of all transfers of the order, so it needs an invariant about what each request has read
of the others' moves), `ForecastWithinMaximum` and the products Production sums by layers, and everything about
Orders and Sessions. Sums can be reasoned about where they are over a function
or a set, as above; what a recursive function over numbers or sequences computes for every
input needs an induction theorem with an operator parameter, which the installed
provers do not instantiate. No module here declares a RECURSIVE operator.

## 5. Not modelled

* IrSequence: padding, prefix and suffix beyond the year they print; `has`.
* StockTransfers: lots beyond their absence, packages, scrap, access to another company's transfer, and the
  sequence that names a transfer. `UpdateLines` writes the lines of a transfer's order in one
  step where the code has an UPDATE per product (two transactions can then deadlock, which is
  an `Abort`), and its orders stay confirmed: the state a cancelled one has is
  in Orders.
* Invoicing: vendor bills, refunds, currencies, analytic lines, the tax split
  (a total stands for the lines), down payments.
* RentalBilling: amounts, taxes and labels; edits of a line's span, mode or
  dates; lead days per line (one constant); several customers, companies and
  currencies (they are separate groups and never share a line); expenses; the
  trigger on unit states and the overlap guard of bookings.
* Orders: quotations, margins, price lists, taxes, signatures, portal acceptance,
  vendor prices, three-way matching.
* Leave: leave types and holidays as records (constants here).
* Production: edits of an order after its confirmation, the journal entry of a
  layer, the row of a landed cost and its split over several products, purchase orders
  drafted by the scheduler and those it counts, a price typed on the product form, quants
  of virtual locations, scaling of a bill, which is not for one unit.
* Server: how long a back-off lasts, the texts it stores, prompts and answers,
  the audit log's second connection, reconnecting a broken connection.
* Sessions: password hashing, the limiter of login attempts, API keys; companies that are
  archived, which the query leaves out (none is, here).
* The rest of the table in section 1, with the reason given there.

## 6. Plan

In this order, the most valuable first.

1. **RecordWrite** (`BaseModel`): the optimistic check against an abstract
   register, once a model registers the field.
2. **Money and taxes** as operators, checked against reference definitions.

Theorems to come: the properties of Sessions, whose order of access has to become a
relation first (a filtered sequence is a recursion); `ForecastWithinMaximum` of
Production; `DeliveredMatchesMoves`.
