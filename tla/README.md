# TLA+ specifications of the ISB school payment system

The repository is a school wallet and point-of-sale system: students, staff,
parents and departments own wallets; shops (a canteen and a store) sell from
them, cashiers, kiosks and a payment gateway (BAY through PYMT) top them up,
officers refund them, shops count their stock and close the month.  The current
backend is `backend-bun/` (TypeScript on Bun, one event loop, a pool of ten
PostgreSQL connections); `backend/` is the FastAPI program it replaces.

This directory models the parts of the backend where money and stock move,
checks them with TLC and proves the most important results with TLAPS.

## 1. Inventory

All state is in PostgreSQL; a request handler reads and writes it in
autocommitted statements (`db`) or in transactions (`pgClient.begin`, READ
COMMITTED) that take row locks with `SELECT ... FOR UPDATE`.  Between two
awaits any other request may run.  Two background timers run in the same
process, and the gateway calls back over HTTP, at least once.

| Component (source under `src/backend-bun/src`) | State | Operations | What is hard | What makes it correct |
|---|---|---|---|---|
| Top-up intents: `services/topup_service.ts`, `topup_reconcile_scheduler.ts`, `controllers/TopupController.ts`, `BayCallbackController.ts` | `payment_intents`, `wallets.balance`, `wallet_transactions` | create intent, callback, inquiry, sweep, cancel, self-confirm, confirm | duplicate and concurrent deliveries, cancel racing confirm, errors after the money was taken, crash between two statements | credited at most once, no credit lost, a completed payment is taken up, a callback is acknowledged only when settled |
| Wallet ledger: `services/wallet_service.ts`, `refund_service.ts`, `edcTopup` | `wallets`, `wallet_transactions`, three partial unique indexes on `reference_ticket` | adjust, cashier top-up, vendor adjust, family transfer, graduation refund, EDC top-up | two locks per transfer, idempotency key looked up before the lock, cap read before the lock | one row per ticket, balances chain, transfers neither create nor destroy money and never deadlock |
| POS QR sale: `services/pos_qr_service.ts` | `payment_intents` of type `pos_sale`: status, claim sentinel `confirmed_via`, `receipt_id` | create, callback or inquiry, claim / checkout / stamp, cancel | three transactions, crash between them, retry after a failed checkout, cancel during checkout | at most one receipt per payment, a paid sale gets its receipt |
| POS checkout: `services/pos_checkout_service.ts`, `pos_transaction_service.ts`, `failed_checkout_service.ts` | `receipts`, `receipt_items`, stock, wallets, `pos_checkout_transactions` | checkout, EDC verification, attempt log | product and wallet locks in cart order, queries on a second pool connection inside the transaction, receipt numbers, repeated idempotency key | stock and wallet move with the receipt or not at all, daily limit, one receipt per key |
| Voids, returns, exchanges: `services/pos_service.ts`, `returns_service.ts` | `receipts.status`, `return_requests`, `credit_notes`, stock, wallets | void, create return, approve, refund, exchange, edit, delete | return and void of the same receipt, returns created concurrently, rows locked in the order of the items | nothing is returned or refunded twice, goods and money come back as the committed operations say, nobody waits for ever |
| Stock and costing: `services/inventory_fifo.ts`, `lib/fifo.ts`, `shop_product_service.ts`, `balance_file_service.ts` | `shop_products.stock`, `avg_cost`, `fifo_lots`, `shop_movements` | deduct, receive, restore, adjust, replay of the movements | negative stock, lot consumption order, an average kept in two ways, movements written by transactions that overlap | lots, movements, average and stock agree |
| Month close: `services/close_month_service.ts` (`monthly_stock_service.ts` only reads) | `stock_period_closes`, its items, stock | open, count, confirm | confirmation reads outside its transaction, sales go on during the count | a close is applied once and keeps what moved while it was open |
| Low-balance alerts: `services/low_balance_notification.ts`, `low_balance_scheduler.ts` | `email_alerts_log` | check after checkout, daily sweep | duplicate mails from two triggers | one alert per crossing |
| Identity syncs: `isb_sync_service.ts`, `powerschool_sync.ts`, the sweep services | users, customers, families, cards | upsert, deactivate, reconcile | partial runs | no active cardholder is lost |
| Bill reader: `plugins/capacitor-hardware/.../Nk77Reader.kt`, `HardwarePlugin.kt` | collecting, target, collected, the bill in escrow | start, stop, accept, return, the bytes of the device | two threads that share the reader, a stop while a bill moves, an answer that never comes | a bill is counted once, a stop settles the bill in flight |
| Kiosk cash session: `kiosk/src/views/TopUpView.vue`, `hooks/useBillAcceptor.ts`, `lib/cash*.ts`, `topupApiRetry.ts`, `kioskCashBox.ts`, `kioskOutOfService.ts` | collected amount, session ref, the one pending top-up, the lock, the box counter (local storage) | start, bill events, idle timer, stop, finalise, recovery, retry at start-up | bill events racing the timer, state shared by consecutive customers, restarts, one slot for the pending top-up | what was stacked is credited once and under one ref, the box counter agrees with the box |
| Other clients (`frontend/`, `rfid-bridge/`, printers, installers) | device and browser state | card scans, screens, drivers | device failures | outside the backend; environment of the models |
| Administration, reports, catalogue, authentication, settings | tables of the same names | CRUD and queries | little concurrency | not state machines; left out |
| `backend/` (FastAPI) | same tables | same operations | superseded by `backend-bun` | left out |

The parts meet in three places.  *Wallets*: `confirmTopup`, the endpoints of the
ledger, a checkout and its reversal all lock the wallet's row, read it, write it
and add a row to `wallet_transactions`.  *Products*: checkout, void, return,
receiving, adjusting and the close lock the product's row in the same way, except
where the close reads without a lock.  *Receipts*: `checkout()` makes them, for a
till or for a paid QR sale, and voids and returns take them back.  The kiosk is a
client of `cashierTopup`; its ref is the ticket there.

## 2. Plan

The modules, in the order they were written:

1. `TopupIntents` with the abstract `TopupCredit` and the proofs
   `TopupIntentsProofs`: the path on which money enters from outside.
2. `WalletLedger` with the abstract `AtomicWallets` and the proofs
   `WalletLedgerProofs`: the other writers of `wallets`, with tickets and two-wallet
   transfers.
3. `PosQrSale` and the proofs `PosQrSaleProofs`: the three-phase claim protocol.
4. `PosCheckout` and the proofs `PosCheckoutProofs`: product locks, stock, wallet,
   receipt, daily limit, idempotency key, and the connection pool.
5. `ReceiptReversal` and the proofs `ReceiptReversalProofs`: void, return, refund,
   exchange on top of its receipts.  Its sums are those of `Counting`, whose lemmas
   are in `CountingProofs`.
6. `FifoLots` (the costing algorithm against a reference definition) and
   `ShopStock`, which uses it, with the proofs `ShopStockProofs`: what changes a
   product's stock, and the month close.
7. `BillReader` and `KioskCash`, which extends it, with the proofs `KioskCashProofs`:
   a cash session at the kiosk.

All are modelled and checked.  Of every one the inductive invariant is proved, and
every safety invariant a run checks, save `NeverStuck`, a statement about ENABLED, and
`TransfersPaired` (section 5).

## 3. Modules

### TopupIntents

A *worker* is one HTTP request or sweep in flight.  Its program points are the
awaits of the code; `rowLock` and `walletLock` are the row locks of
`confirmTopup`'s transaction.

| Code | Actions |
|---|---|
| `createTopupIntent` | `CreateCheckCap`, `CreateInsert`, `CreateAtGateway`, `CreateStore`, `CreateCancel` |
| `handleBayCallback` | `HookReceive`, `HookUnknown`, then `CancelWrite` or `confirmTopup` |
| `inquireTopupFromGateway` | `InquiryAsk`, `InquiryAnswer`, then as above |
| `reconcilePendingTopups`, called by its scheduler or by the admin's endpoint | `ScheduledSweep` or `AdminSweep` (both `SweepScan`), `SweepNext`, `SweepAnswer`, then as above and on to the next intent |
| `cancelTopupIntent`, `parentConfirm` | `CancelRead`, `CancelWrite`; `ParentConfirm` |
| `confirmTopup` | `ConfirmLockIntent`, `ConfirmAlreadyProcessed`, `ConfirmLockWallet`, `ConfirmCommit` |
| errors and crashes | `RequestFails`, `ServerCrash` |
| the gateway | `GatewaySettles` |

The statements of a transaction between its last lock and its commit are one
step (`ConfirmCommit`): the rows they touch are locked and nothing of them is
visible before the commit.  Statuses `COMPLETED`/`FAILED` and the normalised
inquiry results are the members of a small set; the 404 of the gateway's inquiry
is the state `"purged"`.  Operators whose comment begins with "Faulty" are
variants with one plausible bug, kept to show that the properties notice it.

The scheduler starts no sweep while its last one runs; `TopupController.reconcile` with
`dry_run` false knows nothing of that flag, so an `AdminSweep` may run beside it.

Not modelled here: authorisation (`userCanAccessWallet`), the reconciliation's
dry run (no effect), the configuration without PYMT (every BAY intent is
cancelled at once), and `edcTopup`, which has no intent and is in `WalletLedger`.

### TopupCredit

What the service promises about money: an intent is credited at most once, in
one step, and not after it was closed.  `TopupIntents` implements it under the
mapping `credited` = intents with a TOPUP row, `closed` = intents whose row reads
`cancelled`.

### WalletLedger

One worker is one request to an endpoint that writes wallets.  Its `kind` is the
endpoint; its program points are the steps before the transaction (search for the
ticket, ceiling, duplicate), the lock, the write, and for a transfer the two locks
and the two writes.

| Code | Actions |
|---|---|
| `adjustBalance`, `adjustDepartmentBalance` | `AdjustBalance`, then `LockWallet`, `Write` |
| `cashierTopup` | `CashierTopup`, `LookupFinds`/`LookupMisses`, `CheckCap`, then as above; after a unique violation `WriteRejected` and the search again |
| `vendorAdjustBalance` | `VendorAdjustBalance`, the search over all wallets, `LockWallet`, `WriteRefused` or `Write` |
| `createGraduationRefund` | `CreateGraduationRefund`, the search, `LockWallet`, `WriteRefused` or `Write` |
| `edcTopup` | `EdcTopup`, `CheckEdcDuplicate` (or not, without a terminal reference), `LockWallet`, `Write` |
| `transferWithinFamily` | `TransferWithinFamily`, `LockFirst`, `LockSecond`, `WriteBothRefused` or `WriteDebit` and `WriteBoth` |
| errors and crashes | `RequestFails`, `ServerCrash` |

A ticket is an idempotency key, a vendor's transaction id or an EDC approval code.
The endpoints' prefixes keep their tickets apart, so a ticket is looked up together
with its kind; `TicketTaken` is the partial unique index.  Amounts are whole
numbers.  A transfer writes its source, then its destination, and commits: an error or a
crash may strike between the two (`WriteDebit` is where a request waits with half of its
transfer written), and `TransfersPaired` says that no half is ever left.

Not modelled: creating a missing wallet, who may access which wallet,
inactive wallets, and the verification at the EDC terminal (the request starts
when it succeeded).

### AtomicWallets

What the endpoints promise: each change of the wallets is one posting or one
transfer computed from what the wallets hold at that moment; a ticket moves money
once; a ticketed debit takes no more than there is.  `WalletLedger` implements it
with `funds` = the balances and `uses` = the number of rows that carry a ticket.  The
promise admits any posting on one wallet, so it does not exclude half of a transfer by
itself; `WalletLedger!TransfersPaired` does.

### PosQrSale

| Code | Actions |
|---|---|
| `createPosQrIntent` | `CreateInsert`, `CreateLog`, `CreateAtGateway`, `CreateStore`, `CreateCancel` (then `CancelLog`) |
| `handleBayCallback`, POS branch | `HookReceive`, `HookKnown`, `HookCancel` |
| `inquireQrIntent` | `InquiryAsk`, `InquiryAnswer` |
| `cancelQrIntent`, `abandonQrIntent` | `CancelAsk`, `Cancel`, `CancelLog`; `Abandon`, `CancelLog` |
| `confirmPosQrSale` phase A | `Claim` or `ClaimSkip` |
| phase B, `checkout` | `CheckoutCommits`, `ReadReceipt`, `ReadReceiptFails`, `CheckoutThrows`, `LogOutcome`, `Release` |
| phase C | `Stamp` |
| errors and crashes | `RequestFails` (goes on where the code's `catch` does), `CancelLogFails`, `ServerCrash` |

Phase A locks one row, decides and commits, and touches nothing else, so it is one
step.  `checkout()` is reduced to whether its transaction commits and whether the
receipt can be read back afterwards; its own steps are the business of
`PosCheckout`.  A cart snapshot is never malformed, because `createPosQrIntent`
refuses an empty cart.

### PosCheckout

A *sale* is one payment flow of a till, with the idempotency key minted there; a
request `<<s, k>>` is the k-th time the till sends it.  A transaction keeps its view
of the rows it has locked in `rows` and `purse` until the commit.  What the receipts
say was sold of a product is a number of items, each named by its receipt and place
in the cart.

| Code | Actions |
|---|---|
| the till, `useStoreCheckout.ts` | `Send` |
| `checkout()`: attempt log, read-back, answer | `StartLog`, `ReadReceipt`, `Finish` |
| `runCheckout()`: receipt number | `Begin` |
| per item: product row, options, new stock | `LockProduct`, `Deduct` |
| wallet, daily limit and overdraft | `LockWallet`, `CheckLimits` |
| receipt with its two unique indexes, commit | `InsertReceipt`, `Commit` |
| a failing statement or validation; PostgreSQL's deadlock detection; a crash | `Fails`, `DeadlockVictim`, `Crash` |

`ConnectionFree` guards every step that goes through `db` while the transaction of
`pgClient.begin` holds its own connection.  Every item costs 1.  Left out: option
prices, bundles, spending groups by category, mails after the sale.

### ReceiptReversal

| Code | Actions |
|---|---|
| `voidReceipt` | `VoidArrives`, `VoidLock`, `VoidItem`, `VoidWallet`, `VoidCommit` |
| `createReturn`, `createReturnWithoutReceipt`, and the approval the Returns screen sends after it | `CreateRead` or `CreateWithoutReceipt`, `CreateInsert`, `Approve` or `ApproveLost` |
| `updateReturn`, `deleteReturn` | `UpdateReturn`, `DeleteReturn` |
| `processRefund`, `processExchange` | `RefundRead`, `RefundLock`, `Restore`, `Deduct`, `RefundWallet`, `RefundCommit` |
| errors, deadlock victims, crashes | `Fails`, `DeadlockVictim`, `Crash` |

A void's `product` is the next item it restores and `left` the set of those after it:
the order is that of the query, which gives none.

`createReturn` never looks at the receipt: the quantity that was bought is what the client
says of it (`returns_service.ts:161`), any of `Claims`, and a receipt number that does not
exist is taken like any other.  So a client that overstates the purchase returns more
than was bought without any race; `WithinClaims` says what the check does achieve: at most
what was claimed, unless two requests counted together or somebody edited one.
A refund finds the product by its code without the shop (`returns_service.ts:380`, `:659`);
here a code is one product.

`given`, `refunded`, `processed`, `exchanged` and `bypassed` are history: what the
committed operations took back, paid and gave out, and the receipts whose returns
were counted on a stale read or edited by hand.

### Counting

The sum of a finite function to the naturals, defined as the number of the units it
counts.  It is what `SUM` in `getAlreadyReturnedQty`, and the totals of the properties,
compute; as a cardinality it can be reasoned about, which a recursive sum cannot.  The
kiosk uses it for what a session's bills are worth and for the bills of all sessions.

### FifoLots and ShopStock

`FifoLots` holds the algorithms of `lib/fifo.ts`, in ten-thousandths, the scale of
`numeric(10,4)`: `deductFifoLots` (the loop over sorted lots as a fold, with the
phantom lot of what is missing), `calcFifoAvgCost`, `calcNewAvgCost`, and `Units`, the
reference: lots as the row of units they stand for, oldest first, so that a sale of n
has to leave the row without its first n (`TakesOldest`).  Every pass over lots or movements
is `Folded`, whose step is a function of the value so far and the next element, so that
one lemma (appending an element applies the step once) serves them all.

The average of a FIFO product is that of its lots up to rounding *except* after a void
put goods back on an empty or negative stock, or restored a line of negative quantity:
`PutBackOnNothing`.  The proof found why, with larger quantities than the run's.  In
ten-thousandths: a sale of 10 from nothing opens a phantom lot at cost 0; 3 received at
cost 1 leave a debt of 7 whose average, -3/7, rounds to 0; a void of 8 adds a lot of 8
at that average.  One unit of stock is left, its lots are worth 3, its average is 0.

| Code | Actions and operators of `ShopStock` |
|---|---|
| a transaction that changes one product: `receiveStock`, `adjustStock`, a line of a sale, of a void | `Begin`, then `ChangeProduct` by `Outcomes` (`Received`, `AdjustedBy`, `Sold`, `PutBack`); `SaleFails` |
| `createClose` | `OpenClose`, `Snapshot`, `InsertItems` |
| `bulkUpdateItems`, `importExcel` | `CountCheck`, `CountWrite` |
| `confirmClose` | `ConfirmRead`, `ConfirmItem`, `ConfirmWrite`, `ConfirmCommit` |
| the clock, a crash | `Midnight`, `Crash` |
| the reports' query, `nextCostState`, the start of a product without history | `Ledger`, `nextCostState`, `Base`, `Replay` |

With the product's row locked, read, compute, write and commit are one step; a
confirmation of the close reads without the lock, so each of its steps is an action.

The clock counts half days, because a movement's `date` is a day of UTC or of Bangkok,
whichever its writer asks for, and `created_at` is the time its transaction began.
`Ledger` is what the reports read: the movements in the order of date, created_at, id.
They replay first what came before the period and then the period itself, from a cost of
0, or from the present `avg_cost` when nothing came before
(`balance_file_service.ts:242-246`), which is `Base`; `OpeningCost` is what a product was
created with.  `nextCostState` does not round, whereas `avg_cost` is rounded at each
receipt, so `ReplayFindsProduct` compares the two within what that rounding can add up to,
and only where dates and begins follow the order of the row's locks (`InOrder`): in
another order the code finds another average.  The JavaScript floats of the replay are
exact fractions here.  `SalesTakeOldest` is about rows of lots without a phantom lot; the
Stock Card's listing, by `created_at` alone, computes nothing from the order.

### BillReader and KioskCash

`BillReader` is the plug-in: a reader thread that handles the device's bytes and a
thread that runs the script's calls, sharing fields under `stateLock`.  `KioskCash`
extends it with the script of the kiosk, which is one thread.

| Code | Actions |
|---|---|
| the device (external) | `InsertBill`, `StackBill`, `GiveBack` |
| `handleBillValue` | `ReadBill`, `DecideBill` |
| `onStacked`, `onReturned` | `ReadStacked`, `ReadReturned`, then `EmitOutcome` |
| `startCollecting`, `stopCollecting`, `acceptBill`, `returnBill` | `StartCollecting`; `StopCollecting`, `StopSettled` or `StopTimesOut`; `AcceptBill`; `ReturnBill` |
| `handleBillEvent` with the box counter | `HandleEvent` |
| `finalizeCashTopUp`, `retryTopupApi`, `startRecoveryFlow` | `FinalizeStarts`, `AfterFinalizeStop`, `ServerCredits`, `CallReturns`, `CallFails`, `Refreshed`, `EnterOutOfService` |
| the screen's buttons and idle timer | `SelectCash`, `Back`, `Cancel`, `InhibitAccepting`, `IdleExpires`, `AnswerOverpay`, `FinishAndLogout`; `AfterStop`, `AfterBack`, `AfterLeave` |
| unlocking, resume, start-up with `retryPendingCashTopup` | `HandleUnlock`, `ResumeApp`, `Restart`, `RetryReturns`, `RetryFails` |

The model paces the environment: a bill or a customer comes only when every byte and
event has been handled (`Quiescent`), an eight-second wait ends only after the bill
was read (`BillIsRead`), and events and results reach the script in the order they
are posted, although only events go through `runOnUiThread`.  All of this favours the
code.  The idle timer and `InhibitAccepting` tick only then too, so their meeting a bill
in motion is not covered, except that `Cancel`, which takes the same way out, comes at any
time.  "late decision" is also set by an accept that finds the escrow empty, which exempts
a few sessions more than it needs to.

`cash[s]` is history, the bills of session s in the box, and `taken[s]` the bills the
device was told to take: it counts every CMD_ACCEPT the reader sends, also one that
meets no bill.  The proof asked for the second kind: with two faults, a bill is sent
back by a `return` that was queued before `DecideBill` accepts it, the stop then waits in
vain and credits it, and nothing in the box or in the device stands for that credit.

`mishap` names the ways in which a session's money can get lost, so that
`CashIsCredited` says there is no other:

| Name | Line | What happens |
|---|---|---|
| late decision | `Nk77Reader.kt:484`, `:517` | `collecting` is read outside the lock, or an overpaid bill accepted, while a stop goes by: the bill is taken after the session's total was settled |
| overtaken | `Nk77Reader.kt:642` | the wait is released before the event is emitted: the finalize credits the total without the bill |
| no answer | `Nk77Reader.kt:237` | eight seconds without 0x10 or 0x11: the bill is credited unseen |
| dropped | `TopUpView.vue:784`, `:823` | a bill counted while a stop without finalize waits is reset away |
| wiped | `TopUpView.vue:671` | the end of one session resets what the next has collected, its ref included |
| left | `App.vue:72` | a resume, or the lock of the previous session, ends a screen that has collected |
| overwritten, cleared | `useBillAcceptor.ts:72`, `:266` | the one slot for a pending top-up is taken, or emptied, by another session |
| unlocked | `OutOfServiceView.vue:62` | unlocking drops the pending top-up |
| restart | | the application dies between the first bill and the pending top-up |
| strayed | `Nk77Reader.kt:643` | the event of one session's last bill reaches the next session |

## 4. Runs

| Run | Question | Result |
|---|---|---|
| `topup_safety` | two intents of one wallet, two workers, one fault, sweeps of the scheduler and of an admin: credited once, no lost update, acknowledged only when settled, cancelled is final, `TopupCredit` implemented | hold |
| `topup_sweep_liveness` | does the sweep, with LIMIT 1, get a completed payment out of `pending` without any callback? | holds |
| `topup_paid_not_credited` | "must never be silently skipped" | violated: cancel, then COMPLETED |
| `ledger` | any two requests of any endpoints over three wallets, reusing one ticket: one row per ticket, answers agree, checks made under locks hold at the write, no transfer is left half done, `AtomicWallets` implemented, requests finish | hold |
| `ledger_edc_twice` | "This approval code has already been processed" | violated: both searches miss, both credit |
| `qr_sale` | one sale, three requests, two faults, one lost read: receipts, status, stamp and log agree; a paid sale gets its receipt while somebody checks | hold |
| `qr_two_receipts` | "No double-checkout" | violated: the checkout commits, its receipt cannot be read, the retry sells again |
| `checkout` | three sales, opposite carts, a pool of three: stock, wallets, limits, numbers, keys and log agree with the receipts; requests finish unless the pool starves | hold |
| `reversal` | voids, refunds and exchanges of two receipts by two workers: goods and money balance, nothing twice, no more than was claimed, nobody stuck | hold |
| `stock` | two costing engines under receiving, adjusting, sales, voids and a close with two confirmers: movements, lots, average and stock agree, the reports' replay up to what rounding makes; the close keeps the count | hold |
| `kiosk_cash` | two customers, two bills, one fault: nothing credited or counted twice, one amount per ref, money lost only in the named ways | hold |
| `kiosk_overtaken` | "stop() settles in-flight bill then collectedThb reflects full cashbox" | violated without any fault: the stop's result overtakes the bill's event |

Every `IInv` contains its module's `TypeOK`.  Three runs list `IInv`: that of `TopupIntents`
contains `ConfirmedIsCredited` and `AcknowledgedIsSettled` too, that of `PosQrSale` what
the log says and `ReceiptIsPaid` (a receipt only for a payment the gateway completed),
that of `WalletLedger` all of its safety invariants but `TransfersPaired`.  `IInv` of
`PosCheckout`, `ReceiptReversal`, `ShopStock` and `KioskCash`, `ShopStock!AppliedOnce`,
and `Backed` and `Exact` of `KioskCash` hold in the same instances (2,000,024 distinct
states for the kiosk, 2,088,143 for the reversal, 1,008,420 for the stock), where they
were checked before they were proved (`ReplayTracks` for three bases).  No run lists them: section 5 has them for every
instance.

Six more configurations belong to no run of the list; each checks one claim of the
repository that the code does not keep, and TLC ends in a counterexample.  They are the
races that a property of the runs above excepts, stated without the exception:

| Configuration | Claim | Counterexample |
|---|---|---|
| `MCTopupConfirmedCancelled.cfg` | `TopupIntents!ConfirmedIsNotCancelled`: "Cannot cancel a confirmed payment" (`topup_service.ts:792`) | `cancelTopupIntent` reads, another request confirms, the cancellation writes (796) |
| `MCReturnsRace.cfg` | `ReceiptReversal!WithinPurchase`: "has already been fully returned", "requested ... but only ... remaining" (`returns_service.ts:182`, `:189`) | two returns of one item count before either is inserted (173, 196); or one that overstates the purchase (161) |
| `MCStockLost.cfg` | `ShopStock!NoChangeLost`: rows "are locked `FOR UPDATE` before any read-modify-write" (`docs/STOCK_SYSTEM.md:539`) | a sale commits between a confirmation's read (`close_month_service.ts:298`) and its write (310) |
| `MCStockTwice.cfg` | `ShopStock!ConfirmedOnce`: "Period already confirmed" (`close_month_service.ts:268`) | both confirmations read the status first: every variance is applied twice |
| `MCStockContiguous.cfg` | `ShopStock!ContiguousByCreation`: "contiguous per product when ordered by `created_at`" (`docs/STOCK_SYSTEM.md:540`) | `created_at` is the begin of the transaction, so overlapping ones are listed in another order than they were applied (`shop_product_service.ts:441`) |
| `MCStockUndelivered.cfg` | `ShopStock!UndeliveredKeepsCost`: no "sale before the product's first delivery would be valued at ฿0" (`balance_file_service.ts:233`) | a sale in an earlier period is history, and history replays from 0 (242) |

Other disagreements met while modelling; where a property states one it is kept as a
definition beside the model:

* `PosQrSale!CancelledMakesNoReceipt`: an intent cancelled between phases A and B is
  sold and stamped (`pos_qr_service.ts:352`, against line 261).
* `PosCheckout!RepeatGetsReceipt`: a repeated key meets the unique index and is
  answered with an error, not with the first receipt (`pos_checkout_service.ts:896`,
  against line 94).
* `ReceiptReversal!ApprovedIsTakenBack`: the Returns screen approves what it created
  without refunding it (`returns_service.ts:302`, against
  `tests/partial_return_active_sales.test.ts:20`).
* The wallet ceiling can be exceeded by two top-ups that each pass an unlocked check
  (`createTopupIntent`, `cashierTopup`); `transferWithinFamily` refuses departments
  only as destination although its comment speaks of both; a QR sale cancelled and
  paid afterwards is skipped with 200; a FAILED callback leaves the sale's log row
  pending; a crash between claim and stamp leaves the claim (`pos_qr_service.ts:218`
  accepts that).
* A void does not look at the returns of its receipt; the void of a DEPARTMENT
  receipt restores the goods and not the money; a return's product is looked up by
  its code, without the shop.
* A void of the last unit sold opens a lot at cost 0; a `createClose` that dies
  midway leaves a draft without items that can be confirmed.
* `onBillReturnedForCashBox` takes a bill off the counter when an overpaid bill of a
  denomination already counted goes back from escrow; the tests
  (`kiosk/tests/cashBoxStackReturn.test.ts:57`) cover it only without an earlier stack.

Bounds.

* Top-ups.  Two intents of different amounts on one wallet are enough for every
  conflict of the code: on one row (two workers, one intent), on one wallet (two
  workers, two intents) and in the sweep's order.  A third worker would only wait
  for a lock that one of the two holds.  `MaxFaults = 1` lets an error or a crash
  hit any program point once; the sweep run uses none because the database error
  it would inject only postpones the sweep.  Both let an admin's sweep run beside the
  scheduler's; fairness is about the scheduler's alone.
* Ledger.  Two requests in all (`MaxRequests`), by two workers, are one and its
  repeat, or two that meet.  One ticket and two amounts give every kind of reuse:
  same wallet or another, same amount or another, in flight or after it.  Three
  wallets give transfers that share one or two wallets; the third is a department's.
  The ceiling of 3 over an opening balance of 2 makes a credit of 1 fit once and a
  credit of 2 never.
* QR sales.  Two sales share no row, so one is enough; three workers put an
  inquiry, a callback and a cancellation in flight together.  With one lost read
  `ReceiptOnce` is violated, which `qr_two_receipts` shows; `qr_sale` checks
  `ReceiptOnceIfRead`, which says that this is the only way.
* Checkout.  Two sales scan two products in opposite orders (the row deadlock), one
  of them is sent twice with its key, the third shares the wallet and the daily limit
  from another shop.  Concurrent checkouts of one shop compute the same receipt
  number, so only one of them commits; two shops are needed for two commits at once.
  A pool of three, with up to four requests, is exhausted by fewer requests than the
  real pool of ten, for the same reason.
* Reversal.  One receipt over two products, so that voids and exchanges can lock in
  opposite orders, and one over two units of one product.  The client of the first
  tells the truth of one product or doubles it, so that two returns can share it, and the
  two products' refunds meet at one wallet; that of the second understates.  A third worker could only wait.  The one event is an edit, a deletion,
  an error or a crash.
* Stock.  One product of each engine; three changes give a lot, a sale across it and
  a void; receipts of two costs make an average that is rounded.  Goods sent back to the
  supplier (a negative receipt of a FIFO product takes the way of a sale) and adjustments
  of an average-cost product are in the model and the proofs, not in the run's menu; two confirmers and two counts give the double confirmation and the late
  count; the one event is a midnight, of Bangkok or of UTC (a second date), or a crash.
* Kiosk.  Amounts in units of 50 baht.  Bills of 50 below the accepted minimum, of 100
  at half the target and of 500 above it; two bills meet, overpay or complete the target
  of 200; two sessions share the kiosk's
  state; `MaxFaults = 1` is one time-out, bill given back, failed call, pause or
  restart.  `kiosk_overtaken` needs one session and no fault.

Workers are interchangeable, so the safety runs use their symmetry; the runs with
liveness do not.  Deadlock is not checked: all runs stop when their bounded inputs
are used up, and the waits that matter are covered by `RequestsFinish` and
`NeverStuck`.

Fairness.  `RequestsRun`, and `FairSpec` of the checkout: a request in flight goes on,
since the database and the gateway answer or time out (a failure is an action of its
own).  For a QR sale it adds that a checkout tried again and again goes through in
the end; without that (a product that stays unknown) no protocol could produce the
receipt.  `SweepsRun`: the scheduler's `setInterval` fires every ten minutes; the
fairness is strong because a sweep in flight disables the next one for a while.
`GatewayCloses`: a QR code expires after three minutes and an abandoned EASYPay
attempt is purged.  `CallbacksRedelivered`, under which `topup_paid_not_credited` is
refuted: `docs/contracts/bay-pymt-contract.md` says a callback that is not answered
with 200 is sent again indefinitely.  `CashierChecks`: most polls of the QR screen only
read the local status (`PosController.ts:284`), every third is an inquiry
(`QrPaymentModal.tsx:165-176`), and that ends when the screen is left; from then on a
person has to press "Check Now" in the Transactions tab (`Receipts.tsx:351`), so this one
is an assumption about people.  It is strong, because a busy worker disables it.
A crash that leaves a claim behind is excluded
from `PaidIsSold`: the source accepts that a claimed sale then waits for an operator
(`pos_qr_service.ts:218`).  The kiosk, the stock and the reversal have no liveness
run: nothing obliges a customer or an officer to go on, and `NeverStuck` says that
no wait among operations is for ever.

## 5. Proofs

`TopupIntentsProofs` proves, for every value of the constants, from
`ConstantsAssumption` alone:

* `InductiveInvariant`: `Spec => []IInv`;
* `TypeCorrect`, `NoDoubleCredit`, `NoLostCredit`, `ConfirmedHasCredit`,
  `AcknowledgedAlwaysSettled`;
* the action properties `CreditsFlipPending` and `CancelledStaysFinal`;
* the refinement `TopupCreditImplemented`.

The argument: `LedgerChains` is not inductive by itself, because a commit writes
a balance it read earlier.  `LocksAgree` says that a request between its lock and
its commit holds the lock, and that what it read is still what the row says;
`RequestsKnowIntents` that every request is about a row that exists (or is being
created by it alone), which is what makes the lock of a fresh row free.
`CreditsMatchStatus` says a row that reads `pending` has no credit, so that the
status check under the lock excludes a second one.  `LocksReleased` and
`KnowledgeReleased` treat everything that ends requests (commit, error, crash)
at once.  `GatewayAgrees` is what `AcknowledgedIsSettled` needs: the gateway's verdict is
final, an intent is registered there once and by the request that creates it, and it is
paid only when its `txn_no` is stored, so that the callback that names it finds its row.
`StepEffect` says what a step may do to statuses and credits; the action properties and
the refinement follow from it.

`PosQrSaleProofs` proves, from `ConstantsAssumption` alone:

* `Invariance`: `Spec => []IInv`;
* `TypeCorrect`, `ReceiptIsPaidAlways`, `ConfirmedIsStampedAlways`, `SoldAlwaysLogged`;
* `ReceiptOnceAlways`: `Spec => []ReceiptOnceIfRead`, that is, one receipt per sale as
  long as `getReceipt` does not fail after `checkout()` committed.  The condition
  cannot be dropped: that is what `qr_two_receipts` shows.

The argument: `ReceiptOnce` needs that a sale which is neither claimed nor
stamped has no receipt (`SalesAgree`), and this needs that between the claim and
the stamp a sale belongs to one request, which holds the claim and knows whether
its checkout has committed (`ClaimsAgree`).  A crash leaves the claim and takes
the request away, which is harmless to both.  `ReportsAgree` carries what the
gateway said, which is final, to the step that acts on it, so that only a paid
sale is claimed and only an unpaid one is cancelled by a callback;
`CreationsAgree` says that the request creating a sale is the only one and that
nobody can pay before it is done, so that its clean-up cancels no paid sale.
Most steps leave the sale alone: `QuietMoveKeeps` treats all of them, errors
included, by the moves of a request that the invariant allows.  `LogsAgree` adds the
attempt log: a sale that can be paid has an entry there, and the entry says `success`
before the sale is stamped, whatever its other writers do in between.

`WalletLedgerProofs` proves, from `ConstantsAssumption`:

* `Invariance`: `Spec => []IInv`, with `TypeCorrect`, `LedgersChain`, `TicketsOnce`,
  `AnswersAlwaysAgree` and `LimitsAlwaysHold`;
* `Implementation`: the refinement of `AtomicWallets`.

The argument: what a transaction read of a wallet is still so while it holds the lock
(`LocksAgree`, for one wallet or two), so a row that it adds continues the wallet's
ledger and a limit checked on the locked row holds when it is written.  `TicketOnce` does
not come from the lock, since the search for a ticket takes none, but from the unique
index: the write is where a second row is refused.  `RequestsFit` says what a request can
be at its program point; of a transfer with its source written it keeps that the limits
checked before still hold at the commit.  Every write is one `Adjust`, `Redeem` or `Transfer` of the promise, a
`Redeem` adding its ticket's only use; every other step stutters.

`PosCheckoutProofs` proves, from `ConstantsAssumption`, `Invariance`, `TypeCorrect`,
`BooksAlwaysMatch`, `KeysSellOnce`, `NumbersAreGapless`, `LimitsAlwaysHold` and
`LogAlwaysAgrees`.  The stock equation is not inductive because a commit writes what the
transaction computed many steps before.  `RowsAgree` says that its view of a product is
the committed stock less the pieces among the items it has processed, and that nobody
else holds the product; `PursesAgree` the same of the wallet, and that the limits it
checked still hold, since only the holder of the wallet adds to what its owner spent.
`NumbersAgree` carries the receipt number, computed by counting without a lock: two
requests may compute the same one, but only one gets past the unique index, and that one
has the next number when it commits.  `PointsAgree` ties the point a request has reached
to whether it has its receipt, which is what the log and the answer report.  The items of
a receipt are counted, so that a new receipt adds its cart's pieces to what was sold.

`CountingProofs` proves what the sums of the reversal and the kiosk need, for every finite index set:
`Sum` is a natural number, is monotone, is 0 where all values are, and changes by the
difference of the one value that changes (`SumChanges`, from `SumWithout`).

`ReceiptReversalProofs` proves, from `ConstantsAssumption`, `Invariance`, `TypeCorrect`,
`StockAlwaysBalances`, `MoneyAlwaysBalances`, `AlwaysReversedOnce` and
`AlwaysWithinClaims`.  `OpsAgree` is what an operation knows: that under the lock of the
receipt no void has committed, that a refund's request is still pending, and that no other
operation is at the same point about the same receipt or request; hence nothing is reversed
twice.  `RowsAgree` and `PursesAgree` are as above, with what the operation has done to
each product so far (`Change`).  `CountsAgree` and `RequestsAgree` bound what was
requested, and so what was given, by what the client claimed was bought, for the receipts
whose returns were neither counted on a stale read nor edited.

`ShopStockProofs` proves, from `ConstantsAssumption`, `Invariance`, `TypeCorrect`,
`MovementsAlwaysExplain`, `StockAlwaysLots`, `AverageAlwaysLots`, `ReplayAlwaysFinds`,
`CloseAlwaysKeeps`, `AppliedAlwaysOnce` and `SalesAlwaysTakeOldest`.  What a pass over a
list does when the list grows by one (`FoldedFacts`) is derived from the least-member principle of the natural
numbers, because the library's induction theorems cannot be instantiated here; the
quantity and value of lots, the replay and the movements since the snapshot are instances.
`AverageIsLots` follows from `AverageRounded`, which is about the value and not the
average: what rounding loses is at most half a unit of cost for each unit held.  A lot put
back at the average leaves that loss as it is while the quantity grows, and every other
change computes the average anew (`Rounding`); `RoundedTwice` turns it into the average.
`ReplayAlwaysFinds` rests on `ReplayTracks`: over the movements in the order of their ids,
and from any cost to start with, the replay has the product's stock, and its average within
the slack, to which each receipt adds half a unit and of which it keeps the share of the old
stock.  Where dates and begins follow the locks the reports' order is that of the ids.
`CloseKeepsCount` rests on `SnapshotKept` (until the close is applied the stock is the
snapshot and what moved since) and on the two parts about confirmations, which say that
what a confirmation read is still so, unless a flag says that it is not.
`SalesAlwaysTakeOldest` says more than the run checks: for every quantity, not for 1..3.
`FirstTaken` is the invariant of the draining loop: while more is wanted than there were
units so far nothing is kept, and from then on the lots that are kept are the units after
the first n.  Each lot is one case of `Drain`; that the loop and the row of units advance
together is `FirstTakenStep`, about joining sequences and dropping their first elements
(`DropConcat`), and `OldestFirstTaken` goes over the prefixes of the lots with `UpTo`.

`KioskCashProofs` proves, from `ReaderAssumption`, `Invariance`, `TypeCorrect`,
`StopsAreOnce`, `OneAmountPerRef`, `BackedInvariance`, `CreditAlwaysBacked`,
`CounterAlwaysBacked`, `ExactInvariance` and `CashAlwaysCredited`, over all interleavings of
the device, the two threads of the plug-in, the script and the server, any number of
bills, sessions and faults included.  The amount of a session is fixed when
the result of its stop is handled, so a second such result would fix another one under the
same ref.  `StopsOnce` excludes that: a session waits for one stop at most, which is either
asked, in the queue of calls, or done, in the queue of events, and for none when it is not
stopping.  The proof is about how the queues move: `Keeps` says that a step adds no stop
anywhere and may pass the one at the head of the calls on to the events, and each action of
the hardware is shown to do only that.  `RefsAgree` then says that nothing was sent or
kept for a session before its amount was fixed, and that what was is that amount.

The money takes two further invariants, one for each direction.  That nothing is credited
or counted without a bill is `Backed`, which holds whatever goes wrong.  `PathAgrees`
says that there is one bill between the customer and the box, and where: on the wire, at
the decision, or in escrow.  So a bill adds to the reader's total once, which
`ReaderCovered` compares with what was taken and, when every bill was answered, with the
box.  The total then travels in messages: `ResultsCovered` says of the value the screen
will have when the i-th message is handled (`Shown`) that it is covered for the session
whose stop that message answers, and `StartsAgree` that this is the session the reader was
in.  `BoxAgrees` counts the bills of each denomination that are in the counter, on their
way to it, or accepted; their sum over the sessions is one of `Counting`.

That a bill in the box is credited is `Exact`, about sessions without mishap (`Clean`).
`ReaderExact` says that the reader's count is what is in the box, but for a bill that has
just arrived, and that the screen will show it unless a result overtakes the event, which
is a mishap at the moment the finalize uses it.  `WaitingAgrees` keeps a stop from ending
while a bill is still in the reader's hands, `CallsExact` and `ResultsExact` carry the
count with the stop back to the script, where the session is closed to further bills
(`Closed`), and `SessionsExact` says that a session that was finalized has sent what is in
its box, or keeps it in the slot of the pending top-up.  Each line named by `mishap` in
section 3 is a step that would break one of these parts if it did not set the flag; no
other step of the model does.

Only model-checked:

* `TransfersPaired`, which counts rows of several ledgers.
* The liveness properties `RequestsFinish`, `PaidIsSold` and `PaidLeavesPending`, and
  `NeverStuck`: fairness and ENABLED are out of the prover's reach.

## 6. Not modelled

* Of the modelled parts: the creation of a missing wallet, authorisation, inactive
  accounts, the EDC terminal's protocol (a payment starts when it succeeded), option
  prices and bundles, spending groups, the receipt of an exchange's price difference,
  price lists, the bill reader's power-up handshake, polls and serial disconnects,
  emptying the box, audit lines, printing, and the kiosk's QR screen (whose requests
  are those of `TopupIntents`).
* Low-balance alerts (mails; no money depends on them), the identity syncs (row-wise
  upserts whose difficulty is the format of the records), customers, families and
  cards (CRUD, but for `deactivateStudent`, whose transfer is `transferWithinFamily`),
  administration, catalogue, authentication, settings, monitoring.
* `report_service.ts`, `admin_reports_service.ts`, `monthly_stock_service.ts` and the
  pages of `frontend/` read and display; they keep no state of their own.
* `backend/` is the earlier implementation of the same operations.

Most of the repository's lines are of these kinds, which is why the definitions of
these modules stand for a small share of them, and for nearly all of those that move
money or goods.
