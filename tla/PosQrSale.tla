----------------------------- MODULE PosQrSale -----------------------------
(***************************************************************************)
(* Sales paid by QR code, as written in backend-bun/src/services/          *)
(* pos_qr_service.ts: the cart waits in payment_intents until the gateway  *)
(* reports the payment, then confirmPosQrSale claims the intent (phase A), *)
(* runs checkout() in its own transaction (phase B) and stamps the receipt *)
(* on the intent (phase C).                                                *)
(*                                                                         *)
(* A worker is one HTTP request in flight.  Phase A locks one row, decides *)
(* and commits without touching anything else, so it is one step, like the *)
(* single statements.  checkout() is reduced to whether it commits a       *)
(* receipt; its row of pos_checkout_transactions is the sale's log entry.  *)
(***************************************************************************)
EXTENDS Integers

CONSTANTS
  Sales,        \* POS intents (ref codes) that may be created
  Workers,      \* requests in flight; bounds the concurrency
  MaxFaults,    \* bound on database errors and crashes
  MaxLostReads, \* bound on checkouts that commit and then fail to read back
  NoSale

ASSUME ConstantsAssumption ==
  /\ MaxFaults \in Nat
  /\ MaxLostReads \in Nat
  /\ NoSale \notin Sales

VARIABLES
  status,    \* payment_intents.status; "none" before the row exists
  txnNo,     \* whether payment_intents.txn_no is stored
  via,       \* payment_intents.confirmed_via: the claim on the sale
  stamp,     \* payment_intents.receipt_id; 0 is NULL
  receipts,  \* number of receipts checkout() committed for the sale
  log,       \* pos_checkout_transactions.status; "none" without a row
  gateway,   \* what the gateway holds for the intent (external)
  acked,     \* whether the gateway's callback was answered with 200
  req,       \* the requests in flight
  faults, lostReads

intentVars == <<status, txnNo, via, stamp>>
counters == <<faults, lostReads>>
vars == <<status, txnNo, via, stamp, receipts, log, gateway, acked, req, faults,
          lostReads>>

CreatePoints == {"create_log", "create_gateway", "create_store", "create_cancel"}
SalePoints == {"checkout", "read_receipt", "log_success", "log_failed",
               "release", "stamp"}
Points == {"idle", "hook_cancel", "inquiry_wait", "cancel", "cancel_log", "claim"}
            \cup CreatePoints \cup SalePoints

Requests == [at : Points, on : Sales \cup {NoSale},
             from : {"none", "user", "webhook", "inquiry"}, receipt : Nat]

Idle == [at |-> "idle", on |-> NoSale, from |-> "none", receipt |-> 0]
Request(at, i, from) == [at |-> at, on |-> i, from |-> from, receipt |-> 0]

\* The cashier knows the ref code once createPosQrIntent has answered.
Offered(i) == status[i] # "none" /\ txnNo[i]

Step(w, r) == req' = [req EXCEPT ![w] = r]
Goto(w, point) == Step(w, [req[w] EXCEPT !.at = point])
Arrives(w, r) == req[w].at = "idle" /\ Step(w, r)
On(w, point, i) == req[w].at = point /\ req[w].on = i

\* A request that ends without throwing; a callback is answered with 200.
Reply(w) ==
  /\ Step(w, Idle)
  /\ acked' = IF req[w].from = "webhook"
              THEN [acked EXCEPT ![req[w].on] = TRUE]
              ELSE acked

Init ==
  /\ status = [i \in Sales |-> "none"]
  /\ txnNo = [i \in Sales |-> FALSE]
  /\ via = [i \in Sales |-> "none"]
  /\ stamp = [i \in Sales |-> 0]
  /\ receipts = [i \in Sales |-> 0]
  /\ log = [i \in Sales |-> "none"]
  /\ gateway = [i \in Sales |-> "absent"]
  /\ acked = [i \in Sales |-> FALSE]
  /\ req = [w \in Workers |-> Idle]
  /\ faults = 0
  /\ lostReads = 0

-----------------------------------------------------------------------------
(* createPosQrIntent *)

CreateInsert(w, i) ==
  /\ status[i] = "none"
  /\ Arrives(w, Request("create_log", i, "user"))
  /\ status' = [status EXCEPT ![i] = "pending"]
  /\ UNCHANGED <<txnNo, via, stamp, receipts, log, gateway, acked, counters>>

\* startTransaction: the row of the Transactions tab.
CreateLog(w, i) ==
  /\ On(w, "create_log", i)
  /\ log' = [log EXCEPT ![i] = "pending"]
  /\ Goto(w, "create_gateway")
  /\ UNCHANGED <<intentVars, receipts, gateway, acked, counters>>

\* The gateway opens a transaction, refuses it, or opens it and its answer is
\* lost.
CreateAtGateway(w, i) ==
  /\ On(w, "create_gateway", i)
  /\ \/ gateway' = [gateway EXCEPT ![i] = "open"] /\ Goto(w, "create_store")
     \/ gateway' = [gateway EXCEPT ![i] = "open"] /\ Goto(w, "create_cancel")
     \/ UNCHANGED gateway /\ Goto(w, "create_cancel")
  /\ UNCHANGED <<intentVars, receipts, log, acked, counters>>

CreateStore(w, i) ==
  /\ On(w, "create_store", i)
  /\ txnNo' = [txnNo EXCEPT ![i] = TRUE]
  /\ Reply(w)
  /\ UNCHANGED <<status, via, stamp, receipts, log, gateway, counters>>

CreateCancel(w, i) ==
  /\ On(w, "create_cancel", i)
  /\ status' = [status EXCEPT ![i] = "cancelled"]
  /\ Goto(w, "cancel_log")
  /\ UNCHANGED <<txnNo, via, stamp, receipts, log, gateway, acked, counters>>

-----------------------------------------------------------------------------
(* handleBayCallback for a POS sale, inquireQrIntent, cancelling *)

\* Faulty: the sale is confirmed whatever the callback reports.
HookReceiveTrusting(w, i) ==
  /\ gateway[i] \in {"completed", "failed"}
  /\ ~acked[i]
  /\ status[i] \notin {"none", "confirmed"}
  /\ Arrives(w, Request("claim", i, "webhook"))
  /\ UNCHANGED <<intentVars, receipts, log, gateway, acked, counters>>

\* A callback of the gateway, delivered again until it is answered with 200.
HookReceive(w, i) ==
  /\ gateway[i] \in {"completed", "failed"}
  /\ ~acked[i]
  /\ status[i] \notin {"none", "confirmed"}
  /\ Arrives(w, Request(IF gateway[i] = "completed" THEN "claim" ELSE "hook_cancel",
                        i, "webhook"))
  /\ UNCHANGED <<intentVars, receipts, log, gateway, acked, counters>>

HookKnown(w, i) ==
  /\ req[w].at = "idle"
  /\ gateway[i] \in {"completed", "failed"}
  /\ status[i] = "confirmed"
  /\ acked' = [acked EXCEPT ![i] = TRUE]
  /\ UNCHANGED <<intentVars, receipts, log, gateway, req, counters>>

\* The FAILED callback sets the status by ref code, whatever it is, and leaves
\* the log entry alone.
HookCancel(w, i) ==
  /\ On(w, "hook_cancel", i)
  /\ status' = [status EXCEPT ![i] = "cancelled"]
  /\ Reply(w)
  /\ UNCHANGED <<txnNo, via, stamp, receipts, log, gateway, counters>>

InquiryAsk(w, i) ==
  /\ Offered(i)
  /\ status[i] = "pending"
  /\ Arrives(w, Request("inquiry_wait", i, "inquiry"))
  /\ UNCHANGED <<intentVars, receipts, log, gateway, acked, counters>>

\* A transaction the gateway purged is an error (404) to the cashier.
InquiryAnswer(w, i) ==
  /\ On(w, "inquiry_wait", i)
  /\ \/ gateway[i] = "completed" /\ Goto(w, "claim")
     \/ gateway[i] = "failed" /\ Goto(w, "cancel")
     \/ gateway[i] \in {"open", "purged"} /\ Step(w, Idle)
  /\ UNCHANGED <<intentVars, receipts, log, gateway, acked, counters>>

CancelAsk(w, i) ==
  /\ Offered(i)
  /\ Arrives(w, Request("cancel", i, "user"))
  /\ UNCHANGED <<intentVars, receipts, log, gateway, acked, counters>>

\* Faulty: the status is not looked at.
CancelAnyStatus(w, i) ==
  /\ On(w, "cancel", i)
  /\ status' = [status EXCEPT ![i] = "cancelled"]
  /\ Goto(w, "cancel_log")
  /\ UNCHANGED <<txnNo, via, stamp, receipts, log, gateway, acked, counters>>

\* cancelPosQrIntent: UPDATE ... WHERE status = 'pending'.
Cancel(w, i) ==
  /\ On(w, "cancel", i)
  /\ status' = [status EXCEPT ![i] = IF @ = "pending" THEN "cancelled" ELSE @]
  /\ Goto(w, "cancel_log")
  /\ UNCHANGED <<txnNo, via, stamp, receipts, log, gateway, acked, counters>>

\* The cashier gives up on the QR screen: only the log entry is cancelled.
Abandon(w, i) ==
  /\ Offered(i)
  /\ Arrives(w, Request("cancel_log", i, "user"))
  /\ UNCHANGED <<intentVars, receipts, log, gateway, acked, counters>>

\* Faulty: the log entry is cancelled whatever it says.
CancelLogAnyStatus(w, i) ==
  /\ On(w, "cancel_log", i)
  /\ log' = [log EXCEPT ![i] = "cancelled"]
  /\ Reply(w)
  /\ UNCHANGED <<intentVars, receipts, gateway, counters>>

\* markTransactionCancelledByRefCode.
CancelLog(w, i) ==
  /\ On(w, "cancel_log", i)
  /\ log' = [log EXCEPT ![i] = IF @ = "pending" THEN "cancelled" ELSE @]
  /\ Reply(w)
  /\ UNCHANGED <<intentVars, receipts, gateway, counters>>

-----------------------------------------------------------------------------
(* confirmPosQrSale *)

\* Faulty: a claim in flight does not keep others away.
SkippedUnlessClaimed(i) == stamp[i] # 0 \/ status[i] = "cancelled"

Skipped(i) == stamp[i] # 0 \/ status[i] = "cancelled" \/ via[i] = "claimed"

\* Phase A: a stamped, cancelled or claimed sale is left alone, and the caller
\* is told that all is well.
ClaimSkip(w, i) ==
  /\ On(w, "claim", i)
  /\ Skipped(i)
  /\ Reply(w)
  /\ UNCHANGED <<intentVars, receipts, log, gateway, counters>>

Claim(w, i) ==
  /\ On(w, "claim", i)
  /\ ~Skipped(i)
  /\ via' = [via EXCEPT ![i] = "claimed"]
  /\ Goto(w, "checkout")
  /\ UNCHANGED <<status, txnNo, stamp, receipts, log, gateway, acked, counters>>

\* Phase B: checkout() commits the receipt, then reads it back.
CheckoutCommits(w, i) ==
  /\ On(w, "checkout", i)
  /\ receipts' = [receipts EXCEPT ![i] = @ + 1]
  /\ Step(w, [req[w] EXCEPT !.at = "read_receipt", !.receipt = receipts'[i]])
  /\ UNCHANGED <<intentVars, log, gateway, acked, counters>>

\* checkout() throws before its commit: out of stock, unknown product, ...
CheckoutThrows(w, i) ==
  /\ On(w, "checkout", i)
  /\ Goto(w, "log_failed")
  /\ UNCHANGED <<intentVars, receipts, log, gateway, acked, counters>>

ReadReceipt(w, i) ==
  /\ On(w, "read_receipt", i)
  /\ Goto(w, "log_success")
  /\ UNCHANGED <<intentVars, receipts, log, gateway, acked, counters>>

\* getReceipt fails after the commit: checkout() throws all the same.
ReadReceiptFails(w, i) ==
  /\ On(w, "read_receipt", i)
  /\ lostReads < MaxLostReads
  /\ lostReads' = lostReads + 1
  /\ Goto(w, "log_failed")
  /\ UNCHANGED <<intentVars, receipts, log, gateway, acked, faults>>

\* markTransactionSuccess and markTransactionFailed find the entry by its ref
\* code and look at nothing else.
LogOutcome(w, i) ==
  /\ \/ /\ On(w, "log_success", i)
        /\ log' = [log EXCEPT ![i] = IF @ = "none" THEN @ ELSE "success"]
        /\ Goto(w, "stamp")
     \/ /\ On(w, "log_failed", i)
        /\ log' = [log EXCEPT ![i] = IF @ = "none" THEN @ ELSE "failed"]
        /\ Goto(w, "release")
  /\ UNCHANGED <<intentVars, receipts, gateway, acked, counters>>

\* Faulty: the claim is kept when checkout throws.
ReleaseNothing(w, i) ==
  /\ On(w, "release", i)
  /\ Step(w, Idle)
  /\ UNCHANGED <<intentVars, receipts, log, gateway, acked, counters>>

\* The claim is released for a retry and the error thrown on.
Release(w, i) ==
  /\ On(w, "release", i)
  /\ via' = [via EXCEPT ![i] = IF stamp[i] = 0 THEN "failed" ELSE @]
  /\ Step(w, Idle)
  /\ UNCHANGED <<status, txnNo, stamp, receipts, log, gateway, acked, counters>>

\* Phase C: UPDATE ... WHERE receipt_id IS NULL, whatever the status.
Stamp(w, i) ==
  /\ On(w, "stamp", i)
  /\ IF stamp[i] = 0
     THEN /\ status' = [status EXCEPT ![i] = "confirmed"]
          /\ via' = [via EXCEPT ![i] = "webhook"]
          /\ stamp' = [stamp EXCEPT ![i] = req[w].receipt]
     ELSE UNCHANGED <<status, via, stamp>>
  /\ Reply(w)
  /\ UNCHANGED <<txnNo, receipts, log, gateway, counters>>

-----------------------------------------------------------------------------
(* Faults, and the gateway (external) *)

\* Where a request goes on after a database error: errors of the log are
\* swallowed, checkout's release the claim, creation's cancel the intent.
AfterError(w) ==
  CASE req[w].at = "create_log"     -> "create_gateway"
    [] req[w].at = "create_store"   -> "create_cancel"
    [] req[w].at = "create_cancel"  -> "cancel_log"
    [] req[w].at = "checkout"       -> "log_failed"
    [] req[w].at = "log_success"    -> "stamp"
    [] req[w].at = "log_failed"     -> "release"
    [] OTHER                        -> "idle"

RequestFails(w) ==
  /\ req[w].at \notin {"idle", "read_receipt", "cancel_log"}
  /\ faults < MaxFaults
  /\ faults' = faults + 1
  /\ IF AfterError(w) = "idle" THEN Step(w, Idle) ELSE Goto(w, AfterError(w))
  /\ UNCHANGED <<intentVars, receipts, log, gateway, acked, lostReads>>

\* The error of the log is swallowed and the request answers as usual.
CancelLogFails(w, i) ==
  /\ On(w, "cancel_log", i)
  /\ faults < MaxFaults
  /\ faults' = faults + 1
  /\ Reply(w)
  /\ UNCHANGED <<intentVars, receipts, log, gateway, lostReads>>

\* The server process dies: every request is lost, a claim stays.
ServerCrash ==
  /\ faults < MaxFaults
  /\ faults' = faults + 1
  /\ req' = [w \in Workers |-> Idle]
  /\ UNCHANGED <<intentVars, receipts, log, gateway, acked, lostReads>>

\* The customer pays, or the transaction fails, expires or is purged.
GatewaySettles(i) ==
  /\ gateway[i] = "open"
  /\ \/ txnNo[i] /\ gateway' = [gateway EXCEPT ![i] = "completed"]
     \/ gateway' = [gateway EXCEPT ![i] = "failed"]
     \/ gateway' = [gateway EXCEPT ![i] = "purged"]
  /\ UNCHANGED <<intentVars, receipts, log, acked, req, counters>>

-----------------------------------------------------------------------------

Create(w, i) ==
  CreateLog(w, i) \/ CreateAtGateway(w, i) \/ CreateStore(w, i) \/ CreateCancel(w, i)
ConfirmPosQrSale(w, i) ==
  \/ ClaimSkip(w, i) \/ Claim(w, i) \/ CheckoutCommits(w, i) \/ CheckoutThrows(w, i)
  \/ ReadReceipt(w, i) \/ LogOutcome(w, i) \/ Release(w, i) \/ Stamp(w, i)

\* The steps a request in flight takes by itself.
Run(w) ==
  \E i \in Sales :
    \/ Create(w, i) \/ HookCancel(w, i) \/ InquiryAnswer(w, i) \/ Cancel(w, i)
    \/ CancelLog(w, i) \/ ConfirmPosQrSale(w, i)

Arrive(w, i) ==
  \/ CreateInsert(w, i) \/ HookReceive(w, i) \/ HookKnown(w, i) \/ InquiryAsk(w, i)
  \/ CancelAsk(w, i) \/ Abandon(w, i)

Fault(w) ==
  RequestFails(w) \/ \E i \in Sales : ReadReceiptFails(w, i) \/ CancelLogFails(w, i)

Next ==
  \/ \E w \in Workers : Run(w) \/ Fault(w)
  \/ \E w \in Workers, i \in Sales : Arrive(w, i)
  \/ ServerCrash
  \/ \E i \in Sales : GatewaySettles(i)

Spec == Init /\ [][Next]_vars

\* Every request in flight runs on, and a checkout tried again and again goes
\* through in the end (the shop restocks, the database is back).
RequestsRun ==
  /\ \A w \in Workers : WF_vars(Run(w))
  /\ \A w \in Workers, i \in Sales : SF_vars(CheckoutCommits(w, i))

\* Most polls of the QR screen read the local status; every few of them are an
\* inquiry, for as long as the screen is open (QrPaymentModal.tsx:165-176).  After
\* that a person asks, with "Check Now" in the Transactions tab: an assumption
\* about the people at the till as much as about the program.
CashierChecks == \A i \in Sales : SF_vars(\E w \in Workers : InquiryAsk(w, i))

CashierSpec == Spec /\ RequestsRun /\ CashierChecks

-----------------------------------------------------------------------------
(* Properties *)

TypeOK ==
  /\ status \in [Sales -> {"none", "pending", "confirmed", "cancelled"}]
  /\ txnNo \in [Sales -> BOOLEAN]
  /\ via \in [Sales -> {"none", "claimed", "failed", "webhook"}]
  /\ stamp \in [Sales -> Nat]
  /\ receipts \in [Sales -> Nat]
  /\ log \in [Sales -> {"none", "pending", "success", "failed", "cancelled"}]
  /\ gateway \in [Sales -> {"absent", "open", "completed", "failed", "purged"}]
  /\ acked \in [Sales -> BOOLEAN]
  /\ req \in [Workers -> Requests]
  /\ faults \in 0..MaxFaults
  /\ lostReads \in 0..MaxLostReads

\* "No double-checkout": duplicate callbacks, inquiries, retries and crashes in
\* any phase make at most one receipt for one payment.
ReceiptOnce == \A i \in Sales : receipts[i] <= 1

\* The same, as long as no committed checkout failed to read its receipt back.
ReceiptOnceIfRead == lostReads = 0 => ReceiptOnce

\* Goods leave only for money that came: a receipt exists only for a payment
\* the gateway completed.
ReceiptIsPaid == \A i \in Sales : receipts[i] > 0 => gateway[i] = "completed"

\* The intent a cashier sees as confirmed has its receipt, and a stamped sale
\* can no longer be cancelled.
ConfirmedIsStamped ==
  \A i \in Sales : status[i] = "confirmed" <=> stamp[i] \in 1..receipts[i]

\* "if it does, checkout()'s markTransactionSuccess call flips this same row
\* back to 'success'": however the cashier cancelled or gave up meanwhile, a
\* sale that was stamped is logged as a success.
SoldIsLogged ==
  \A i \in Sales : stamp[i] # 0 /\ faults = 0 => log[i] = "success"

\* A claim whose request died: the source leaves such a sale to an operator.
Orphaned(i) ==
  faults > 0 /\ via[i] = "claimed" /\ \A w \in Workers : ~(req[w].at \in SalePoints /\ req[w].on = i)

\* A paid sale that nobody cancels gets its receipt, although its checkout may
\* fail and be repeated, as long as the cashier checks and no crash orphans its
\* claim.
PaidIsSold ==
  \A i \in Sales :
    gateway[i] = "completed" ~> stamp[i] # 0 \/ status[i] = "cancelled" \/ Orphaned(i)

\* "Cancelled intent -- never produce a receipt".
CancelledMakesNoReceipt ==
  [][\A i \in Sales : status[i] = "cancelled" => receipts'[i] = receipts[i]]_vars

-----------------------------------------------------------------------------
(* The inductive invariant behind the safety properties *)

\* A request in flight is about a sale that exists.
RequestsKnowSales ==
  \A w \in Workers : req[w].at # "idle" =>
    req[w].on \in Sales /\ status[req[w].on] # "none"

\* One request creates a sale, and the sale cannot be paid until it is done.
CreationsAgree ==
  \A w \in Workers : req[w].at \in CreatePoints =>
    /\ ~txnNo[req[w].on]
    /\ req[w].at \in {"create_log", "create_gateway"} => gateway[req[w].on] = "absent"
    /\ \A v \in Workers :
         req[v].at \in CreatePoints /\ req[v].on = req[w].on => v = w

\* What the gateway reported is final.
ReportsAgree ==
  \A w \in Workers :
    /\ req[w].at = "claim" => gateway[req[w].on] = "completed"
    /\ req[w].at = "hook_cancel" => gateway[req[w].on] = "failed"

\* Between the claim and the stamp a sale belongs to one request, which holds
\* the claim; until its checkout commits the sale has no receipt.
Committed == {"read_receipt", "log_success", "stamp"}
ClaimsAgree ==
  \A w \in Workers : req[w].at \in SalePoints =>
    /\ via[req[w].on] = "claimed"
    /\ gateway[req[w].on] = "completed"
    /\ \A v \in Workers :
         req[v].at \in SalePoints /\ req[v].on = req[w].on => v = w
    /\ req[w].at \in Committed => req[w].receipt \in 1..receipts[req[w].on]
    /\ req[w].at \notin Committed /\ lostReads = 0 => receipts[req[w].on] = 0

\* A sale that is neither claimed nor stamped has no receipt, and no second one
\* is made.  A row that does not exist has nothing.
SalesAgree ==
  \A i \in Sales :
    /\ lostReads = 0 => receipts[i] \in {0, 1}
    /\ lostReads = 0 /\ via[i] \in {"none", "failed"} => receipts[i] = 0
    /\ stamp[i] \in 0..receipts[i]
    /\ stamp[i] # 0 <=> via[i] = "webhook"
    /\ gateway[i] = "completed" => txnNo[i]
    /\ status[i] = "none" => gateway[i] = "absent" /\ ~txnNo[i]

SalesInv ==
  /\ TypeOK
  /\ RequestsKnowSales
  /\ CreationsAgree
  /\ ReportsAgree
  /\ ClaimsAgree
  /\ SalesAgree
  /\ ReceiptIsPaid
  /\ ConfirmedIsStamped

\* Without errors and crashes a sale that can be paid has its log entry, and the
\* entry says success from before the stamp on.
LogsAgree ==
  faults = 0 =>
    /\ \A i \in Sales : txnNo[i] => log[i] # "none"
    /\ \A w \in Workers :
         /\ req[w].at \in CreatePoints \ {"create_log"} => log[req[w].on] # "none"
         /\ req[w].at = "stamp" => log[req[w].on] = "success"
    /\ \A i \in Sales : stamp[i] # 0 => log[i] = "success"

IInv == SalesInv /\ LogsAgree
=============================================================================
