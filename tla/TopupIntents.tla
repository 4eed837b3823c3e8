---------------------------- MODULE TopupIntents ----------------------------
(***************************************************************************)
(* Wallet top-ups through the BAY/PYMT payment gateway, as written in      *)
(* backend-bun/src/services/topup_service.ts.                              *)
(*                                                                         *)
(* A payment intent is a row of payment_intents; a credit is a TOPUP row   *)
(* of wallet_transactions together with the new wallets.balance.  Requests *)
(* run concurrently in one event loop and on up to ten database            *)
(* connections: a "worker" is one request (or one sweep) in flight, and    *)
(* its program points are the places where the code awaits the database or *)
(* the gateway.  SELECT ... FOR UPDATE and every UPDATE wait for the row   *)
(* lock another transaction holds; a plain SELECT does not.                *)
(***************************************************************************)
EXTENDS Integers, Sequences, FiniteSets

CONSTANTS
  Intents,          \* payment intents (ref codes) that may be created
  BayIntents,       \* those paid through BAY; the others are mock QR
  Wallets,
  Workers,          \* requests in flight; bounds the concurrency
  WalletOf,         \* wallet an intent tops up
  Amount,           \* amount of an intent
  Opening,          \* opening balance of a wallet
  MAX_WALLET_BALANCE,
  SweepLimit,       \* LIMIT of the reconciliation scan
  MaxFaults,        \* bound on database errors, gateway errors and crashes
  NoIntent, NoWorker

ASSUME ConstantsAssumption ==
  /\ IsFiniteSet(Intents)
  /\ BayIntents \subseteq Intents
  /\ WalletOf \in [Intents -> Wallets]
  /\ Amount \in [Intents -> Nat \ {0}]
  /\ Opening \in [Wallets -> Nat]
  /\ MAX_WALLET_BALANCE \in Nat
  /\ SweepLimit \in Nat
  /\ MaxFaults \in Nat
  /\ NoIntent \notin Intents
  /\ NoWorker \notin Workers

VARIABLES
  status,      \* payment_intents.status; "none" before the row exists
  created,     \* payment_intents.created_at, as a rank
  txnNo,       \* whether payment_intents.txn_no is stored
  balance,     \* wallets.balance
  ledger,      \* the wallet's TOPUP rows of wallet_transactions, in order
  gateway,     \* what the gateway holds for the intent (external)
  acked,       \* whether the gateway's callback was answered with 200
  rowLock,     \* transaction holding the payment_intents row
  walletLock,  \* transaction holding the wallets row
  req,         \* the requests in flight
  faults       \* number of injected faults so far

intentVars == <<status, created, txnNo>>
walletVars == <<balance, ledger>>
lockVars   == <<rowLock, walletLock>>
vars == <<status, created, txnNo, balance, ledger, gateway, acked, rowLock,
          walletLock, req, faults>>

Points == {"idle", "create_insert", "create_gateway", "create_store",
           "create_cancel", "inquiry_wait", "sweep_next", "sweep_wait",
           "cancel_write", "confirm_intent", "confirm_wallet",
           "confirm_commit"}

\* A sweep is the scheduler's or an administrator's.
Sweeps == {"sweep", "admin"}

Channels == Sweeps \cup {"none", "webhook", "inquiry", "parent", "user"}

Requests == [at : Points, on : Intents \cup {NoIntent}, via : Channels,
             todo : SUBSET Intents, read : Nat]

Idle == [at |-> "idle", on |-> NoIntent, via |-> "none", todo |-> {}, read |-> 0]

Request(at, i, via) ==
  [at |-> at, on |-> i, via |-> via, todo |-> {}, read |-> 0]

Sweeping(by, at, i, todo) ==
  [at |-> at, on |-> i, via |-> by, todo |-> todo, read |-> 0]

RowFree(i) == rowLock[i] = NoWorker

\* The client learns the ref code and the QR code with the response of
\* createTopupIntent, so nothing can be asked about an intent before it.
Offered(i) == status[i] # "none" /\ (txnNo[i] \/ i \notin BayIntents)

\* Where a worker continues once it is done with its intent, in success or in
\* a caught error: the sweep takes the next one, any other request ends.
Rest(w) ==
  IF req[w].via \in Sweeps
  THEN Sweeping(req[w].via, "sweep_next", NoIntent, req[w].todo)
  ELSE Idle

Continue(w, r) == req' = [req EXCEPT ![w] = r]

\* The same request at its next program point.
At(w, point) == [req[w] EXCEPT !.at = point]

\* A webhook request that ends without throwing is answered with 200.
Reply(w) ==
  /\ Continue(w, Rest(w))
  /\ acked' = IF req[w].via = "webhook"
              THEN [acked EXCEPT ![req[w].on] = TRUE]
              ELSE acked

Init ==
  /\ status = [i \in Intents |-> "none"]
  /\ created = [i \in Intents |-> 0]
  /\ txnNo = [i \in Intents |-> FALSE]
  /\ balance = Opening
  /\ ledger = [x \in Wallets |-> <<>>]
  /\ gateway = [i \in Intents |-> "absent"]
  /\ acked = [i \in Intents |-> FALSE]
  /\ rowLock = [i \in Intents |-> NoWorker]
  /\ walletLock = [x \in Wallets |-> NoWorker]
  /\ req = [w \in Workers |-> Idle]
  /\ faults = 0

-----------------------------------------------------------------------------
(* createTopupIntent *)

\* The cap is checked once, against an unlocked read of the balance.
CreateCheckCap(w, i) ==
  /\ req[w].at = "idle"
  /\ status[i] = "none"
  /\ \A v \in Workers : req[v].on # i
  /\ balance[WalletOf[i]] + Amount[i] <= MAX_WALLET_BALANCE
  /\ Continue(w, Request("create_insert", i, "user"))
  /\ UNCHANGED <<intentVars, walletVars, gateway, acked, lockVars, faults>>

CreateInsert(w) ==
  LET i == req[w].on IN
  /\ req[w].at = "create_insert"
  /\ status' = [status EXCEPT ![i] = "pending"]
  /\ created' = [created EXCEPT ![i] =
                   1 + Cardinality({j \in Intents : status[j] # "none"})]
  /\ Continue(w, IF i \in BayIntents THEN At(w, "create_gateway") ELSE Idle)
  /\ UNCHANGED <<txnNo, walletVars, gateway, acked, lockVars, faults>>

\* createQrPayment / createEasyPay registers the transaction at the gateway, or
\* throws PymtGatewayError (possibly after the gateway registered it).
CreateAtGateway(w) ==
  LET i == req[w].on IN
  /\ req[w].at = "create_gateway"
  /\ \/ /\ gateway' = [gateway EXCEPT ![i] = "open"]
        /\ Continue(w, At(w, "create_store"))
        /\ UNCHANGED faults
     \/ /\ faults < MaxFaults
        /\ faults' = faults + 1
        /\ gateway' \in {gateway, [gateway EXCEPT ![i] = "open"]}
        /\ Continue(w, At(w, "create_cancel"))
  /\ UNCHANGED <<intentVars, walletVars, acked, lockVars>>

CreateStore(w) ==
  LET i == req[w].on IN
  /\ req[w].at = "create_store"
  /\ RowFree(i)
  /\ txnNo' = [txnNo EXCEPT ![i] = TRUE]
  /\ Continue(w, Idle)
  /\ UNCHANGED <<status, created, walletVars, gateway, acked, lockVars, faults>>

CreateCancel(w) ==
  LET i == req[w].on IN
  /\ req[w].at = "create_cancel"
  /\ RowFree(i)
  /\ status' = [status EXCEPT ![i] = "cancelled"]
  /\ Continue(w, Idle)
  /\ UNCHANGED <<created, txnNo, walletVars, gateway, acked, lockVars, faults>>

-----------------------------------------------------------------------------
(* handleBayCallback: the gateway delivers its final status at least once. *)

HookReceive(w, i) ==
  /\ req[w].at = "idle"
  /\ gateway[i] \in {"completed", "failed"}
  /\ IF status[i] = "confirmed"
     THEN /\ acked' = [acked EXCEPT ![i] = TRUE]
          /\ UNCHANGED req
     ELSE /\ Continue(w, Request(IF gateway[i] = "completed" THEN "confirm_intent"
                                                             ELSE "cancel_write",
                                 i, "webhook"))
          /\ UNCHANGED acked
  /\ UNCHANGED <<intentVars, walletVars, gateway, lockVars, faults>>

\* An EASYPay callback is matched on txn_no; a row that lost it is not found,
\* and the callback is answered with 200.
HookUnknown(w, i) ==
  /\ req[w].at = "idle"
  /\ gateway[i] \in {"completed", "failed"}
  /\ ~txnNo[i]
  /\ acked' = [acked EXCEPT ![i] = TRUE]
  /\ UNCHANGED <<intentVars, walletVars, gateway, lockVars, req, faults>>

-----------------------------------------------------------------------------
(* inquireTopupFromGateway: the status read before the gateway is asked    *)
(* decides what is done with its answer.                                   *)

InquiryAsk(w, i) ==
  /\ req[w].at = "idle"
  /\ Offered(i)
  /\ i \in BayIntents
  /\ status[i] = "pending"
  /\ Continue(w, Request("inquiry_wait", i, "inquiry"))
  /\ UNCHANGED <<intentVars, walletVars, gateway, acked, lockVars, faults>>

InquiryAnswer(w) ==
  LET i == req[w].on IN
  /\ req[w].at = "inquiry_wait"
  /\ \/ gateway[i] = "completed" /\ Continue(w, At(w, "confirm_intent"))
     \/ gateway[i] = "failed" /\ Continue(w, At(w, "cancel_write"))
     \/ gateway[i] \notin {"completed", "failed"} /\ Continue(w, Idle)
  /\ UNCHANGED <<intentVars, walletVars, gateway, acked, lockVars, faults>>

-----------------------------------------------------------------------------
(* reconcilePendingTopups with dryRun = false; a dry run changes nothing.  *)

SweepCandidates ==
  {i \in BayIntents : status[i] = "pending" /\ txnNo[i]}

\* ORDER BY created_at under a created_at cutoff and a LIMIT: a prefix of the
\* candidates in creation order.
IsScan(S) ==
  /\ S # {}
  /\ S \subseteq SweepCandidates
  /\ \A i \in S, j \in SweepCandidates : created[j] < created[i] => j \in S

SweepScan(w, by, S) ==
  /\ req[w].at = "idle"
  /\ IsScan(S)
  /\ Continue(w, Sweeping(by, "sweep_next", NoIntent, S))
  /\ UNCHANGED <<intentVars, walletVars, gateway, acked, lockVars, faults>>

\* The scheduler has a fixed limit, and skips a tick while its last sweep runs.
ScheduledSweep(w, S) ==
  /\ \A v \in Workers : req[v].via # "sweep"
  /\ Cardinality(S) <= SweepLimit
  /\ SweepScan(w, "sweep", S)

\* The administrator's endpoint asks for any limit at any time.
AdminSweep(w, S) == SweepScan(w, "admin", S)

StartsSweep(w, S) == ScheduledSweep(w, S) \/ AdminSweep(w, S)

SweepNext(w) ==
  /\ req[w].at = "sweep_next" /\ req[w].via \in Sweeps
  /\ IF req[w].todo = {}
     THEN Continue(w, Idle)
     ELSE \E i \in req[w].todo :
            /\ \A j \in req[w].todo : created[i] <= created[j]
            /\ Continue(w, Sweeping(req[w].via, "sweep_wait", i, req[w].todo \ {i}))
  /\ UNCHANGED <<intentVars, walletVars, gateway, acked, lockVars, faults>>

\* Faulty: a 404 of the gateway is skipped and retried by the next sweep.
SweepAnswerRetrying404(w) ==
  LET i == req[w].on IN
  /\ req[w].at = "sweep_wait"
  /\ \/ gateway[i] = "completed" /\ Continue(w, At(w, "confirm_intent"))
     \/ gateway[i] = "failed" /\ Continue(w, At(w, "cancel_write"))
     \/ gateway[i] \notin {"completed", "failed"} /\ Continue(w, Rest(w))
  /\ UNCHANGED <<intentVars, walletVars, gateway, acked, lockVars, faults>>

\* A 404 of the gateway ("purged") cancels like an explicit failure does; a
\* status still open, or an inquiry error, leaves the intent for a later sweep.
SweepAnswer(w) ==
  LET i == req[w].on IN
  /\ req[w].at = "sweep_wait"
  /\ \/ gateway[i] = "completed" /\ Continue(w, At(w, "confirm_intent"))
     \/ gateway[i] \in {"failed", "purged"} /\ Continue(w, At(w, "cancel_write"))
     \/ gateway[i] \notin {"completed", "failed", "purged"} /\ Continue(w, Rest(w))
  /\ UNCHANGED <<intentVars, walletVars, gateway, acked, lockVars, faults>>

-----------------------------------------------------------------------------
(* cancelTopupIntent and parentConfirm *)

CancelRead(w, i) ==
  /\ req[w].at = "idle"
  /\ Offered(i)
  /\ status[i] = "pending"
  /\ Continue(w, Request("cancel_write", i, "user"))
  /\ UNCHANGED <<intentVars, walletVars, gateway, acked, lockVars, faults>>

ParentConfirm(w, i) ==
  /\ req[w].at = "idle"
  /\ Offered(i)
  /\ Continue(w, Request("confirm_intent", i, "parent"))
  /\ UNCHANGED <<intentVars, walletVars, gateway, acked, lockVars, faults>>

\* Faulty: the UPDATE does not wait for the row lock.
CancelWriteUnlocked(w) ==
  LET i == req[w].on IN
  /\ req[w].at = "cancel_write"
  /\ status' = [status EXCEPT ![i] = "cancelled"]
  /\ Reply(w)
  /\ UNCHANGED <<created, txnNo, walletVars, gateway, lockVars, faults>>

\* UPDATE payment_intents SET status = 'cancelled' WHERE id = ...: it waits for
\* the row lock but does not look at the status it overwrites.
CancelWrite(w) ==
  LET i == req[w].on IN
  /\ req[w].at = "cancel_write"
  /\ RowFree(i)
  /\ status' = [status EXCEPT ![i] = "cancelled"]
  /\ Reply(w)
  /\ UNCHANGED <<created, txnNo, walletVars, gateway, lockVars, faults>>

-----------------------------------------------------------------------------
(* confirmTopup: one transaction *)

\* Faulty: the status is not checked under the lock.
ConfirmLockIntentUnchecked(w) ==
  LET i == req[w].on IN
  /\ req[w].at = "confirm_intent"
  /\ RowFree(i)
  /\ rowLock' = [rowLock EXCEPT ![i] = w]
  /\ Continue(w, At(w, "confirm_wallet"))
  /\ UNCHANGED <<intentVars, walletVars, gateway, acked, walletLock, faults>>

ConfirmLockIntent(w) ==
  LET i == req[w].on IN
  /\ req[w].at = "confirm_intent"
  /\ RowFree(i)
  /\ status[i] = "pending"
  /\ rowLock' = [rowLock EXCEPT ![i] = w]
  /\ Continue(w, At(w, "confirm_wallet"))
  /\ UNCHANGED <<intentVars, walletVars, gateway, acked, walletLock, faults>>

\* ALREADY_PROCESSED rolls the transaction back; the webhook swallows it.
ConfirmAlreadyProcessed(w) ==
  LET i == req[w].on IN
  /\ req[w].at = "confirm_intent"
  /\ RowFree(i)
  /\ status[i] # "pending"
  /\ Reply(w)
  /\ UNCHANGED <<intentVars, walletVars, gateway, lockVars, faults>>

\* Faulty: the wallet is read without FOR UPDATE.
ConfirmReadWallet(w) ==
  LET x == WalletOf[req[w].on] IN
  /\ req[w].at = "confirm_wallet"
  /\ Continue(w, [At(w, "confirm_commit") EXCEPT !.read = balance[x]])
  /\ UNCHANGED <<intentVars, walletVars, gateway, acked, lockVars, faults>>

ConfirmLockWallet(w) ==
  LET x == WalletOf[req[w].on] IN
  /\ req[w].at = "confirm_wallet"
  /\ walletLock[x] = NoWorker
  /\ walletLock' = [walletLock EXCEPT ![x] = w]
  /\ Continue(w, [At(w, "confirm_commit") EXCEPT !.read = balance[x]])
  /\ UNCHANGED <<intentVars, walletVars, gateway, acked, rowLock, faults>>

ConfirmCommit(w) ==
  LET i == req[w].on
      x == WalletOf[i]
      after == req[w].read + Amount[i]
  IN
  /\ req[w].at = "confirm_commit"
  /\ balance' = [balance EXCEPT ![x] = after]
  /\ ledger' = [ledger EXCEPT ![x] =
                  Append(@, [intent |-> i, before |-> req[w].read, after |-> after])]
  /\ status' = [status EXCEPT ![i] = "confirmed"]
  /\ rowLock' = [rowLock EXCEPT ![i] = NoWorker]
  /\ walletLock' = [walletLock EXCEPT ![x] = NoWorker]
  /\ Reply(w)
  /\ UNCHANGED <<created, txnNo, gateway, faults>>

-----------------------------------------------------------------------------
(* Faults *)

\* Faulty: a lost transaction keeps its locks.
KeptLocks(f, S) == f

Unlocked(f, S) == [r \in DOMAIN f |-> IF f[r] \in S THEN NoWorker ELSE f[r]]

\* Faulty: the webhook swallows the error of its confirmation.
RequestFailsSilently(w) ==
  /\ req[w].at # "idle"
  /\ faults < MaxFaults
  /\ faults' = faults + 1
  /\ rowLock' = Unlocked(rowLock, {w})
  /\ walletLock' = Unlocked(walletLock, {w})
  /\ Reply(w)
  /\ UNCHANGED <<intentVars, walletVars, gateway>>

\* A database or gateway error: the transaction rolls back and the error
\* reaches the controller (a webhook gets 5xx and will be redelivered).  The
\* sweep catches it around the inquiry and around confirmTopup, but not around
\* its UPDATE.
RequestFails(w) ==
  /\ req[w].at # "idle"
  /\ faults < MaxFaults
  /\ faults' = faults + 1
  /\ rowLock' = Unlocked(rowLock, {w})
  /\ walletLock' = Unlocked(walletLock, {w})
  /\ Continue(w, IF req[w].at \in {"sweep_next", "cancel_write"} THEN Idle
                                                                 ELSE Rest(w))
  /\ UNCHANGED <<intentVars, walletVars, gateway, acked>>

\* The server process dies: every request is lost, every transaction rolls back.
ServerCrash ==
  /\ faults < MaxFaults
  /\ faults' = faults + 1
  /\ rowLock' = Unlocked(rowLock, Workers)
  /\ walletLock' = Unlocked(walletLock, Workers)
  /\ req' = [w \in Workers |-> Idle]
  /\ UNCHANGED <<intentVars, walletVars, gateway, acked>>

-----------------------------------------------------------------------------
(* The gateway (external): the customer pays, or the transaction fails or  *)
(* expires, or the gateway forgets a transaction nobody completed.         *)

GatewaySettles(i) ==
  /\ gateway[i] = "open"
  /\ \/ txnNo[i] /\ gateway' = [gateway EXCEPT ![i] = "completed"]
     \/ gateway' = [gateway EXCEPT ![i] = "failed"]
     \/ gateway' = [gateway EXCEPT ![i] = "purged"]
  /\ UNCHANGED <<intentVars, walletVars, acked, lockVars, req, faults>>

-----------------------------------------------------------------------------

CreateStep(w) ==
  CreateInsert(w) \/ CreateAtGateway(w) \/ CreateStore(w) \/ CreateCancel(w)
GatewayAnswers(w) == InquiryAnswer(w) \/ SweepAnswer(w)
ConfirmTopup(w) ==
  \/ ConfirmLockIntent(w) \/ ConfirmAlreadyProcessed(w)
  \/ ConfirmLockWallet(w) \/ ConfirmCommit(w)

\* The steps a request in flight takes by itself.
Run(w) ==
  CreateStep(w) \/ GatewayAnswers(w) \/ SweepNext(w) \/ CancelWrite(w) \/ ConfirmTopup(w)

Arrive(w, i) ==
  \/ CreateCheckCap(w, i) \/ HookReceive(w, i) \/ HookUnknown(w, i)
  \/ InquiryAsk(w, i) \/ CancelRead(w, i) \/ ParentConfirm(w, i)

Next ==
  \/ \E w \in Workers : Run(w)
  \/ \E w \in Workers, i \in Intents : Arrive(w, i)
  \/ \E w \in Workers, S \in SUBSET Intents : StartsSweep(w, S)
  \/ \E w \in Workers : RequestFails(w)
  \/ ServerCrash
  \/ \E i \in Intents : GatewaySettles(i)

Spec == Init /\ [][Next]_vars

\* Every request in flight runs on (event loop, database and gateway answer).
RequestsRun == \A w \in Workers : WF_vars(Run(w))

\* PYMT redelivers a callback that was not answered with 200; the HTTP server
\* accepts it whenever it has a free request slot.
CallbacksRedelivered ==
  \A i \in Intents : SF_vars(~acked[i] /\ \E w \in Workers : HookReceive(w, i))

\* setInterval starts a sweep every ten minutes; the oldest candidate is in it.
SweepsRun ==
  \A i \in Intents : SF_vars(\E w \in Workers, S \in SUBSET Intents :
                               i \in S /\ ScheduledSweep(w, S))

\* The gateway closes every transaction: a QR code expires after three minutes,
\* an EASYPay attempt nobody completes is purged.
GatewayCloses == \A i \in Intents : WF_vars(GatewaySettles(i))

WebhookSpec == Spec /\ RequestsRun /\ CallbacksRedelivered
SweepSpec == Spec /\ RequestsRun /\ SweepsRun /\ GatewayCloses

-----------------------------------------------------------------------------
(* Properties *)

Row == [intent : Intents, before : Nat, after : Nat]

TypeOK ==
  /\ status \in [Intents -> {"none", "pending", "confirmed", "cancelled"}]
  /\ created \in [Intents -> Nat]
  /\ txnNo \in [Intents -> BOOLEAN]
  /\ balance \in [Wallets -> Nat]
  /\ ledger \in [Wallets -> Seq(Row)]
  /\ gateway \in [Intents -> {"absent", "open", "completed", "failed", "purged"}]
  /\ acked \in [Intents -> BOOLEAN]
  /\ rowLock \in [Intents -> Workers \cup {NoWorker}]
  /\ walletLock \in [Wallets -> Workers \cup {NoWorker}]
  /\ req \in [Workers -> Requests]
  /\ faults \in 0..MaxFaults

CreditsOf(i) ==
  {k \in DOMAIN ledger[WalletOf[i]] : ledger[WalletOf[i]][k].intent = i}
Credited(i) == CreditsOf(i) # {}

\* A payment is credited at most once, however many deliveries of its callback,
\* inquiries, sweeps and self-confirmations race in confirmTopup.
CreditedOnce == \A i \in Intents : \A k, l \in CreditsOf(i) : k = l

\* No credit is lost: on every wallet each TOPUP row starts from the balance the
\* previous row left, and the wallet holds what the last row says.
LedgerChains ==
  \A x \in Wallets :
    LET rows == ledger[x] IN
    /\ \A k \in DOMAIN rows :
         /\ rows[k].before = IF k = 1 THEN Opening[x] ELSE rows[k - 1].after
         /\ rows[k].after = rows[k].before + Amount[rows[k].intent]
    /\ balance[x] = IF rows = <<>> THEN Opening[x] ELSE rows[Len(rows)].after

\* getTopupStatus reports "confirmed" with a transaction: an intent is confirmed
\* only together with its credit.
ConfirmedIsCredited ==
  \A i \in Intents : status[i] = "confirmed" => Credited(i)

\* A callback answered with 200 is not delivered again, so it may not leave the
\* completed payment pending with nobody to credit it.
AcknowledgedIsSettled ==
  \A i \in Intents :
    acked[i] /\ gateway[i] = "completed" => status[i] \in {"confirmed", "cancelled"}

\* An intent that was cancelled is never credited afterwards, even by a
\* confirmTopup that had already started.
CancelledIsFinal ==
  [][\A i \in Intents : status[i] = "cancelled" =>
       status'[i] = "cancelled" /\ CreditsOf(i)' = CreditsOf(i)]_vars

\* An intent leaves "pending" for "confirmed" only together with its credit, and
\* whenever a credit is written its intent was pending until then.
CreditFlipsPending ==
  [][\A i \in Intents : CreditsOf(i)' # CreditsOf(i) =>
       status[i] = "pending" /\ status'[i] = "confirmed"]_vars

\* A completed payment does not stay pending for ever: some delivery, inquiry or
\* sweep takes it up.
PaidLeavesPending ==
  \A i \in Intents :
    (gateway[i] = "completed" /\ status[i] = "pending") ~> (status[i] # "pending")

\* "the gateway has already taken the customer's money by the time COMPLETED
\* arrives, so this must never be silently skipped": a completed payment is
\* eventually credited.
PaidIsCredited ==
  \A i \in Intents : (gateway[i] = "completed") ~> Credited(i)

\* "Cannot cancel a confirmed payment".
ConfirmedIsNotCancelled ==
  [][\A i \in Intents : status[i] = "confirmed" => status'[i] = "confirmed"]_vars

\* The service implements TopupCredit: a payment_intents row that reads
\* "cancelled" is closed, a wallet_transactions row makes its intent credited.
Promise == INSTANCE TopupCredit WITH
  credited <- {i \in Intents : Credited(i)},
  closed   <- {i \in Intents : status[i] = "cancelled"}
ImplementsTopupCredit == Promise!Spec

-----------------------------------------------------------------------------
(* The inductive invariant behind the safety properties *)

\* Locks and the requests holding them agree: a request past its SELECT ... FOR
\* UPDATE holds the row, what it read is still what the row says.
LocksAgree ==
  /\ \A w \in Workers :
       LET r == req[w] IN
       /\ r.at \in {"confirm_wallet", "confirm_commit"} =>
            rowLock[r.on] = w /\ status[r.on] = "pending"
       /\ r.at = "confirm_commit" =>
            walletLock[WalletOf[r.on]] = w /\ r.read = balance[WalletOf[r.on]]
  /\ \A i \in Intents : rowLock[i] # NoWorker =>
       /\ req[rowLock[i]].on = i
       /\ req[rowLock[i]].at \in {"confirm_wallet", "confirm_commit"}
  /\ \A x \in Wallets : walletLock[x] # NoWorker =>
       /\ req[walletLock[x]].at = "confirm_commit"
       /\ WalletOf[req[walletLock[x]].on] = x

\* A request at work is about an intent; only its creator knows an intent that
\* is not inserted yet.
RequestsKnowIntents ==
  /\ \A w \in Workers :
       LET r == req[w] IN
       /\ r.at \notin {"idle", "sweep_next"} => r.on \in Intents
       /\ r.on \in Intents =>
            (status[r.on] = "none" <=> r.at = "create_insert")
       /\ \A i \in r.todo : status[i] # "none"
       /\ r.at = "create_insert" => \A v \in Workers : req[v].on = r.on => v = w
  /\ \A i \in Intents :
       status[i] = "none" => gateway[i] = "absent" /\ ~txnNo[i]

\* An intent has a credit row on its own wallet iff it was confirmed, and only
\* an intent that left "pending" has one.
CreditsMatchStatus ==
  /\ \A x \in Wallets : \A k \in DOMAIN ledger[x] :
       LET i == ledger[x][k].intent IN
       WalletOf[i] = x /\ status[i] \in {"confirmed", "cancelled"}
  /\ ConfirmedIsCredited

\* What the gateway settled is final, and known by a callback only: an intent is
\* registered there once, by its creator, and paid only with its txn_no stored.
GatewayAgrees ==
  /\ \A w \in Workers : req[w].at = "create_gateway" =>
       /\ gateway[req[w].on] = "absent"
       /\ \A v \in Workers : req[v].at = "create_gateway" /\ req[v].on = req[w].on => v = w
  /\ \A w \in Workers : req[w].via = "webhook" =>
       req[w].on \in Intents /\ gateway[req[w].on] \in {"completed", "failed"}
  /\ \A i \in Intents :
       /\ gateway[i] = "completed" => txnNo[i]
       /\ acked[i] => gateway[i] \in {"completed", "failed"}

IInv ==
  /\ TypeOK
  /\ LocksAgree
  /\ RequestsKnowIntents
  /\ GatewayAgrees
  /\ AcknowledgedIsSettled
  /\ CreditsMatchStatus
  /\ CreditedOnce
  /\ LedgerChains
=============================================================================
