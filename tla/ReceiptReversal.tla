-------------------------- MODULE ReceiptReversal --------------------------
(***************************************************************************)
(* What takes a sale back, as written in backend-bun/src/services:         *)
(* voidReceipt (pos_service.ts) voids a whole receipt; return requests     *)
(* (returns_service.ts) are created per product, refunded or exchanged,    *)
(* edited and deleted.  Voids, refunds and exchanges are transactions that *)
(* lock row after row; the rest are single statements.                     *)
(*                                                                         *)
(* op[w] is the request that worker w serves; what it read before its      *)
(* transaction stays in op[w].  rows[w] and purse[w] are the transaction's *)
(* view of the products and the wallet it has locked; both reach stock and *)
(* balance at the commit.  Every product costs 1.                          *)
(***************************************************************************)
EXTENDS Integers, FiniteSets, Counting

CONSTANTS
  Receipts, Products, Wallets, Requests, Workers,
  Bought,          \* the quantity of each product on a receipt
  Claims,          \* the quantities a client may say were bought of it
  Method,          \* "WALLET", "DEPARTMENT" or "CASH"
  WalletOf,        \* the payer's wallet
  NoReceipt,       \* the receipt of a return without one
  NoRequest, NoProduct,
  OpeningStock, OpeningBalance,
  LooseProducts,   \* what is returned without a receipt
  NewProducts,     \* what is given in exchange
  MaxEvents        \* bound on edits, deletions, database errors and crashes

ASSUME ConstantsAssumption ==
  /\ Bought \in [Receipts -> [Products -> Nat]]
  /\ \A r \in Receipts : \E p \in Products : Bought[r][p] > 0
  /\ Claims \in [Receipts -> [Products -> SUBSET (Nat \ {0})]]
  /\ Method \in [Receipts -> {"WALLET", "DEPARTMENT", "CASH"}]
  /\ WalletOf \in [Receipts -> Wallets]
  /\ NoReceipt \notin Receipts /\ NoRequest \notin Requests
  /\ NoProduct \notin Products
  /\ OpeningStock \in [Products -> Int]
  /\ OpeningBalance \in [Wallets -> Int]
  /\ LooseProducts \subseteq Products /\ NewProducts \subseteq Products
  /\ MaxEvents \in Nat
  /\ IsFiniteSet(Receipts) /\ IsFiniteSet(Requests) /\ IsFiniteSet(Products)

VARIABLES
  stock, balance,   \* shop_products.stock, wallets.balance, committed
  voided,           \* how often a void of the receipt committed
  request,          \* return_requests, by id
  given,            \* the quantity its committed refunds and exchanges took back
  refunded,         \* the money its committed refunds gave back to a wallet
  processed,        \* how often a refund or exchange of it committed
  exchanged,        \* the products given out by committed exchanges
  bypassed,         \* receipts whose returns were counted on a stale read, or
                    \* edited or deleted (NoReceipt: of those without one)
  op, rows, purse,
  events

committed == <<stock, balance, voided, given, refunded, processed, exchanged>>
vars == <<committed, request, bypassed, op, rows, purse, events>>

VoidPoints == {"void_lock", "void_items", "void_wallet", "void_commit"}
RefundPoints == {"refund_lock", "restore", "deduct", "refund_wallet", "refund_commit"}
Points == {"idle", "insert", "approve"} \cup VoidPoints \cup RefundPoints

Statuses == {"pending", "approved", "rejected"}
Request == [status : Statuses \cup {"none", "deleted"},
            receipt : Receipts \cup {NoReceipt}, product : Products \cup {NoProduct},
            purchased : Nat, quantity : Nat]
Missing == [status |-> "none", receipt |-> NoReceipt, product |-> NoProduct,
            purchased |-> 0, quantity |-> 0]
Exists(q) == request[q].status \in Statuses

Operation == [at : Points, receipt : Receipts \cup {NoReceipt},
              id : Requests \cup {NoRequest}, product : Products \cup {NoProduct},
              purchased : Nat, quantity : Nat, exchange : Products \cup {NoProduct},
              left : SUBSET Products]
Idle == [at |-> "idle", receipt |-> NoReceipt, id |-> NoRequest, product |-> NoProduct,
         purchased |-> 0, quantity |-> 0, exchange |-> NoProduct, left |-> {}]

Becomes(w, o) == op' = [op EXCEPT ![w] = o]
Goto(w, point) == Becomes(w, [op[w] EXCEPT !.at = point])
Ends(w) == Becomes(w, Idle)
Forget(w) ==
  /\ rows' = [rows EXCEPT ![w] = <<>>]
  /\ purse' = [purse EXCEPT ![w] = 0]

\* Row locks, all kept until the transaction ends.
HoldsReceipt(w, r) ==
  op[w].at \in {"void_items", "void_wallet", "void_commit"} /\ op[w].receipt = r
HoldsRequest(w, q) ==
  op[w].at \in {"restore", "deduct", "refund_wallet", "refund_commit"} /\ op[w].id = q
HoldsProduct(w, p) == p \in DOMAIN rows[w]
PaysBack(w) ==
  op[w].receipt # NoReceipt /\
  \/ op[w].at = "void_commit" /\ Method[op[w].receipt] = "WALLET"
  \/ op[w].at = "refund_commit" /\ op[w].exchange = NoProduct
       /\ Method[op[w].receipt] # "CASH"
HoldsWallet(w, x) == PaysBack(w) /\ WalletOf[op[w].receipt] = x

Others(w) == Workers \ {w}
ReceiptFree(w, r) == \A v \in Others(w) : ~HoldsReceipt(v, r)
RequestFree(w, q) == \A v \in Others(w) : ~HoldsRequest(v, q)
ProductFree(w, p) == \A v \in Others(w) : ~HoldsProduct(v, p)
\* Faulty: the balance is read without a lock.
WalletReadUnlocked(w, x) == TRUE
WalletFree(w, x) == \A v \in Others(w) : ~HoldsWallet(v, x)

\* A transaction reads what it wrote itself, or else what is committed; k pieces
\* more of a product are written back.
View(w, p) == IF p \in DOMAIN rows[w] THEN rows[w][p] ELSE stock[p]
Adds(w, p, k) ==
  rows' = [rows EXCEPT ![w] = [x \in DOMAIN rows[w] \cup {p} |->
                                 IF x = p THEN View(w, p) + k ELSE rows[w][x]]]

Items(r) == {p \in Products : Bought[r][p] > 0}
Total(r) == Sum(Bought[r])

Init ==
  /\ stock = OpeningStock
  /\ balance = OpeningBalance
  /\ voided = [r \in Receipts |-> 0]
  /\ request = [q \in Requests |-> Missing]
  /\ given = [q \in Requests |-> 0]
  /\ refunded = [q \in Requests |-> 0]
  /\ processed = [q \in Requests |-> 0]
  /\ exchanged = [p \in Products |-> 0]
  /\ bypassed = {}
  /\ op = [w \in Workers |-> Idle]
  /\ rows = [w \in Workers |-> <<>>]
  /\ purse = [w \in Workers |-> 0]
  /\ events = 0

-----------------------------------------------------------------------------
(* voidReceipt *)

\* The receipt and its items, in no particular order, are read without a lock;
\* only what cannot change is used of them.  product is the item to come next.
VoidArrives(w, r) ==
  /\ op[w].at = "idle"
  /\ \E p \in Items(r) :
       Becomes(w, [Idle EXCEPT !.at = "void_lock", !.receipt = r, !.product = p,
                               !.left = Items(r) \ {p}])
  /\ UNCHANGED <<committed, request, bypassed, rows, purse, events>>

\* Faulty: the status is the one read before the transaction.
AlreadyVoidedUnchecked(r) == FALSE
AlreadyVoided(r) == voided[r] > 0

\* SELECT status ... FOR UPDATE; a receipt that is already voided is refused.
VoidLock(w) ==
  LET r == op[w].receipt
  IN  /\ op[w].at = "void_lock"
      /\ ReceiptFree(w, r)
      /\ IF AlreadyVoided(r) THEN Ends(w) ELSE Goto(w, "void_items")
      /\ UNCHANGED <<committed, request, bypassed, rows, purse, events>>

\* The product of each item is locked and restored.
VoidItem(w) ==
  LET r == op[w].receipt
      p == op[w].product
  IN  /\ op[w].at = "void_items"
      /\ ProductFree(w, p)
      /\ Adds(w, p, Bought[r][p])
      /\ \/ \E next \in op[w].left :
              Becomes(w, [op[w] EXCEPT !.product = next, !.left = @ \ {next}])
         \/ /\ op[w].left = {}
            /\ Goto(w, IF Method[r] = "WALLET" THEN "void_wallet" ELSE "void_commit")
      /\ UNCHANGED <<committed, request, bypassed, purse, events>>

\* Only a WALLET or CARD_TAP receipt is paid back, a DEPARTMENT one is not.
VoidWallet(w) ==
  LET r == op[w].receipt
  IN  /\ op[w].at = "void_wallet"
      /\ WalletFree(w, WalletOf[r])
      /\ purse' = [purse EXCEPT ![w] = balance[WalletOf[r]] + Total(r)]
      /\ Goto(w, "void_commit")
      /\ UNCHANGED <<committed, request, bypassed, rows, events>>

\* What a transaction holds of stock and wallet becomes visible.
CommitBooks(w) ==
  /\ stock' = [p \in Products |-> View(w, p)]
  /\ balance' = IF PaysBack(w)
                THEN [balance EXCEPT ![WalletOf[op[w].receipt]] = purse[w]]
                ELSE balance
  /\ Forget(w)
  /\ Ends(w)

VoidCommit(w) ==
  /\ op[w].at = "void_commit"
  /\ CommitBooks(w)
  /\ voided' = [voided EXCEPT ![op[w].receipt] = @ + 1]
  /\ UNCHANGED <<request, given, refunded, processed, exchanged, bypassed, events>>

-----------------------------------------------------------------------------
(* createReturn, createReturnWithoutReceipt and the screen's approval *)

Counts(q, r, p) == /\ request[q].status \in {"pending", "approved"}
                   /\ request[q].receipt = r /\ request[q].product = p

\* Faulty: requests still pending are not counted.
ReturnedSoFarApproved(r, p) ==
  Sum([q \in Requests |-> IF Counts(q, r, p) /\ request[q].status = "approved"
                          THEN request[q].quantity ELSE 0])
ReturnedSoFar(r, p) ==
  Sum([q \in Requests |-> IF Counts(q, r, p) THEN request[q].quantity ELSE 0])

\* What was returned before is read, then the request inserted: no lock covers
\* the two.  A quantity that is not left is refused, of what the client says was
\* purchased: the receipt and its items are not looked at.
CreateRead(w, q, r, p, purchased, k) ==
  /\ op[w].at = "idle"
  /\ request[q].status = "none" /\ \A v \in Workers : op[v].id # q
  /\ k <= purchased - ReturnedSoFar(r, p)
  /\ Becomes(w, [Idle EXCEPT !.at = "insert", !.id = q, !.receipt = r, !.product = p,
                             !.purchased = purchased, !.quantity = k])
  /\ UNCHANGED <<committed, request, bypassed, rows, purse, events>>

\* A receipt number that does not exist is refunded like none.
CreateWithoutReceipt(w, q, p, k) ==
  /\ op[w].at = "idle"
  /\ request[q].status = "none" /\ \A v \in Workers : op[v].id # q
  /\ Becomes(w, [Idle EXCEPT !.at = "insert", !.id = q, !.product = p, !.quantity = k])
  /\ UNCHANGED <<committed, request, bypassed, rows, purse, events>>

CreateInsert(w) ==
  LET o == op[w]
  IN  /\ o.at = "insert"
      /\ request' = [request EXCEPT ![o.id] =
                       [status |-> "pending", receipt |-> o.receipt,
                        product |-> o.product, purchased |-> o.purchased,
                        quantity |-> o.quantity]]
      /\ bypassed' = IF /\ o.receipt # NoReceipt
                        /\ \E v \in Others(w) : /\ op[v].at = "insert"
                                               /\ op[v].receipt = o.receipt
                                               /\ op[v].product = o.product
                     THEN bypassed \cup {o.receipt} ELSE bypassed
      /\ Becomes(w, [Idle EXCEPT !.at = "approve", !.id = o.id])
      /\ UNCHANGED <<committed, rows, purse, events>>

\* The Returns screen sets what it created to approved at once; it ignores a
\* failure of that call.
Approve(w) ==
  LET q == op[w].id
  IN  /\ op[w].at = "approve"
      /\ RequestFree(w, q)
      /\ request' = [request EXCEPT ![q].status = IF Exists(q) THEN "approved" ELSE @]
      /\ Ends(w)
      /\ UNCHANGED <<committed, bypassed, rows, purse, events>>

ApproveLost(w) ==
  /\ op[w].at = "approve"
  /\ Ends(w)
  /\ UNCHANGED <<committed, request, bypassed, rows, purse, events>>

-----------------------------------------------------------------------------
(* updateReturn, deleteReturn *)

Edited(q) ==
  /\ events < MaxEvents
  /\ events' = events + 1
  /\ Exists(q)
  /\ \A v \in Workers : ~HoldsRequest(v, q)
  /\ bypassed' = bypassed \cup {request[q].receipt}

\* Any status and any quantity, here a larger one, are written.
UpdateReturn(q) ==
  /\ Edited(q)
  /\ \/ \E s \in Statuses : request' = [request EXCEPT ![q].status = s]
     \/ request' = [request EXCEPT ![q].quantity = @ + 1]
  /\ UNCHANGED <<committed, op, rows, purse>>

DeleteReturn(q) ==
  /\ Edited(q)
  /\ request' = [request EXCEPT ![q].status = "deleted"]
  /\ UNCHANGED <<committed, op, rows, purse>>

-----------------------------------------------------------------------------
(* processRefund and processExchange *)

\* The request is read without a lock: its quantity is used later as read.
RefundRead(w, q, exchange) ==
  /\ op[w].at = "idle"
  /\ Exists(q)
  /\ Becomes(w, [Idle EXCEPT !.at = "refund_lock", !.id = q, !.exchange = exchange,
                             !.receipt = request[q].receipt,
                             !.product = request[q].product,
                             !.quantity = request[q].quantity])
  /\ UNCHANGED <<committed, request, bypassed, rows, purse, events>>

Refuses(q) == request[q].status # "pending"

RefundLock(w) ==
  /\ op[w].at = "refund_lock"
  /\ RequestFree(w, op[w].id)
  /\ IF Refuses(op[w].id) THEN Ends(w) ELSE Goto(w, "restore")
  /\ UNCHANGED <<committed, request, bypassed, rows, purse, events>>

Restore(w) ==
  LET p == op[w].product
      r == op[w].receipt
  IN  /\ op[w].at = "restore"
      /\ ProductFree(w, p)
      /\ Adds(w, p, op[w].quantity)
      /\ Goto(w, IF op[w].exchange # NoProduct THEN "deduct"
                 ELSE IF r = NoReceipt THEN "refund_commit"
                 ELSE IF Method[r] # "CASH" THEN "refund_wallet"
                 ELSE "refund_commit")
      /\ UNCHANGED <<committed, request, bypassed, purse, events>>

\* The product given in exchange leaves the stock; the wallet is not touched.
Deduct(w) ==
  LET p == op[w].exchange
  IN  /\ op[w].at = "deduct"
      /\ ProductFree(w, p)
      /\ Adds(w, p, -1)
      /\ Goto(w, "refund_commit")
      /\ UNCHANGED <<committed, request, bypassed, purse, events>>

\* A wallet or a department's wallet is paid back what was returned.
RefundWallet(w) ==
  LET x == WalletOf[op[w].receipt]
  IN  /\ op[w].at = "refund_wallet"
      /\ WalletFree(w, x)
      /\ purse' = [purse EXCEPT ![w] = balance[x] + op[w].quantity]
      /\ Goto(w, "refund_commit")
      /\ UNCHANGED <<committed, request, bypassed, rows, events>>

RefundCommit(w) ==
  LET q == op[w].id
  IN  /\ op[w].at = "refund_commit"
      /\ CommitBooks(w)
      /\ request' = [request EXCEPT ![q].status = "approved"]
      /\ processed' = [processed EXCEPT ![q] = @ + 1]
      /\ given' = [given EXCEPT ![q] = @ + op[w].quantity]
      /\ refunded' = IF PaysBack(w) THEN [refunded EXCEPT ![q] = @ + op[w].quantity]
                     ELSE refunded
      /\ exchanged' = IF op[w].exchange = NoProduct THEN exchanged
                      ELSE [exchanged EXCEPT ![op[w].exchange] = @ + 1]
      /\ UNCHANGED <<voided, bypassed, events>>

-----------------------------------------------------------------------------
(* Failures *)

\* Faulty: each statement stands on its own, the error undoes nothing.
RollbackPartly(w) ==
  /\ stock' = [p \in Products |-> View(w, p)]
  /\ Forget(w)
  /\ Ends(w)
  /\ UNCHANGED <<balance, voided, given, refunded, processed, exchanged, request, bypassed>>

\* Faulty: the transaction is left open and keeps its rows.
RollbackForgotten(w) ==
  /\ Ends(w)
  /\ UNCHANGED <<committed, request, bypassed, rows, purse>>

\* The transaction is rolled back and the request answered with the error.
Rollback(w) ==
  /\ Forget(w)
  /\ Ends(w)
  /\ UNCHANGED <<committed, request, bypassed>>

Fails(w) ==
  /\ op[w].at # "idle"
  /\ events < MaxEvents
  /\ events' = events + 1
  /\ Rollback(w)

Waits(w, v) ==
  /\ v # w
  /\ \/ op[w].at = "void_items" /\ HoldsProduct(v, op[w].product)
     \/ op[w].at = "restore" /\ HoldsProduct(v, op[w].product)
     \/ op[w].at = "deduct" /\ HoldsProduct(v, op[w].exchange)

\* PostgreSQL ends one of two transactions that wait for each other (external).
DeadlockVictim(w) ==
  /\ \E v \in Workers : Waits(w, v) /\ Waits(v, w)
  /\ Rollback(w)
  /\ UNCHANGED events

\* The server dies: every open transaction is rolled back.
Crash ==
  /\ \E w \in Workers : op[w].at # "idle"
  /\ events < MaxEvents
  /\ events' = events + 1
  /\ op' = [w \in Workers |-> Idle]
  /\ rows' = [w \in Workers |-> <<>>]
  /\ purse' = [w \in Workers |-> 0]
  /\ UNCHANGED <<committed, request, bypassed>>

-----------------------------------------------------------------------------
Arrives(w) ==
  \/ \E r \in Receipts : VoidArrives(w, r)
  \/ \E q \in Requests, p \in Products, r \in Receipts :
       \E purchased \in Claims[r][p] : \E k \in 1..purchased :
         CreateRead(w, q, r, p, purchased, k)
  \/ \E q \in Requests, p \in LooseProducts : CreateWithoutReceipt(w, q, p, 1)
  \/ \E q \in Requests, x \in NewProducts \cup {NoProduct} : RefundRead(w, q, x)

Works(w) ==
  \/ VoidLock(w) \/ VoidItem(w) \/ VoidWallet(w) \/ VoidCommit(w)
  \/ CreateInsert(w) \/ Approve(w) \/ ApproveLost(w)
  \/ RefundLock(w) \/ Restore(w) \/ Deduct(w) \/ RefundWallet(w) \/ RefundCommit(w)
  \/ DeadlockVictim(w)

Next ==
  \/ \E w \in Workers : Arrives(w) \/ Works(w) \/ Fails(w)
  \/ \E q \in Requests : UpdateReturn(q) \/ DeleteReturn(q)
  \/ Crash

Spec == Init /\ [][Next]_vars

-----------------------------------------------------------------------------
(* Properties *)

\* Every variable has its type.
TypeOK ==
  /\ stock \in [Products -> Int]
  /\ balance \in [Wallets -> Int]
  /\ voided \in [Receipts -> Nat]
  /\ request \in [Requests -> Request]
  /\ given \in [Requests -> Nat]
  /\ refunded \in [Requests -> Nat]
  /\ processed \in [Requests -> Nat]
  /\ exchanged \in [Products -> Nat]
  /\ bypassed \subseteq Receipts \cup {NoReceipt}
  /\ op \in [Workers -> Operation]
  /\ rows = [w \in Workers |-> rows[w]]
  /\ \A w \in Workers : \E S \in SUBSET Products : rows[w] \in [S -> Int]
  /\ purse \in [Workers -> Int]
  /\ events \in 0..MaxEvents

\* The pieces of a product that committed voids, and committed refunds and
\* exchanges, took back.
VoidedPieces(p) == Sum([r \in Receipts |-> voided[r] * Bought[r][p]])
GivenPieces(p) == Sum([q \in Requests |-> IF request[q].product = p THEN given[q] ELSE 0])

\* Stock is what the committed voids, refunds and exchanges restored and gave
\* out, all of each or nothing, whatever runs together, fails or dies midway.
StockBalances ==
  \A p \in Products :
    stock[p] = OpeningStock[p] + VoidedPieces(p) + GivenPieces(p) - exchanged[p]

\* One void, and one refund or exchange per request, however often they are
\* asked for; only an edit can make a request pending again.
ReversedOnce ==
  /\ \A r \in Receipts : voided[r] <= 1
  /\ \A q \in Requests : processed[q] > 1 => request[q].receipt \in bypassed

GivenOn(r, p) ==
  Sum([q \in Requests |-> IF request[q].receipt = r /\ request[q].product = p
                          THEN given[q] ELSE 0])

\* The refunds of a receipt give back no more of a product than some request for it
\* said was bought, as long as no two requests were created on the same count and
\* none was edited or deleted.  (What was bought is not looked at.)
WithinClaims ==
  \A r \in Receipts \ bypassed : \A p \in Products :
    \/ GivenOn(r, p) = 0
    \/ \E q \in Requests : /\ request[q].receipt = r /\ request[q].product = p
                          /\ GivenOn(r, p) <= request[q].purchased

\* "has already been fully returned", "requested ... but only ... remaining": the
\* refunds of a receipt give back no more than was bought on it.
WithinPurchase ==
  \A r \in Receipts, p \in Products : GivenOn(r, p) <= Bought[r][p]

\* The money that committed voids of WALLET receipts, and committed refunds, gave
\* back to a wallet.
VoidedMoney(x) ==
  Sum([r \in Receipts |-> IF WalletOf[r] = x /\ Method[r] = "WALLET"
                          THEN voided[r] * Total(r) ELSE 0])
PaidTo(q, x) == request[q].receipt # NoReceipt /\ WalletOf[request[q].receipt] = x
RefundedMoney(x) == Sum([q \in Requests |-> IF PaidTo(q, x) THEN refunded[q] ELSE 0])

\* A payer's wallet gets back the money of the committed voids of its WALLET
\* receipts and of the committed refunds, exactly, also when voids and refunds
\* of one payer run together.
MoneyBalances ==
  \A x \in Wallets :
    balance[x] = OpeningBalance[x] + VoidedMoney(x) + RefundedMoney(x)

\* The workers never wait for each other, or for a row nobody gives back, for
\* ever: while an operation is under way some step of one can be taken.
NeverStuck ==
  (\E w \in Workers : op[w].at # "idle") => ENABLED (\E w \in Workers : Works(w))

\* "refund and exchange both land here": a request is approved only when its
\* goods were taken back.
ApprovedIsTakenBack ==
  \A q \in Requests : request[q].status = "approved" => processed[q] > 0

-----------------------------------------------------------------------------
(* The inductive invariant behind the safety properties *)

\* What an operation knows of the receipt, request and product it works on is so.
InVoid == {"void_items", "void_wallet", "void_commit"}
InRefund == {"restore", "deduct", "refund_wallet", "refund_commit"}

OpOf(w) ==
  LET o == op[w] IN
  /\ o.at \in VoidPoints => o.receipt \in Receipts
  /\ o.at = "void_lock" => o.product \in Items(o.receipt) /\ o.left = Items(o.receipt) \ {o.product}
  /\ o.at = "void_items" => o.product \in Items(o.receipt) \ o.left /\ o.left \subseteq Items(o.receipt)
  /\ o.at = "void_wallet" => Method[o.receipt] = "WALLET"
  /\ o.at \in InVoid => voided[o.receipt] = 0
  /\ o.at = "insert" => /\ o.id \in Requests /\ request[o.id].status = "none"
                        /\ o.product \in Products
                        /\ \A v \in Others(w) : op[v].id # o.id
  /\ o.at \in RefundPoints \cup {"approve"} => o.id \in Requests /\ request[o.id].status # "none"
  /\ o.at \in RefundPoints =>
       /\ o.receipt = request[o.id].receipt
       /\ o.product = request[o.id].product
       /\ o.receipt \in Receipts \ bypassed => o.quantity = request[o.id].quantity
  /\ o.at \in InRefund => request[o.id].status = "pending"
  /\ o.at = "deduct" => o.exchange # NoProduct
  /\ o.at = "refund_wallet" => /\ o.exchange = NoProduct /\ o.receipt # NoReceipt
                               /\ Method[o.receipt] # "CASH"

OpsAgree ==
  /\ \A w \in Workers : OpOf(w)
  /\ \A w, v \in Workers :
       /\ op[w].at \in InVoid /\ op[v].at \in InVoid /\ op[w].receipt = op[v].receipt
          => w = v
       /\ op[w].at \in InRefund /\ op[v].at \in InRefund /\ op[w].id = op[v].id
          => w = v

\* The products a transaction has locked, and what it has done to the stock of each.
Held(o) ==
  CASE o.at = "void_items" -> Items(o.receipt) \ (o.left \cup {o.product})
    [] o.at \in {"void_wallet", "void_commit"} -> Items(o.receipt)
    [] o.at \in {"deduct", "refund_wallet"} -> {o.product}
    [] o.at = "refund_commit" -> {o.product} \cup ({o.exchange} \ {NoProduct})
    [] OTHER -> {}

Change(o, p) ==
  IF o.at \in VoidPoints THEN Bought[o.receipt][p]
  ELSE (IF p = o.product THEN o.quantity ELSE 0)
         - (IF o.at = "refund_commit" /\ p = o.exchange THEN 1 ELSE 0)

RowsOf(w) ==
  /\ DOMAIN rows[w] = Held(op[w])
  /\ \A p \in DOMAIN rows[w] : rows[w][p] = stock[p] + Change(op[w], p)

\* Nobody else holds the products a transaction has locked.
RowsAgree ==
  /\ \A w \in Workers : RowsOf(w)
  /\ \A w, v \in Workers : \A p \in DOMAIN rows[w] : HoldsProduct(v, p) => w = v

\* A transaction that pays back has the wallet alone.
Amount(o) == IF o.at = "void_commit" THEN Total(o.receipt) ELSE o.quantity
PursesAgree ==
  /\ \A w \in Workers : PaysBack(w) =>
       purse[w] = balance[WalletOf[op[w].receipt]] + Amount(op[w])
  /\ \A w, v \in Workers :
       /\ PaysBack(w) /\ PaysBack(v)
       /\ WalletOf[op[w].receipt] = WalletOf[op[v].receipt]
       => w = v

\* A request that is not there yet gave nothing back; one that is pending has not
\* been processed, unless it was edited; none of a receipt that was left alone is
\* rejected or deleted, or gave back more than it asked for.
RequestOf(q) ==
  LET x == request[q] IN
  /\ x.status = "none" => /\ x = Missing
                          /\ given[q] = 0 /\ refunded[q] = 0 /\ processed[q] = 0
  /\ x.status # "none" => x.product \in Products
  /\ x.status = "pending" /\ processed[q] > 0 => x.receipt \in bypassed
  /\ x.receipt \in Receipts \ bypassed =>
       /\ x.status \in {"pending", "approved"}
       /\ given[q] <= x.quantity
       /\ processed[q] = 0 => given[q] = 0

RequestsAgree == \A q \in Requests : RequestOf(q)

\* What was requested of a receipt that was left alone, and what is about to be, is
\* within what a request says was bought.
Covered(r, p) ==
  \/ ReturnedSoFar(r, p) = 0
  \/ \E q \in Requests : Counts(q, r, p) /\ ReturnedSoFar(r, p) <= request[q].purchased

CountsAgree ==
  \A r \in Receipts \ bypassed :
    /\ \A p \in Products : Covered(r, p)
    /\ \A w \in Workers : op[w].at = "insert" /\ op[w].receipt = r =>
         ReturnedSoFar(r, op[w].product) + op[w].quantity <= op[w].purchased

IInv ==
  /\ TypeOK
  /\ OpsAgree
  /\ RowsAgree
  /\ PursesAgree
  /\ RequestsAgree
  /\ CountsAgree
  /\ StockBalances
  /\ MoneyBalances
  /\ ReversedOnce
=============================================================================
