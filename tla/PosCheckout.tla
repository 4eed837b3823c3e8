---------------------------- MODULE PosCheckout ----------------------------
(***************************************************************************)
(* checkout() of backend-bun/src/services/pos_checkout_service.ts: a sale  *)
(* takes its products' rows FOR UPDATE in cart order, then the payer's     *)
(* wallet, and commits stock, wallet and receipt in one transaction, while *)
(* some of its queries go through db, a second connection of one pool.     *)
(*                                                                         *)
(* A sale is one entry of a till into its payment flow, with the           *)
(* idempotency key minted there; a request <<s, k>> is the k-th time the   *)
(* till sends it.  rows[r] is the transaction's view of the products it    *)
(* has locked, purse[r] that of the wallet; both reach stock and balance   *)
(* at the commit.  Every item costs 1 and is sold once per entry of Cart.  *)
(***************************************************************************)
EXTENDS Integers, Sequences, FiniteSetsExt

CONSTANTS
  Sales, Products, Shops, Modules, Wallets,
  NoWallet,       \* the payer of a cash, EDC or QR sale
  Cart,           \* the products of a sale, in the order they were scanned
  Payer, ShopOf,  \* the wallet that pays for a sale, the shop that sells it
  ModuleOf,       \* canteen or store
  HasOptions,     \* the sales whose items carry menu options
  Kind,           \* "customer", "user" or "department"
  OpeningStock, OpeningBalance,
  DailyLimit,     \* the effective limit of a customer in a module
  Overdraft,      \* negative_credit_limit
  PoolSize,       \* connections of db/client.ts
  MaxAttempts,    \* bound on how often a till sends a sale
  MaxFaults       \* bound on database errors and crashes

ASSUME ConstantsAssumption ==
  /\ Cart \in [Sales -> Seq(Products) \ {<<>>}]
  /\ NoWallet \notin Wallets
  /\ Payer \in [Sales -> Wallets \cup {NoWallet}]
  /\ ShopOf \in [Sales -> Shops]
  /\ ModuleOf \in [Shops -> Modules]
  /\ HasOptions \subseteq Sales
  /\ Kind \in [Wallets -> {"customer", "user", "department"}]
  /\ OpeningStock \in [Products -> Int]
  /\ OpeningBalance \in [Wallets -> Int]
  /\ DailyLimit \in [Wallets -> [Modules -> Nat]]
  /\ Overdraft \in [Wallets -> Nat]
  /\ PoolSize \in Nat \ {0}
  /\ MaxAttempts \in [Sales -> Nat \ {0}]
  /\ MaxFaults \in Nat

VARIABLES
  stock, balance,  \* shop_products.stock and wallets.balance, committed
  receipts,        \* the receipts committed, oldest first
  log,             \* pos_checkout_transactions.status of a request's row
  answer,          \* what the request was answered, as the till sees it
  at,              \* where the request is
  done,            \* how many items its transaction has processed
  number,          \* the receipt number it computed
  rows, purse,     \* its transaction's view of the rows it has locked
  lostReads,       \* requests whose receipt could not be read back
  faults

committed == <<stock, balance, receipts>>
local == <<done, number, rows, purse>>
vars == <<committed, log, answer, at, local, lostReads, faults>>

Requests == UNION {{s} \X (1..MaxAttempts[s]) : s \in Sales}
Sale(r) == r[1]

InTransaction == {"items", "options", "wallet", "limit", "receipt", "commit"}
Points == InTransaction \cup {"unsent", "log", "begin", "read", "log_success",
                              "log_failed", "ended"}

Receipt == [by : Requests, number : Nat \ {0}, total : Nat]
ReceiptRange == {receipts[i] : i \in DOMAIN receipts}
ShopReceipts(h) == {i \in DOMAIN receipts : ShopOf[Sale(receipts[i].by)] = h}

\* Item n of receipt i is <<i, n>>.  As every item costs 1, a sum of pieces or of
\* money over the receipts is the number of these items.
ItemsSold == UNION {{i} \X (1..receipts[i].total) : i \in DOMAIN receipts}

Total(r) == Len(Cart[Sale(r)])
PayerOf(r) == Payer[Sale(r)]

\* The rows other transactions hold; a transaction has its wallet from the
\* moment it has read the balance.
LockedBy(q, p) == p \in DOMAIN rows[q]
HasWallet(q) == at[q] \in {"limit", "receipt", "commit"} /\ PayerOf(q) # NoWallet
ProductHeld(r, p) == \E q \in Requests \ {r} : LockedBy(q, p)
\* Faulty: the balance is read without FOR UPDATE.
WalletReadUnlocked(r) == FALSE
WalletHeld(r) == \E q \in Requests \ {r} : HasWallet(q) /\ PayerOf(q) = PayerOf(r)

FreeConnections ==
  PoolSize - Cardinality({r \in Requests : at[r] \in InTransaction})
ConnectionFree == FreeConnections > 0

Goto(r, point) == at' = [at EXCEPT ![r] = point]

\* What a transaction holds is gone when it ends.
Forget(r) ==
  /\ done' = [done EXCEPT ![r] = 0]
  /\ number' = [number EXCEPT ![r] = 0]
  /\ rows' = [rows EXCEPT ![r] = <<>>]
  /\ purse' = [purse EXCEPT ![r] = 0]

\* Faulty: the error is swallowed, the attempt logged as a sale.
RollbackSwallowed(r) ==
  /\ Goto(r, "log_success")
  /\ Forget(r)
  /\ UNCHANGED <<committed, log, answer, lostReads>>

\* Faulty: the transaction is left open and keeps its rows.
RollbackForgotten(r) ==
  /\ Goto(r, "log_failed")
  /\ UNCHANGED <<committed, log, answer, local, lostReads>>

\* The transaction throws: nothing it did is kept, and checkout() goes on to
\* log the failure and rethrow.
Rollback(r) ==
  /\ Goto(r, "log_failed")
  /\ Forget(r)
  /\ UNCHANGED <<committed, log, answer, lostReads>>

Init ==
  /\ stock = OpeningStock
  /\ balance = OpeningBalance
  /\ receipts = <<>>
  /\ log = [r \in Requests |-> "none"]
  /\ answer = [r \in Requests |-> "none"]
  /\ at = [r \in Requests |-> "unsent"]
  /\ done = [r \in Requests |-> 0]
  /\ number = [r \in Requests |-> 0]
  /\ rows = [r \in Requests |-> <<>>]
  /\ purse = [r \in Requests |-> 0]
  /\ lostReads = {}
  /\ faults = 0

-----------------------------------------------------------------------------
(* The till and the wrapper checkout() *)

\* The till sends a sale again with the same key when it stopped waiting for
\* the previous answer or was answered with an error.
Send(r) ==
  /\ at[r] = "unsent"
  /\ r[2] > 1 => LET last == <<r[1], r[2] - 1>>
                 IN  at[last] # "unsent" /\ answer[last] # "receipt"
  /\ Goto(r, "log")
  /\ UNCHANGED <<committed, log, answer, local, lostReads, faults>>

\* startTransaction: a failure leaves the attempt without a row and goes on.
StartLog(r) ==
  /\ at[r] = "log"
  /\ ConnectionFree
  /\ \/ log' = [log EXCEPT ![r] = "pending"] /\ UNCHANGED faults
     \/ faults < MaxFaults /\ faults' = faults + 1 /\ UNCHANGED log
  /\ Goto(r, "begin")
  /\ UNCHANGED <<committed, answer, local, lostReads>>

\* getReceipt after the commit goes through db: when it fails, checkout()
\* cannot tell it from a sale that failed.
ReadReceipt(r) ==
  /\ at[r] = "read"
  /\ ConnectionFree
  /\ \/ /\ Goto(r, "log_success")
        /\ UNCHANGED <<lostReads, faults>>
     \/ /\ faults < MaxFaults
        /\ faults' = faults + 1
        /\ lostReads' = lostReads \cup {r}
        /\ Goto(r, "log_failed")
  /\ UNCHANGED <<committed, log, answer, local>>

\* markTransactionSuccess and markTransactionFailed, then the answer.
Finish(r) ==
  /\ ConnectionFree
  /\ \/ /\ at[r] = "log_success"
        /\ log' = [log EXCEPT ![r] = IF @ = "none" THEN @ ELSE "success"]
        /\ answer' = [answer EXCEPT ![r] = "receipt"]
     \/ /\ at[r] = "log_failed"
        /\ log' = [log EXCEPT ![r] = IF @ = "none" THEN @ ELSE "failed"]
        /\ answer' = [answer EXCEPT ![r] = "error"]
  /\ Goto(r, "ended")
  /\ UNCHANGED <<committed, local, lostReads, faults>>

-----------------------------------------------------------------------------
(* The transaction of runCheckout() *)

\* generateReceiptNumber: one more than the shop's newest committed receipt.
NextNumber(h) ==
  IF ShopReceipts(h) = {} THEN 1 ELSE receipts[Max(ShopReceipts(h))].number + 1

Begin(r) ==
  /\ at[r] = "begin"
  /\ ConnectionFree
  /\ number' = [number EXCEPT ![r] = NextNumber(ShopOf[Sale(r)])]
  /\ Goto(r, "items")
  /\ UNCHANGED <<committed, log, answer, done, rows, purse, lostReads, faults>>

NextItem(r) == Cart[Sale(r)][done[r] + 1]

\* The stock of a product as a transaction sees it: what it wrote itself, or else
\* the committed one.
View(r, p) == IF p \in DOMAIN rows[r] THEN rows[r][p] ELSE stock[p]

\* SELECT ... FOR UPDATE of the next product.
LockProduct(r) ==
  /\ at[r] = "items"
  /\ ~ProductHeld(r, NextItem(r))
  /\ rows' = [rows EXCEPT ![r] = [p \in DOMAIN @ \cup {NextItem(r)} |-> View(r, p)]]
  /\ Goto(r, "options")
  /\ UNCHANGED <<committed, log, answer, done, number, purse, lostReads, faults>>

\* resolveOptions reads the menu through db, with the product locked; then
\* the stock is written back one lower.
Deduct(r) ==
  /\ at[r] = "options"
  /\ Sale(r) \in HasOptions => ConnectionFree
  /\ rows' = [rows EXCEPT ![r][NextItem(r)] = @ - 1]
  /\ done' = [done EXCEPT ![r] = @ + 1]
  /\ Goto(r, IF done'[r] < Len(Cart[Sale(r)]) THEN "items"
             ELSE IF PayerOf(r) = NoWallet THEN "receipt"
             ELSE "wallet")
  /\ UNCHANGED <<committed, log, answer, number, purse, lostReads, faults>>

\* A user's wallet is not overdrawn, a department's may be (both settings of
\* the negative-balance policy off).
LockWallet(r) ==
  /\ at[r] = "wallet"
  /\ ~WalletHeld(r)
  /\ LET w == PayerOf(r)
         after == balance[w] - Total(r)
     IN  IF Kind[w] = "user" /\ after < 0
         THEN Rollback(r) /\ UNCHANGED faults
         ELSE /\ Goto(r, IF Kind[w] = "customer" THEN "limit" ELSE "receipt")
              /\ purse' = [purse EXCEPT ![r] = after]
              /\ UNCHANGED <<committed, log, answer, done, number, rows, lostReads,
                             faults>>

\* todayDeductedByModule: what other connections have committed.
SpentIn(w, m) ==
  Cardinality({e \in ItemsSold : LET r == receipts[e[1]].by
                                 IN  PayerOf(r) = w /\ ModuleOf[ShopOf[Sale(r)]] = m})

CheckLimits(r) ==
  /\ at[r] = "limit"
  /\ ConnectionFree
  /\ LET w == PayerOf(r)
         m == ModuleOf[ShopOf[Sale(r)]]
     IN  IF \/ SpentIn(w, m) + Total(r) > DailyLimit[w][m]
            \/ purse[r] < -Overdraft[w]
         THEN Rollback(r)
         ELSE /\ Goto(r, "receipt")
              /\ UNCHANGED <<committed, log, answer, local, lostReads>>
  /\ UNCHANGED faults

\* The two unique indexes of receipts: an insert waits for a transaction that
\* has inserted the same value, and fails when it is committed.
SameNumber(r, q) ==
  ShopOf[Sale(r)] = ShopOf[Sale(q)] /\ number[r] = number[q]
InsertWaits(r) ==
  \E q \in Requests \ {r} : at[q] = "commit" /\ (SameNumber(r, q) \/ Sale(r) = Sale(q))
\* Faulty: either index is missing.
NumberNotUnique(r) == FALSE
KeyNotUnique(r) == FALSE
NumberTaken(r) ==
  \E i \in DOMAIN receipts : /\ ShopOf[Sale(receipts[i].by)] = ShopOf[Sale(r)]
                             /\ receipts[i].number = number[r]
KeyTaken(r) == \E i \in DOMAIN receipts : Sale(receipts[i].by) = Sale(r)

InsertReceipt(r) ==
  /\ at[r] = "receipt"
  /\ ~InsertWaits(r)
  /\ IF NumberTaken(r) \/ KeyTaken(r)
     THEN Rollback(r)
     ELSE /\ Goto(r, "commit")
          /\ UNCHANGED <<committed, log, answer, local, lostReads>>
  /\ UNCHANGED faults

Commit(r) ==
  /\ at[r] = "commit"
  /\ stock' = [p \in Products |-> View(r, p)]
  /\ balance' = IF PayerOf(r) = NoWallet THEN balance
                ELSE [balance EXCEPT ![PayerOf(r)] = purse[r]]
  /\ receipts' = Append(receipts, [by |-> r, number |-> number[r], total |-> Total(r)])
  /\ Goto(r, "read")
  /\ Forget(r)
  /\ UNCHANGED <<log, answer, lostReads, faults>>

-----------------------------------------------------------------------------
(* Failures *)

\* A statement of the transaction fails, or a validation refuses (an unknown
\* option, a frozen card).
Fails(r) ==
  /\ at[r] \in InTransaction
  /\ faults < MaxFaults
  /\ faults' = faults + 1
  /\ Rollback(r)

Waits(r, q) ==
  /\ r # q
  /\ \/ at[r] = "items" /\ LockedBy(q, NextItem(r))
     \/ at[r] = "wallet" /\ HasWallet(q) /\ PayerOf(q) = PayerOf(r)

\* PostgreSQL ends one of the transactions that wait for each other in a
\* circle (external).
DeadlockVictim(r) ==
  /\ \E circle \in SUBSET Requests :
        /\ r \in circle
        /\ \A q \in circle : \E p \in circle : Waits(q, p)
        /\ \A q \in circle : \E p \in circle : Waits(p, q)
  /\ Rollback(r)
  /\ UNCHANGED faults

\* The server dies: open transactions are rolled back and nobody is answered.
Crash ==
  LET dead == {r \in Requests : at[r] \notin {"unsent", "ended"}}
  IN  /\ dead # {}
      /\ faults < MaxFaults
      /\ faults' = faults + 1
      /\ at' = [r \in Requests |-> IF r \in dead THEN "ended" ELSE at[r]]
      /\ done' = [r \in Requests |-> 0]
      /\ number' = [r \in Requests |-> 0]
      /\ rows' = [r \in Requests |-> <<>>]
      /\ purse' = [r \in Requests |-> 0]
      /\ UNCHANGED <<committed, log, answer, lostReads>>

-----------------------------------------------------------------------------
Checkout(r) ==
  \/ StartLog(r) \/ Begin(r)
  \/ LockProduct(r) \/ Deduct(r)
  \/ LockWallet(r) \/ CheckLimits(r)
  \/ InsertReceipt(r) \/ Commit(r)
  \/ ReadReceipt(r) \/ Finish(r)
  \/ DeadlockVictim(r)

Next ==
  \/ \E r \in Requests : Send(r) \/ Checkout(r) \/ Fails(r)
  \/ Crash

Spec == Init /\ [][Next]_vars

\* A request the server has taken is worked on until it ends; the till and the
\* failures owe nothing.
FairSpec == Spec /\ \A r \in Requests : WF_vars(Checkout(r))
-----------------------------------------------------------------------------
(* Properties *)

\* Every variable of the checkout has its type.
TypeOK ==
  /\ stock \in [Products -> Int]
  /\ balance \in [Wallets -> Int]
  /\ receipts \in Seq(Receipt)
  /\ log \in [Requests -> {"none", "pending", "success", "failed"}]
  /\ answer \in [Requests -> {"none", "receipt", "error"}]
  /\ at \in [Requests -> Points]
  /\ done \in [Requests -> Nat]
  /\ number \in [Requests -> Nat]
  /\ \A r \in Requests : number[r] = 0 <=> at[r] \notin InTransaction
  /\ rows = [r \in Requests |-> rows[r]]
  /\ \A r \in Requests : \E S \in SUBSET Products : rows[r] \in [S -> Int]
  /\ purse \in [Requests -> Int]
  /\ lostReads \subseteq Requests
  /\ faults \in 0..MaxFaults

Sold(p) ==
  Cardinality({e \in ItemsSold : Cart[Sale(receipts[e[1]].by)][e[2]] = p})
Paid(w) == Cardinality({e \in ItemsSold : PayerOf(receipts[e[1]].by) = w})

\* Stock and wallets are what the committed receipts say: no sale is lost or
\* applied in part, although every transaction writes back values it computed
\* from what it read, and any of them may be rolled back or die on the way.
BooksMatchReceipts ==
  /\ \A p \in Products : stock[p] = OpeningStock[p] - Sold(p)
  /\ \A w \in Wallets : balance[w] = OpeningBalance[w] - Paid(w)

\* One key makes one receipt, however often and however concurrently the till
\* sends the sale.
OneReceiptPerKey ==
  \A i, j \in DOMAIN receipts :
    Sale(receipts[i].by) = Sale(receipts[j].by) => i = j

\* The receipts of a shop are numbered 1, 2, 3, ... in the order they were
\* committed, although the next number is read without a lock.
NumbersGapless ==
  \A h \in Shops : \A i \in ShopReceipts(h) :
    receipts[i].number = Cardinality({j \in ShopReceipts(h) : j <= i})

\* A customer's receipts of the day stay within the limit of each module and no
\* purchase takes the wallet beyond its overdraft, although what was spent is
\* summed on another connection; none overdraws a user's wallet.
LimitsHold ==
  \A w \in Wallets :
    /\ Kind[w] = "customer" => \A m \in Modules : SpentIn(w, m) <= DailyLimit[w][m]
    /\ \/ Kind[w] = "customer" /\ balance[w] < -Overdraft[w]
       \/ Kind[w] = "user" /\ balance[w] < 0
       => balance[w] = OpeningBalance[w]

\* The Transactions tab and the till's answer agree with the receipts: a
\* success has its receipt, a failure has none unless the receipt was made and
\* could not be read back.
LogAgrees ==
  \A r \in Requests :
    LET sold == \E x \in ReceiptRange : x.by = r
    IN  /\ log[r] = "success" \/ answer[r] = "receipt" => sold
        /\ log[r] = "failed" \/ answer[r] = "error" => ~sold \/ r \in lostReads

\* Every connection belongs to a transaction that needs another connection,
\* or waits for a row one of them holds.
Starved ==
  /\ FreeConnections = 0
  /\ \A r \in Requests : at[r] \in InTransaction =>
       \/ at[r] = "options" /\ Sale(r) \in HasOptions
       \/ at[r] = "limit"
       \/ \E q \in Requests : Waits(r, q)

\* Every request the server has taken ends at last, deadlocks between carts
\* included, and the only way it may not is the pool: with every connection in
\* a transaction that asks the pool for one more, all stand still for ever.
RequestsFinish ==
  \/ <>[](\A r \in Requests : at[r] \in {"unsent", "ended"})
  \/ <>[]Starved

\* "A repeat of the same key returns the receipt the first call created":
\* no request is answered with an error when an earlier request of the sale
\* has made its receipt.
RepeatGetsReceipt ==
  \A r \in Requests : \A x \in ReceiptRange :
    Sale(x.by) = Sale(r) /\ x.by # r => answer[r] # "error"

-----------------------------------------------------------------------------
(* The inductive invariant behind the safety properties *)

\* The pieces of p among the items a transaction has processed.
Taken(r, p) == Cardinality({n \in 1..done[r] : Cart[Sale(r)][n] = p})

\* How many items of its cart a transaction has locked the product of.
Scanned(r) == IF at[r] = "options" THEN done[r] + 1 ELSE done[r]

\* A transaction holds the products it has scanned, and its view of them is the
\* committed stock less what it takes; nobody else holds them.
RowsOf(r) ==
  /\ at[r] \notin InTransaction => done[r] = 0
  /\ at[r] \in {"items", "options"} => done[r] < Len(Cart[Sale(r)])
  /\ at[r] \in InTransaction \ {"items", "options"} => done[r] = Len(Cart[Sale(r)])
  /\ DOMAIN rows[r] = {Cart[Sale(r)][n] : n \in 1..Scanned(r)}
  /\ \A p \in DOMAIN rows[r] : rows[r][p] = stock[p] - Taken(r, p)

RowsAgree ==
  /\ \A r \in Requests : RowsOf(r)
  /\ \A r, q \in Requests : \A p \in DOMAIN rows[r] : LockedBy(q, p) => r = q

\* What a transaction read and checked of its wallet is still so, and it has the
\* wallet alone.
PurseOf(r) ==
  /\ at[r] \in {"wallet", "limit"} => PayerOf(r) # NoWallet
  /\ at[r] = "limit" => Kind[PayerOf(r)] = "customer"
  /\ HasWallet(r) => /\ purse[r] = balance[PayerOf(r)] - Total(r)
                     /\ Kind[PayerOf(r)] = "user" => purse[r] >= 0
  /\ HasWallet(r) /\ at[r] # "limit" /\ Kind[PayerOf(r)] = "customer" =>
       LET m == ModuleOf[ShopOf[Sale(r)]]
       IN  /\ SpentIn(PayerOf(r), m) + Total(r) <= DailyLimit[PayerOf(r)][m]
           /\ purse[r] >= -Overdraft[PayerOf(r)]

PursesAgree ==
  /\ \A r \in Requests : PurseOf(r)
  /\ \A r, q \in Requests :
       HasWallet(r) /\ HasWallet(q) /\ PayerOf(r) = PayerOf(q) => r = q

\* The numbers of a shop are taken from 1 without a gap, those computed are at
\* most one ahead, and a receipt that waits for its commit is the only one of
\* its shop and sale and has the next number.
Count(h) == Cardinality(ShopReceipts(h))

NumberOf(r) ==
  /\ number[r] <= Count(ShopOf[Sale(r)]) + 1
  /\ at[r] = "commit" => number[r] = Count(ShopOf[Sale(r)]) + 1 /\ ~KeyTaken(r)

NumbersAgree ==
  /\ \A h \in Shops : \A n \in 1..Count(h) :
       \E i \in ShopReceipts(h) : receipts[i].number = n
  /\ \A r \in Requests : NumberOf(r)
  /\ \A r, q \in Requests :
       /\ at[r] = "commit" /\ at[q] = "commit"
       /\ ShopOf[Sale(r)] = ShopOf[Sale(q)] \/ Sale(r) = Sale(q)
       => r = q

\* Where a request is tells whether it has its receipt.
Receipted(r) == \E x \in ReceiptRange : x.by = r

PointOf(r) ==
  /\ at[r] \in {"unsent", "log", "begin"} \cup InTransaction => ~Receipted(r)
  /\ at[r] \in {"read", "log_success"} => Receipted(r)
  /\ at[r] = "log_failed" => ~Receipted(r) \/ r \in lostReads
  /\ at[r] # "ended" => log[r] \in {"none", "pending"} /\ answer[r] = "none"

PointsAgree == \A r \in Requests : PointOf(r)

TotalsAgree == \A x \in ReceiptRange : x.total = Total(x.by)

IInv ==
  /\ TypeOK
  /\ RowsAgree
  /\ PursesAgree
  /\ NumbersAgree
  /\ PointsAgree
  /\ TotalsAgree
  /\ BooksMatchReceipts
  /\ OneReceiptPerKey
  /\ NumbersGapless
  /\ LimitsHold
  /\ LogAgrees
=============================================================================
