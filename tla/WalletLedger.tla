---------------------------- MODULE WalletLedger ----------------------------
(***************************************************************************)
(* The endpoints that write wallets directly: cashier top-up, vendor       *)
(* adjustment, administrative adjustment, family transfer (all in          *)
(* backend-bun/src/services/wallet_service.ts), graduation refund          *)
(* (refund_service.ts) and EDC top-up (topup_service.ts).                  *)
(*                                                                         *)
(* A worker is one HTTP request in flight; its program points are the      *)
(* awaits of the code.  Statements on the plain client commit by           *)
(* themselves; the part between SELECT ... FOR UPDATE and the end of the   *)
(* callback of pgClient.begin is one transaction, which holds the wallet.  *)
(* A ticket is the idempotency key of a request under the prefix of its    *)
(* endpoint; partial unique indexes make it unique in wallet_transactions. *)
(***************************************************************************)
EXTENDS Integers, Sequences, FiniteSets

CONSTANTS
  Wallets,          \* wallet ids, ordered
  Departments,      \* the wallets owned by departments
  Workers,          \* requests in flight; bounds the concurrency
  Keys,             \* idempotency keys, transaction ids, EDC approval codes
  Amounts,
  Opening,          \* opening balance of a wallet
  MAX_WALLET_BALANCE,
  Kinds,            \* endpoints in use
  MaxRequests,      \* bound on the number of requests
  MaxFaults,        \* bound on database errors and crashes
  NoKey, NoWorker

Endpoints == {"adjust", "cashier", "vendor", "refund", "edc", "transfer"}

ASSUME ConstantsAssumption ==
  /\ Wallets \subseteq Nat
  /\ Departments \subseteq Wallets
  /\ Amounts \subseteq Nat \ {0}
  /\ Opening \in [Wallets -> Nat]
  /\ MAX_WALLET_BALANCE \in Nat
  /\ Kinds \subseteq Endpoints
  /\ MaxRequests \in Nat
  /\ MaxFaults \in Nat
  /\ NoKey \notin Keys
  /\ NoWorker \notin Workers

VARIABLES
  balance,     \* wallets.balance
  ledger,      \* the wallet's rows of wallet_transactions, in order
  walletLock,  \* transaction holding the wallets row
  req,         \* the requests in flight
  answers,     \* the successful responses to requests that carried a ticket
  started,     \* number of requests so far
  faults       \* number of injected faults so far

vars == <<balance, ledger, walletLock, req, answers, started, faults>>

Changes == Amounts \cup {-a : a \in Amounts}
People == Wallets \ Departments

Points == {"idle", "lookup", "cap", "duplicate", "lock", "write", "replay",
           "lock_first", "lock_second", "write_both", "credit"}

Requests == [at : Points, kind : Endpoints, wallet : Wallets, peer : Wallets,
             change : Changes, key : Keys \cup {NoKey}, read : Int,
             peerRead : Int]

Idle == [at |-> "idle"]

Request(at, kind, x, y, change, key) ==
  [at |-> at, kind |-> kind, wallet |-> x, peer |-> y, change |-> change,
   key |-> key, read |-> 0, peerRead |-> 0]

Begin(w, r) ==
  /\ req[w].at = "idle"
  /\ r.kind \in Kinds
  /\ started < MaxRequests
  /\ started' = started + 1
  /\ req' = [req EXCEPT ![w] = r]
  /\ UNCHANGED <<balance, ledger, walletLock, answers, faults>>

\* The request goes on at another program point, or ends.
Step(w, r) == req' = [req EXCEPT ![w] = r]
At(w, point) == [req[w] EXCEPT !.at = point]
End(w) == Step(w, Idle)

\* The rows of wallet_transactions that carry a ticket.  The prefixes of the
\* endpoints keep their keys apart.
Entries == UNION {{x} \X DOMAIN ledger[x] : x \in Wallets}
RowAt(e) == ledger[e[1]][e[2]]
Posted(kind, key) ==
  {e \in Entries : RowAt(e).kind = kind /\ RowAt(e).key = key}

Ticketed == {"cashier", "vendor", "refund"}

Init ==
  /\ balance = Opening
  /\ ledger = [x \in Wallets |-> <<>>]
  /\ walletLock = [x \in Wallets |-> NoWorker]
  /\ req = [w \in Workers |-> Idle]
  /\ answers = {}
  /\ started = 0
  /\ faults = 0

-----------------------------------------------------------------------------
(* Requests arrive *)

\* Administrative adjustment of any wallet, adjustDepartmentBalance included;
\* its reference ticket is free text.
AdjustBalance(w) ==
  \E x \in Wallets, d \in Changes :
    Begin(w, Request("lock", "adjust", x, x, d, NoKey))

CashierTopup(w) ==
  \E x \in Wallets, a \in Amounts :
    \/ \E k \in Keys : Begin(w, Request("lookup", "cashier", x, x, a, k))
    \/ Begin(w, Request("cap", "cashier", x, x, a, NoKey))

\* customerId names a student, a parent or a member of staff.
VendorAdjustBalance(w) ==
  \E x \in People, d \in Changes, k \in Keys :
    Begin(w, Request("lookup", "vendor", x, x, d, k))

CreateGraduationRefund(w) ==
  \E x \in People, a \in Amounts :
    \/ \E k \in Keys : Begin(w, Request("lookup", "refund", x, x, -a, k))
    \/ Begin(w, Request("lock", "refund", x, x, -a, NoKey))

\* The terminal has approved the payment under the code k; without a terminal
\* reference the search for a duplicate is skipped.
EdcTopup(w) ==
  \E x \in Wallets, a \in Amounts, k \in Keys, point \in {"duplicate", "lock"} :
    Begin(w, Request(point, "edc", x, x, a, k))

TransferWithinFamily(w) ==
  \E x, y \in Wallets, a \in Amounts :
    /\ x # y
    /\ Begin(w, Request("lock_first", "transfer", x, y, a, NoKey))

-----------------------------------------------------------------------------
(* Before the transaction *)

\* What the search for the ticket finds: the vendor's is by ticket alone, the
\* others look on the wallet of the request.
Found(w) ==
  {e \in Posted(req[w].kind, req[w].key) :
     req[w].kind = "vendor" \/ e[1] = req[w].wallet}

\* The answer a cashier or a refund officer gets for the row e.
Answer(e) ==
  [kind |-> RowAt(e).kind, key |-> RowAt(e).key, wallet |-> e[1],
   change |-> RowAt(e).change, row |-> e[2]]

\* Faulty: the amount of the row found is not compared with the request's.
LookupAnyAmount(w) ==
  /\ req[w].at \in {"lookup", "replay"}
  /\ \E e \in Found(w) :
       answers' = IF req[w].kind = "vendor"
                  THEN answers
                  ELSE answers \cup {[Answer(e) EXCEPT !.change = req[w].change]}
  /\ End(w)
  /\ UNCHANGED <<balance, ledger, walletLock, started, faults>>

\* A known ticket is answered from its row: with the same success if the amount
\* agrees, with 409 otherwise, and always with 409 to the vendor.
LookupFinds(w) ==
  /\ req[w].at \in {"lookup", "replay"}
  /\ \E e \in Found(w) :
       answers' = IF req[w].kind # "vendor" /\ RowAt(e).change = req[w].change
                  THEN answers \cup {Answer(e)}
                  ELSE answers
  /\ End(w)
  /\ UNCHANGED <<balance, ledger, walletLock, started, faults>>

\* An unknown ticket starts the transaction; after a unique violation it means
\* that another wallet carries it, and the violation is thrown.
LookupMisses(w) ==
  /\ req[w].at \in {"lookup", "replay"}
  /\ Found(w) = {}
  /\ Step(w, IF req[w].at = "replay" THEN Idle
             ELSE At(w, IF req[w].kind = "cashier" THEN "cap" ELSE "lock"))
  /\ UNCHANGED <<balance, ledger, walletLock, answers, started, faults>>

\* The ceiling is checked on a balance read without a lock.
CheckCap(w) ==
  LET r == req[w] IN
  /\ r.at = "cap"
  /\ Step(w, IF r.wallet \in People /\ balance[r.wallet] + r.change > MAX_WALLET_BALANCE
             THEN Idle ELSE At(w, "lock"))
  /\ UNCHANGED <<balance, ledger, walletLock, answers, started, faults>>

\* Any earlier row of the wallet whose description shows the approval code.
CheckEdcDuplicate(w) ==
  LET r == req[w] IN
  /\ r.at = "duplicate"
  /\ Step(w, IF \E e \in Posted("edc", r.key) : e[1] = r.wallet
             THEN Idle ELSE At(w, "lock"))
  /\ UNCHANGED <<balance, ledger, walletLock, answers, started, faults>>

-----------------------------------------------------------------------------
(* The transaction on one wallet *)

Row(kind, key, change, before) ==
  [kind |-> kind, key |-> key, change |-> change, before |-> before,
   after |-> before + change]

\* Faulty: a transaction that ends keeps its locks.
KeptLocks(w) == walletLock

Unlocked(w) == [x \in Wallets |-> IF walletLock[x] = w THEN NoWorker ELSE walletLock[x]]
Rollback(w, r) ==
  /\ walletLock' = Unlocked(w)
  /\ Step(w, r)
  /\ UNCHANGED <<balance, ledger, answers, started, faults>>

LockWallet(w) ==
  LET x == req[w].wallet IN
  /\ req[w].at = "lock"
  /\ walletLock[x] = NoWorker
  /\ walletLock' = [walletLock EXCEPT ![x] = w]
  /\ Step(w, [At(w, "write") EXCEPT !.read = balance[x]])
  /\ UNCHANGED <<balance, ledger, answers, started, faults>>

\* What is checked on the locked row.
Refused(w) ==
  LET r == req[w] IN
  \/ r.kind \in {"vendor", "refund"} /\ r.change < 0 /\ r.read + r.change < 0
  \/ r.kind = "edc" /\ r.read + r.change > MAX_WALLET_BALANCE

\* Faulty: the unique index is on the wallet and the ticket.
TicketTakenOnWallet(w) ==
  /\ req[w].kind \in Ticketed
  /\ req[w].key # NoKey
  /\ \E e \in Posted(req[w].kind, req[w].key) : e[1] = req[w].wallet

\* The unique index rejects a ticket some committed row carries.
TicketTaken(w) ==
  /\ req[w].kind \in Ticketed
  /\ req[w].key # NoKey
  /\ Posted(req[w].kind, req[w].key) # {}

WriteRefused(w) ==
  req[w].at = "write" /\ Refused(w) /\ Rollback(w, Idle)

WriteRejected(w) ==
  /\ req[w].at = "write"
  /\ ~Refused(w)
  /\ TicketTaken(w)
  /\ Rollback(w, At(w, "replay"))

Write(w) ==
  LET r == req[w]
      x == r.wallet
      n == Len(ledger[x]) + 1
  IN
  /\ r.at = "write"
  /\ ~Refused(w)
  /\ ~TicketTaken(w)
  /\ balance' = [balance EXCEPT ![x] = r.read + r.change]
  /\ ledger' = [ledger EXCEPT ![x] = Append(@, Row(r.kind, r.key, r.change, r.read))]
  /\ answers' = IF r.kind \in Ticketed /\ r.key # NoKey
                THEN answers \cup {[kind |-> r.kind, key |-> r.key, wallet |-> x,
                                    change |-> r.change, row |-> n]}
                ELSE answers
  /\ walletLock' = Unlocked(w)
  /\ End(w)
  /\ UNCHANGED <<started, faults>>

-----------------------------------------------------------------------------
(* The transaction on two wallets *)

Lower(x, y) == IF x < y THEN x ELSE y
Higher(x, y) == IF x < y THEN y ELSE x

\* Faulty: the source is locked first.
Source(w) == req[w].wallet

First(w) == Lower(req[w].wallet, req[w].peer)
Second(w) == IF First(w) = req[w].wallet THEN req[w].peer ELSE req[w].wallet

\* SELECT ... ORDER BY id FOR UPDATE takes the row locks one by one.
LockFirst(w) ==
  /\ req[w].at = "lock_first"
  /\ walletLock[First(w)] = NoWorker
  /\ walletLock' = [walletLock EXCEPT ![First(w)] = w]
  /\ Step(w, At(w, "lock_second"))
  /\ UNCHANGED <<balance, ledger, answers, started, faults>>

LockSecond(w) ==
  /\ req[w].at = "lock_second"
  /\ walletLock[Second(w)] = NoWorker
  /\ walletLock' = [walletLock EXCEPT ![Second(w)] = w]
  /\ Step(w, [At(w, "write_both") EXCEPT !.read = balance[req[w].wallet],
                                         !.peerRead = balance[req[w].peer]])
  /\ UNCHANGED <<balance, ledger, answers, started, faults>>

\* Faulty: the ceiling is not checked for a transfer.
TransferRefusedUncapped(w) ==
  req[w].peer \in Departments \/ req[w].read < req[w].change

TransferRefused(w) ==
  LET r == req[w] IN
  \/ r.peer \in Departments
  \/ r.read < r.change
  \/ r.peerRead + r.change > MAX_WALLET_BALANCE

WriteBothRefused(w) ==
  req[w].at = "write_both" /\ TransferRefused(w) /\ Rollback(w, Idle)

Debit(r) == Row("transfer", NoKey, -r.change, r.read)
Credit(r) == Row("transfer", NoKey, r.change, r.peerRead)

\* Faulty: the source is debited by a transaction of its own, like an
\* adjustment.
WriteDebitAlone(w) ==
  LET r == req[w] IN
  /\ r.at = "write_both"
  /\ ~TransferRefused(w)
  /\ balance' = [balance EXCEPT ![r.wallet] = r.read - r.change]
  /\ ledger' = [ledger EXCEPT ![r.wallet] = Append(@, Debit(r))]
  /\ Step(w, At(w, "credit"))
  /\ UNCHANGED <<walletLock, answers, started, faults>>

\* The transaction has written the source and not yet the peer: nothing of it
\* is committed, and a fault here must leave nothing behind.
WriteDebit(w) ==
  /\ req[w].at = "write_both"
  /\ ~TransferRefused(w)
  /\ Step(w, At(w, "credit"))
  /\ UNCHANGED <<balance, ledger, walletLock, answers, started, faults>>

\* Faulty: the credit overwrites what was read for the source.
WriteBothFromSource(w) ==
  LET r == req[w] IN
  /\ r.at = "credit"
  /\ balance' = [balance EXCEPT ![r.wallet] = r.read - r.change,
                                ![r.peer] = r.read + r.change]
  /\ ledger' = [ledger EXCEPT ![r.wallet] = Append(@, Debit(r)),
                              ![r.peer] = Append(@, Row("transfer", NoKey, r.change, r.read))]
  /\ walletLock' = Unlocked(w)
  /\ End(w)
  /\ UNCHANGED <<answers, started, faults>>

\* The rest is written, and the callback's end commits all of it.
WriteBoth(w) ==
  LET r == req[w] IN
  /\ r.at = "credit"
  /\ balance' = [balance EXCEPT ![r.wallet] = r.read - r.change,
                                ![r.peer] = r.peerRead + r.change]
  /\ ledger' = [ledger EXCEPT ![r.wallet] = Append(@, Debit(r)),
                              ![r.peer] = Append(@, Credit(r))]
  /\ walletLock' = Unlocked(w)
  /\ End(w)
  /\ UNCHANGED <<answers, started, faults>>

-----------------------------------------------------------------------------
(* Faults *)

\* A database error rolls the transaction back and ends the request.
RequestFails(w) ==
  /\ req[w].at # "idle"
  /\ faults < MaxFaults
  /\ faults' = faults + 1
  /\ walletLock' = Unlocked(w)
  /\ End(w)
  /\ UNCHANGED <<balance, ledger, answers, started>>

\* The server process dies: every request is lost, every transaction rolls back.
ServerCrash ==
  /\ faults < MaxFaults
  /\ faults' = faults + 1
  /\ walletLock' = [x \in Wallets |-> NoWorker]
  /\ req' = [w \in Workers |-> Idle]
  /\ UNCHANGED <<balance, ledger, answers, started>>

-----------------------------------------------------------------------------

Arrive(w) ==
  \/ AdjustBalance(w) \/ CashierTopup(w) \/ VendorAdjustBalance(w)
  \/ CreateGraduationRefund(w) \/ EdcTopup(w) \/ TransferWithinFamily(w)

\* The steps a request in flight takes by itself.
Run(w) ==
  \/ LookupFinds(w) \/ LookupMisses(w) \/ CheckCap(w) \/ CheckEdcDuplicate(w)
  \/ LockWallet(w) \/ WriteRefused(w) \/ WriteRejected(w) \/ Write(w)
  \/ LockFirst(w) \/ LockSecond(w) \/ WriteBothRefused(w) \/ WriteDebit(w)
  \/ WriteBoth(w)

Next ==
  \/ \E w \in Workers : Arrive(w) \/ Run(w) \/ RequestFails(w)
  \/ ServerCrash

Spec == Init /\ [][Next]_vars

\* Every request in flight runs on: the event loop and the database answer.
RequestsRun == \A w \in Workers : WF_vars(Run(w))

LiveSpec == Spec /\ RequestsRun

-----------------------------------------------------------------------------
(* Properties *)

Rows == [kind : Endpoints, key : Keys \cup {NoKey}, change : Changes,
         before : Int, after : Int]

TypeOK ==
  /\ balance \in [Wallets -> Int]
  /\ ledger \in [Wallets -> Seq(Rows)]
  /\ walletLock \in [Wallets -> Workers \cup {NoWorker}]
  /\ req \in [Workers -> Requests \cup {Idle}]
  /\ answers \subseteq [kind : Ticketed, key : Keys, wallet : Wallets,
                        change : Changes, row : Nat]
  /\ started \in 0..MaxRequests
  /\ faults \in 0..MaxFaults

\* No update is lost: on every wallet each row starts from the balance the row
\* before it left, and the wallet holds what its last row says.
LedgerChains ==
  \A x \in Wallets :
    LET rows == ledger[x] IN
    /\ \A n \in DOMAIN rows :
         /\ rows[n].before = IF n = 1 THEN Opening[x] ELSE rows[n - 1].after
         /\ rows[n].after = rows[n].before + rows[n].change
    /\ balance[x] = IF rows = <<>> THEN Opening[x] ELSE rows[Len(rows)].after

\* A retried request moves the money once: at most one row, on whatever wallet,
\* carries a given ticket, although the search for it takes no lock.
TicketOnce ==
  \A kind \in Ticketed, k \in Keys : \A e, f \in Posted(kind, k) : e = f

\* Every success reported for a ticket names the same row, on the same wallet
\* and for the same amount, and that row is in the ledger: a retry learns what
\* its first attempt did, or is refused.
AnswersAgree ==
  /\ \A a \in answers : \E e \in Entries : a = Answer(e)
  /\ \A a, b \in answers : a.kind = b.kind /\ a.key = b.key => a = b

\* What is checked on the locked row still holds when it is written: only an
\* administrative adjustment takes a wallet below zero, and neither an EDC
\* top-up nor a transfer lifts one above the ceiling.
LimitsHold ==
  \A e \in Entries :
    LET r == RowAt(e) IN
    /\ r.change < 0 /\ r.after < 0 => r.kind = "adjust"
    /\ r.change > 0 /\ r.after > MAX_WALLET_BALANCE =>
         r.kind \in {"adjust", "cashier", "vendor"}

\* No transfer is left half done by an error or a crash between its writes, nor
\* taken for an adjustment: at any time the committed rows that take an amount
\* for a transfer are as many as those that give it.
TransferRows(change) ==
  {e \in Entries : RowAt(e).kind = "transfer" /\ RowAt(e).change = change}
TransfersPaired ==
  \A a \in Amounts : Cardinality(TransferRows(-a)) = Cardinality(TransferRows(a))

\* Every request gets its answer: no two transfers wait for each other's wallet.
RequestsFinish == \A w \in Workers : req[w].at # "idle" ~> req[w].at = "idle"

\* "Duplicate EDC transaction detected. This approval code has already been
\* processed.": one approval code tops a wallet up once.
EdcCreditedOnce ==
  \A k \in Keys : \A e, f \in Posted("edc", k) : e[1] = f[1] => e = f

\* The endpoints implement AtomicWallets: what the wallets hold is their
\* balance, and a ticket is used as often as rows carry it.
Tickets == Ticketed \X Keys
Promise == INSTANCE AtomicWallets WITH
  funds <- balance,
  uses  <- [t \in Tickets |-> Cardinality(Posted(t[1], t[2]))]
ImplementsAtomicWallets == Promise!Spec

-----------------------------------------------------------------------------
(* The inductive invariant behind the safety properties *)

\* The wallets a request holds at each of its program points.
Held(w) ==
  CASE req[w].at = "write" -> {req[w].wallet}
    [] req[w].at = "lock_second" -> {First(w)}
    [] req[w].at \in {"write_both", "credit"} -> {req[w].wallet, req[w].peer}
    [] OTHER -> {}

\* Locks and requests agree, and what a transaction read is still what the
\* locked row says.
LocksAgree ==
  /\ \A x \in Wallets, w \in Workers : walletLock[x] = w <=> x \in Held(w)
  /\ \A w \in Workers :
       /\ req[w].at \in {"write", "write_both", "credit"} =>
            req[w].read = balance[req[w].wallet]
       /\ req[w].at \in {"write_both", "credit"} => req[w].peerRead = balance[req[w].peer]

\* What a request is about fits its program point: a search is for a ticket, a
\* top-up adds and a refund takes, only a transfer names two wallets, and it
\* writes only what it may.
Fits(r) ==
  /\ r.at \in {"lookup", "replay"} \/ r.kind = "vendor" =>
       r.kind \in Ticketed /\ r.key \in Keys
  /\ r.at = "cap" => r.kind = "cashier"
  /\ r.at = "duplicate" => r.kind = "edc"
  /\ r.kind \in {"cashier", "edc", "transfer"} => r.change \in Amounts
  /\ r.kind = "refund" => r.change < 0
  /\ r.kind = "transfer" => r.wallet # r.peer
  /\ r.kind = "transfer" <=>
       r.at \in {"lock_first", "lock_second", "write_both", "credit"}
  /\ r.at = "credit" =>
       r.change <= r.read /\ r.peerRead + r.change <= MAX_WALLET_BALANCE

RequestsFit == \A w \in Workers : req[w].at # "idle" => Fits(req[w])

IInv ==
  /\ TypeOK
  /\ LocksAgree
  /\ RequestsFit
  /\ LedgerChains
  /\ TicketOnce
  /\ AnswersAgree
  /\ LimitsHold
=============================================================================
