----------------------- MODULE ReceiptReversalProofs -----------------------
(* Safety of voids, returns, refunds and exchanges for every number of        *)
(* workers, receipts and requests: IInv of ReceiptReversal is inductive, and  *)
(* the properties of the runs follow from it.                                 *)
EXTENDS ReceiptReversal, CountingProofs

(* Constants *)

\* What the constants are, one fact at a time.
LEMMA ConstantFacts ==
  /\ \A r \in Receipts : Bought[r] \in [Products -> Nat]
  /\ \A r \in Receipts : \A p \in Products : Bought[r][p] \in Nat
  /\ \A r \in Receipts : \E p \in Products : Bought[r][p] > 0
  /\ \A r \in Receipts : \A p \in Products : Claims[r][p] \subseteq Nat \ {0}
  /\ \A r \in Receipts : Method[r] \in {"WALLET", "DEPARTMENT", "CASH"}
  /\ \A r \in Receipts : WalletOf[r] \in Wallets
  /\ NoReceipt \notin Receipts /\ NoRequest \notin Requests
  /\ NoProduct \notin Products
  /\ LooseProducts \subseteq Products /\ NewProducts \subseteq Products
  /\ MaxEvents \in Nat
  BY ConstantsAssumption

\* There are finitely many receipts, requests and products.
LEMMA FiniteFacts ==
  IsFiniteSet(Receipts) /\ IsFiniteSet(Requests) /\ IsFiniteSet(Products)
  BY ConstantsAssumption

\* The total of a receipt is a natural number.
LEMMA TotalType ==
  ASSUME NEW r \in Receipts
  PROVE  Total(r) \in Nat
  BY ConstantFacts, FiniteFacts, SumType DEF Total

\* Products that are on a receipt, and what is not on it.
LEMMA ItemsFacts ==
  ASSUME NEW r \in Receipts
  PROVE  /\ Items(r) \subseteq Products
         /\ \A p \in Products \ Items(r) : Bought[r][p] = 0
  <1>1. \A p \in Products : Bought[r][p] \in Nat
    BY ConstantFacts
  <1>2. QED
    BY <1>1 DEF Items

-----------------------------------------------------------------------------
(* Steps of an operation *)

\* What an operation is made of.
LEMMA OperationFields ==
  ASSUME NEW o \in Operation
  PROVE  /\ o.at \in Points
         /\ o.receipt \in Receipts \cup {NoReceipt}
         /\ o.id \in Requests \cup {NoRequest}
         /\ o.product \in Products \cup {NoProduct}
         /\ o.purchased \in Nat
         /\ o.quantity \in Nat
         /\ o.exchange \in Products \cup {NoProduct}
         /\ o.left \subseteq Products
  BY DEF Operation

\* A worker that serves nothing is a possible operation.
LEMMA IdleFacts ==
  /\ Idle \in Operation
  /\ Idle.at = "idle" /\ Idle.receipt = NoReceipt /\ Idle.id = NoRequest
  /\ Idle.product = NoProduct /\ Idle.purchased = 0 /\ Idle.quantity = 0 /\ Idle.exchange = NoProduct
  /\ Idle.left = {}
  BY DEF Idle, Operation, Points

\* Only the operation of the worker that takes a step changes.
OthersStay(w) == \A v \in Workers : v # w => op'[v] = op[v]

\* What Becomes sets.
LEMMA BecomesFacts ==
  ASSUME TypeOK, NEW w \in Workers, NEW o \in Operation, Becomes(w, o)
  PROVE  /\ op' \in [Workers -> Operation]
         /\ op'[w] = o
         /\ OthersStay(w)
  <1>1. op \in [Workers -> Operation]
    BY DEF TypeOK
  <1>2. op' = [op EXCEPT ![w] = o]
    BY DEF Becomes
  <1>3. QED
    BY <1>1, <1>2 DEF OthersStay

\* An operation that ends leaves its worker idle.
LEMMA EndsFacts ==
  ASSUME TypeOK, NEW w \in Workers, Ends(w)
  PROVE  /\ op' \in [Workers -> Operation]
         /\ op'[w] = Idle
         /\ OthersStay(w)
  BY IdleFacts, BecomesFacts DEF Ends

\* An operation that moves on keeps everything else it knows.
LEMMA GotoFacts ==
  ASSUME TypeOK, NEW w \in Workers, NEW point \in Points, Goto(w, point)
  PROVE  /\ op' \in [Workers -> Operation]
         /\ op'[w].at = point
         /\ op'[w].receipt = op[w].receipt
         /\ op'[w].id = op[w].id
         /\ op'[w].product = op[w].product
         /\ op'[w].quantity = op[w].quantity
         /\ op'[w].exchange = op[w].exchange
         /\ op'[w].left = op[w].left
         /\ OthersStay(w)
  <1> DEFINE o == [op[w] EXCEPT !.at = point]
  <1>1. op[w] \in Operation
    BY DEF TypeOK
  <1>2. /\ o \in Operation
        /\ o.at = point
        /\ o.receipt = op[w].receipt /\ o.id = op[w].id /\ o.product = op[w].product
        /\ o.quantity = op[w].quantity /\ o.exchange = op[w].exchange
        /\ o.left = op[w].left
    BY <1>1 DEF Operation
  <1>3. Becomes(w, o)
    BY DEF Goto
  <1> HIDE DEF o
  <1>4. /\ op' \in [Workers -> Operation]
        /\ op'[w] = o
        /\ OthersStay(w)
    BY <1>2, <1>3, BecomesFacts
  <1>5. QED
    BY <1>2, <1>4

\* A void begins with the items of the receipt, one of them to come next.
LEMMA VoidArrivesFacts ==
  ASSUME TypeOK, NEW w \in Workers, NEW r \in Receipts, VoidArrives(w, r)
  PROVE  /\ op' \in [Workers -> Operation]
         /\ op'[w].at = "void_lock" /\ op'[w].receipt = r
         /\ op'[w].product \in Items(r) /\ op'[w].left = Items(r) \ {op'[w].product}
         /\ op'[w].id = NoRequest
         /\ OthersStay(w)
  <1>1. PICK p \in Items(r) :
          Becomes(w, [Idle EXCEPT !.at = "void_lock", !.receipt = r, !.product = p,
                                  !.left = Items(r) \ {p}])
    BY DEF VoidArrives
  <1> DEFINE o == [Idle EXCEPT !.at = "void_lock", !.receipt = r, !.product = p,
                               !.left = Items(r) \ {p}]
  <1>2. Items(r) \subseteq Products
    BY DEF Items
  <1>3. /\ o \in Operation
        /\ o.at = "void_lock" /\ o.receipt = r /\ o.product = p
        /\ o.left = Items(r) \ {p} /\ o.id = NoRequest
    BY <1>2 DEF Idle, Operation, Points, VoidPoints
  <1> HIDE DEF o
  <1>4. op' \in [Workers -> Operation] /\ op'[w] = o /\ OthersStay(w)
    BY <1>1, <1>3, BecomesFacts DEF o
  <1>5. QED
    BY <1>3, <1>4

\* A return begins with the product and the quantity it asks for.
LEMMA CreateReadFacts ==
  ASSUME TypeOK, NEW w \in Workers, NEW q \in Requests, NEW r \in Receipts,
         NEW p \in Products, NEW c \in Claims[r][p], NEW k \in 1..c,
         CreateRead(w, q, r, p, c, k)
  PROVE  /\ op' \in [Workers -> Operation]
         /\ op'[w].at = "insert" /\ op'[w].receipt = r /\ op'[w].id = q
         /\ op'[w].product = p /\ op'[w].purchased = c /\ op'[w].quantity = k
         /\ OthersStay(w)
  <1> DEFINE o == [Idle EXCEPT !.at = "insert", !.id = q, !.receipt = r, !.product = p,
                               !.purchased = c, !.quantity = k]
  <1>1. c \in Nat /\ k \in Nat
    BY ConstantFacts
  <1>2. /\ o \in Operation
        /\ o.at = "insert" /\ o.receipt = r /\ o.product = p /\ o.id = q
        /\ o.purchased = c /\ o.quantity = k
    BY <1>1 DEF Idle, Operation, Points
  <1>3. Becomes(w, o)
    BY DEF CreateRead
  <1> HIDE DEF o
  <1>4. op' \in [Workers -> Operation] /\ op'[w] = o /\ OthersStay(w)
    BY <1>2, <1>3, BecomesFacts
  <1>5. QED
    BY <1>2, <1>4

\* So does one without a receipt.
LEMMA LooseFacts ==
  ASSUME TypeOK, NEW w \in Workers, NEW q \in Requests, NEW p \in LooseProducts,
         CreateWithoutReceipt(w, q, p, 1)
  PROVE  /\ op' \in [Workers -> Operation]
         /\ op'[w].at = "insert" /\ op'[w].receipt = NoReceipt /\ op'[w].id = q
         /\ op'[w].product = p /\ p \in Products
         /\ OthersStay(w)
  <1> DEFINE o == [Idle EXCEPT !.at = "insert", !.id = q, !.product = p, !.quantity = 1]
  <1>1. p \in Products
    BY ConstantFacts
  <1>2. /\ o \in Operation
        /\ o.at = "insert" /\ o.receipt = NoReceipt /\ o.product = p /\ o.id = q
    BY <1>1 DEF Idle, Operation, Points
  <1>3. Becomes(w, o)
    BY DEF CreateWithoutReceipt
  <1> HIDE DEF o
  <1>4. op' \in [Workers -> Operation] /\ op'[w] = o /\ OthersStay(w)
    BY <1>2, <1>3, BecomesFacts
  <1>5. QED
    BY <1>1, <1>2, <1>4

\* A refund or an exchange begins with what it read of the request.
LEMMA RefundReadFacts ==
  ASSUME TypeOK, NEW w \in Workers, NEW q \in Requests,
         NEW x \in NewProducts \cup {NoProduct}, RefundRead(w, q, x)
  PROVE  /\ op' \in [Workers -> Operation]
         /\ op'[w].at = "refund_lock" /\ op'[w].id = q
         /\ op'[w].receipt = request[q].receipt
         /\ op'[w].product = request[q].product
         /\ op'[w].quantity = request[q].quantity
         /\ OthersStay(w)
  <1> DEFINE o == [Idle EXCEPT !.at = "refund_lock", !.id = q, !.exchange = x,
                               !.receipt = request[q].receipt,
                               !.product = request[q].product,
                               !.quantity = request[q].quantity]
  <1>1. /\ request[q].receipt \in Receipts \cup {NoReceipt}
        /\ request[q].product \in Products \cup {NoProduct}
        /\ request[q].quantity \in Nat
    BY DEF TypeOK, Request
  <1>2. x \in Products \cup {NoProduct}
    BY ConstantFacts
  <1>3. /\ o \in Operation
        /\ o.at = "refund_lock" /\ o.id = q
        /\ o.receipt = request[q].receipt
        /\ o.product = request[q].product
        /\ o.quantity = request[q].quantity
    BY <1>1, <1>2 DEF Idle, Operation, Points, RefundPoints
  <1>4. Becomes(w, o)
    BY DEF RefundRead
  <1> HIDE DEF o
  <1>5. op' \in [Workers -> Operation] /\ op'[w] = o /\ OthersStay(w)
    BY <1>3, <1>4, BecomesFacts
  <1>6. QED
    BY <1>3, <1>5

\* A return that is inserted knows only its request from then on.
LEMMA InsertedFacts ==
  ASSUME TypeOK, NEW w \in Workers, op[w].id \in Requests, CreateInsert(w)
  PROVE  /\ op' \in [Workers -> Operation]
         /\ op'[w].at = "approve" /\ op'[w].id = op[w].id
         /\ OthersStay(w)
  <1> DEFINE o == [Idle EXCEPT !.at = "approve", !.id = op[w].id]
  <1>1. o \in Operation /\ o.at = "approve" /\ o.id = op[w].id
    BY DEF Idle, Operation, Points
  <1>2. Becomes(w, o)
    BY DEF CreateInsert
  <1> HIDE DEF o
  <1>3. op' \in [Workers -> Operation] /\ op'[w] = o /\ OthersStay(w)
    BY <1>1, <1>2, BecomesFacts
  <1>4. QED
    BY <1>1, <1>3

\* Every worker but one has what it had.
RowsStay(w) == \A v \in Workers : v # w => rows'[v] = rows[v]
PursesStay(w) == \A v \in Workers : v # w => purse'[v] = purse[v]

\* The view a transaction has of a product it locks: k pieces more than it saw.
LEMMA AddsFacts ==
  ASSUME TypeOK, NEW w \in Workers, NEW p \in Products, NEW k \in Int, Adds(w, p, k)
  PROVE  /\ rows' = [v \in Workers |-> rows'[v]]
         /\ \A v \in Workers : \E S \in SUBSET Products : rows'[v] \in [S -> Int]
         /\ DOMAIN rows'[w] = DOMAIN rows[w] \cup {p}
         /\ \A x \in DOMAIN rows[w] : x # p => rows'[w][x] = rows[w][x]
         /\ rows'[w][p] = View(w, p) + k
         /\ RowsStay(w)
  <1> DEFINE f == [x \in DOMAIN rows[w] \cup {p} |->
                     IF x = p THEN View(w, p) + k ELSE rows[w][x]]
  <1>1. rows = [v \in Workers |-> rows[v]] /\ stock \in [Products -> Int]
    BY DEF TypeOK
  <1>2. PICK S \in SUBSET Products : rows[w] \in [S -> Int]
    BY DEF TypeOK
  <1>3. View(w, p) \in Int
    BY <1>1, <1>2 DEF View
  <1>4. f \in [S \cup {p} -> Int]
    BY <1>2, <1>3
  <1>5. rows' = [rows EXCEPT ![w] = f]
    BY DEF Adds
  <1>6. /\ DOMAIN f = DOMAIN rows[w] \cup {p}
        /\ \A x \in DOMAIN rows[w] : x # p => f[x] = rows[w][x]
        /\ f[p] = View(w, p) + k
    OBVIOUS
  <1> HIDE DEF f
  <1>7. rows' = [v \in Workers |-> IF v = w THEN f ELSE rows[v]]
    BY <1>1, <1>5
  <1>8. rows'[w] = f /\ RowsStay(w) /\ rows' = [v \in Workers |-> rows'[v]]
    BY <1>7 DEF RowsStay
  <1>9. ASSUME NEW v \in Workers
        PROVE  \E T \in SUBSET Products : rows'[v] \in [T -> Int]
    <2>1. CASE v = w
      <3>1. S \cup {p} \in SUBSET Products
        BY <1>2
      <3>2. QED
        BY <2>1, <1>4, <1>8, <3>1
    <2>2. CASE v # w
      BY <2>2, <1>8 DEF TypeOK, RowsStay
    <2>3. QED
      BY <2>1, <2>2
  <1>10. QED
    BY <1>6, <1>8, <1>9

\* A transaction that ends holds nothing any more.
LEMMA ForgetFacts ==
  ASSUME TypeOK, NEW w \in Workers, Forget(w)
  PROVE  /\ rows' = [v \in Workers |-> rows'[v]]
         /\ \A v \in Workers : \E S \in SUBSET Products : rows'[v] \in [S -> Int]
         /\ DOMAIN rows'[w] = {}
         /\ RowsStay(w)
         /\ purse' \in [Workers -> Int]
         /\ PursesStay(w)
  <1>1. rows = [v \in Workers |-> rows[v]] /\ purse \in [Workers -> Int]
    BY DEF TypeOK
  <1>2. rows' = [rows EXCEPT ![w] = <<>>] /\ purse' = [purse EXCEPT ![w] = 0]
    BY DEF Forget
  <1>3. purse' \in [Workers -> Int] /\ PursesStay(w)
    BY <1>1, <1>2 DEF PursesStay
  <1>4. rows' = [v \in Workers |-> IF v = w THEN <<>> ELSE rows[v]]
    BY <1>1, <1>2
  <1>5. rows'[w] = <<>> /\ RowsStay(w) /\ rows' = [v \in Workers |-> rows'[v]]
    BY <1>4 DEF RowsStay
  <1>6. DOMAIN rows'[w] = {}
    BY <1>5
  <1>7. <<>> \in [{} -> Int]
    OBVIOUS
  <1>8. ASSUME NEW v \in Workers
        PROVE  \E T \in SUBSET Products : rows'[v] \in [T -> Int]
    <2>1. CASE v = w
      BY <2>1, <1>5, <1>7
    <2>2. CASE v # w
      BY <2>2, <1>5 DEF TypeOK, RowsStay
    <2>3. QED
      BY <2>1, <2>2
  <1>9. QED
    BY <1>3, <1>5, <1>6, <1>8

-----------------------------------------------------------------------------
(* The steps *)

\* A transaction is rolled back, by an error or by the deadlock detection.
Rolls(w) ==
  /\ Rollback(w)
  /\ events' = events \/ (events < MaxEvents /\ events' = events + 1)

\* A request comes in, or an operation moves on and writes nothing.
Quiet(w) ==
  \/ Arrives(w) \/ VoidLock(w) \/ RefundLock(w) \/ ApproveLost(w)

StepOf(w) ==
  \/ Quiet(w)
  \/ VoidItem(w) \/ Restore(w) \/ Deduct(w)
  \/ VoidWallet(w) \/ RefundWallet(w)
  \/ VoidCommit(w) \/ RefundCommit(w)
  \/ CreateInsert(w) \/ Approve(w)
  \/ Rolls(w)

\* Every step is one of a worker, an edit of a request, a crash or a stutter.
LEMMA NextCases ==
  ASSUME [Next]_vars
  PROVE  \/ \E w \in Workers : StepOf(w)
         \/ \E q \in Requests : UpdateReturn(q) \/ DeleteReturn(q)
         \/ Crash
         \/ UNCHANGED vars
  <1>1. ASSUME NEW w \in Workers, Works(w)
        PROVE  StepOf(w)
    <2>1. DeadlockVictim(w) => Rolls(w)
      BY DEF DeadlockVictim, Rolls
    <2>2. QED
      BY <1>1, <2>1 DEF Works, StepOf, Quiet
  <1>2. ASSUME NEW w \in Workers, Arrives(w)
        PROVE  StepOf(w)
    BY <1>2 DEF StepOf, Quiet
  <1>3. ASSUME NEW w \in Workers, Fails(w)
        PROVE  StepOf(w)
    BY <1>3 DEF Fails, Rolls, StepOf
  <1>4. QED
    BY <1>1, <1>2, <1>3 DEF Next

OnlyMoves(w) ==
  /\ op' \in [Workers -> Operation]
  /\ OthersStay(w)
  /\ UNCHANGED <<committed, request, bypassed, rows, purse, events>>

\* What a quiet step changes: the operation, and only that.
LEMMA QuietFacts ==
  ASSUME TypeOK, NEW w \in Workers, Quiet(w)
  PROVE  OnlyMoves(w)
  <1>1. CASE Arrives(w)
    <2>1. ASSUME NEW r \in Receipts, VoidArrives(w, r)
          PROVE  OnlyMoves(w)
      BY <2>1, VoidArrivesFacts DEF VoidArrives, OnlyMoves
    <2>2. ASSUME NEW q \in Requests, NEW r \in Receipts, NEW p \in Products,
                 NEW c \in Claims[r][p], NEW k \in 1..c, CreateRead(w, q, r, p, c, k)
          PROVE  OnlyMoves(w)
      BY <2>2, CreateReadFacts DEF CreateRead, OnlyMoves
    <2>3. ASSUME NEW q \in Requests, NEW p \in LooseProducts, CreateWithoutReceipt(w, q, p, 1)
          PROVE  OnlyMoves(w)
      BY <2>3, LooseFacts DEF CreateWithoutReceipt, OnlyMoves
    <2>4. ASSUME NEW q \in Requests, NEW x \in NewProducts \cup {NoProduct},
                 RefundRead(w, q, x)
          PROVE  OnlyMoves(w)
      BY <2>4, RefundReadFacts DEF RefundRead, OnlyMoves
    <2>5. QED
      BY <1>1, <2>1, <2>2, <2>3, <2>4 DEF Arrives
  <1>2. CASE VoidLock(w)
    <2>1. "void_items" \in Points
      BY DEF Points, VoidPoints
    <2>2. Ends(w) \/ Goto(w, "void_items")
      BY <1>2 DEF VoidLock
    <2>3. op' \in [Workers -> Operation] /\ OthersStay(w)
      BY <2>1, <2>2, EndsFacts, GotoFacts
    <2>4. QED
      BY <1>2, <2>3 DEF VoidLock, OnlyMoves
  <1>3. CASE RefundLock(w)
    <2>1. "restore" \in Points
      BY DEF Points, RefundPoints
    <2>2. Ends(w) \/ Goto(w, "restore")
      BY <1>3 DEF RefundLock
    <2>3. op' \in [Workers -> Operation] /\ OthersStay(w)
      BY <2>1, <2>2, EndsFacts, GotoFacts
    <2>4. QED
      BY <1>3, <2>3 DEF RefundLock, OnlyMoves
  <1>4. CASE ApproveLost(w)
    BY <1>4, EndsFacts DEF ApproveLost, OnlyMoves
  <1>5. QED
    BY <1>1, <1>2, <1>3, <1>4 DEF Quiet

\* What is known of an operation.
LEMMA OpFacts ==
  ASSUME TypeOK, OpsAgree, NEW w \in Workers
  PROVE  op[w] \in Operation /\ OpOf(w)
  BY DEF TypeOK, OpsAgree

\* The item a void restores, and where it goes from there.
LEMMA VoidItemFacts ==
  ASSUME TypeOK, OpsAgree, NEW w \in Workers, VoidItem(w)
  PROVE  /\ op[w].at = "void_items"
         /\ op[w].receipt \in Receipts
         /\ op[w].product \in Items(op[w].receipt) \ op[w].left
         /\ op[w].left \subseteq Items(op[w].receipt)
         /\ op[w].product \in Products
         /\ Bought[op[w].receipt][op[w].product] \in Nat
         /\ op' \in [Workers -> Operation]
         /\ OthersStay(w)
         /\ op'[w].receipt = op[w].receipt /\ op'[w].id = op[w].id
         /\ \/ /\ op'[w].at = "void_items"
               /\ op'[w].product \in op[w].left
               /\ op'[w].left = op[w].left \ {op'[w].product}
            \/ /\ op[w].left = {}
               /\ op'[w].at = "void_wallet" /\ Method[op[w].receipt] = "WALLET"
            \/ /\ op[w].left = {}
               /\ op'[w].at = "void_commit" /\ Method[op[w].receipt] # "WALLET"
  <1>1. op[w] \in Operation /\ OpOf(w)
    BY OpFacts
  <1>2. /\ op[w].at = "void_items"
        /\ op[w].receipt \in Receipts
        /\ op[w].product \in Items(op[w].receipt) \ op[w].left
        /\ op[w].left \subseteq Items(op[w].receipt)
    BY <1>1 DEF VoidItem, OpOf, VoidPoints
  <1>3. op[w].product \in Products /\ op[w].left \subseteq Products
    BY <1>2 DEF Items
  <1>4. Bought[op[w].receipt][op[w].product] \in Nat
    BY <1>2, <1>3, ConstantFacts
  <1>5. CASE \E next \in op[w].left :
               Becomes(w, [op[w] EXCEPT !.product = next, !.left = @ \ {next}])
    <2>1. PICK next \in op[w].left :
               Becomes(w, [op[w] EXCEPT !.product = next, !.left = @ \ {next}])
      BY <1>5
    <2> DEFINE o == [op[w] EXCEPT !.product = next, !.left = @ \ {next}]
    <2>2. /\ o \in Operation
          /\ o.at = op[w].at /\ o.receipt = op[w].receipt /\ o.id = op[w].id
          /\ o.product = next /\ o.left = op[w].left \ {next}
      BY <1>1, <1>3 DEF Operation
    <2> HIDE DEF o
    <2>3. op' \in [Workers -> Operation] /\ op'[w] = o /\ OthersStay(w)
      BY <2>1, <2>2, BecomesFacts DEF o
    <2>4. QED
      BY <1>2, <1>3, <1>4, <2>2, <2>3
  <1>6. CASE /\ op[w].left = {}
             /\ Goto(w, IF Method[op[w].receipt] = "WALLET"
                        THEN "void_wallet" ELSE "void_commit")
    <2>1. "void_wallet" \in Points /\ "void_commit" \in Points
      BY DEF Points, VoidPoints
    <2>2. CASE Method[op[w].receipt] = "WALLET"
      <3>1. Goto(w, "void_wallet")
        BY <1>6, <2>2
      <3>2. QED
        BY <1>2, <1>3, <1>4, <1>6, <2>1, <2>2, <3>1, GotoFacts
    <2>3. CASE Method[op[w].receipt] # "WALLET"
      <3>1. Goto(w, "void_commit")
        BY <1>6, <2>3
      <3>2. QED
        BY <1>2, <1>3, <1>4, <1>6, <2>1, <2>3, <3>1, GotoFacts
    <2>4. QED
      BY <2>2, <2>3
  <1>7. QED
    BY <1>5, <1>6 DEF VoidItem

\* A refund or an exchange keeps what it knows while it moves on.
Advances(w) ==
  /\ op' \in [Workers -> Operation]
  /\ OthersStay(w)
  /\ op'[w].receipt = op[w].receipt /\ op'[w].id = op[w].id
  /\ op'[w].product = op[w].product /\ op'[w].quantity = op[w].quantity
  /\ op'[w].exchange = op[w].exchange

\* An operation that goes on advances.
LEMMA GotoAdvances ==
  ASSUME TypeOK, NEW w \in Workers, NEW point \in Points, Goto(w, point)
  PROVE  Advances(w) /\ op'[w].at = point
  BY GotoFacts DEF Advances

\* What a refund or exchange knows inside its transaction.
LEMMA RefundFacts ==
  ASSUME TypeOK, OpsAgree, RequestsAgree, NEW w \in Workers, op[w].at \in InRefund
  PROVE  /\ op[w].id \in Requests
         /\ request[op[w].id].status = "pending"
         /\ op[w].receipt = request[op[w].id].receipt
         /\ op[w].product = request[op[w].id].product
         /\ op[w].receipt \in Receipts \cup {NoReceipt}
         /\ op[w].product \in Products
         /\ op[w].quantity \in Nat
         /\ op[w].exchange \in Products \cup {NoProduct}
         /\ op[w].receipt \in Receipts \ bypassed =>
              op[w].quantity = request[op[w].id].quantity
  <1>1. op[w] \in Operation /\ OpOf(w)
    BY OpFacts
  <1>2. op[w].at \in RefundPoints
    BY DEF InRefund, RefundPoints
  <1>3. /\ op[w].id \in Requests
        /\ request[op[w].id].status = "pending"
        /\ op[w].receipt = request[op[w].id].receipt
        /\ op[w].product = request[op[w].id].product
        /\ op[w].receipt \in Receipts \ bypassed =>
             op[w].quantity = request[op[w].id].quantity
    BY <1>1, <1>2 DEF OpOf
  <1>4. RequestOf(op[w].id)
    BY <1>3 DEF RequestsAgree
  <1>5. op[w].product \in Products
    BY <1>3, <1>4 DEF RequestOf
  <1>6. QED
    BY <1>1, <1>3, <1>5, OperationFields

\* Where a refund or exchange goes when it has restored the returned product.
LEMMA RestoreFacts ==
  ASSUME TypeOK, OpsAgree, RequestsAgree, NEW w \in Workers, Restore(w)
  PROVE  /\ op[w].at = "restore"
         /\ Advances(w)
         /\ \/ op'[w].at = "deduct" /\ op[w].exchange # NoProduct
            \/ /\ op'[w].at = "refund_wallet" /\ op[w].exchange = NoProduct
               /\ op[w].receipt # NoReceipt /\ Method[op[w].receipt] # "CASH"
            \/ /\ op'[w].at = "refund_commit" /\ op[w].exchange = NoProduct
               /\ op[w].receipt = NoReceipt \/ Method[op[w].receipt] = "CASH"
  <1>1. /\ "deduct" \in Points /\ "refund_commit" \in Points /\ "refund_wallet" \in Points
    BY DEF Points, RefundPoints
  <1>2. op[w].at = "restore"
    BY DEF Restore
  <1>3. CASE op[w].exchange # NoProduct
    <2>1. Goto(w, "deduct")
      BY <1>3 DEF Restore
    <2>2. QED
      BY <1>1, <1>2, <1>3, <2>1, GotoAdvances
  <1>4. CASE op[w].exchange = NoProduct
    <2>1. CASE op[w].receipt # NoReceipt /\ Method[op[w].receipt] # "CASH"
      <3>1. Goto(w, "refund_wallet")
        BY <1>4, <2>1 DEF Restore
      <3>2. QED
        BY <1>1, <1>2, <1>4, <2>1, <3>1, GotoAdvances
    <2>2. CASE op[w].receipt = NoReceipt \/ Method[op[w].receipt] = "CASH"
      <3>1. Goto(w, "refund_commit")
        BY <1>4, <2>2 DEF Restore
      <3>2. QED
        BY <1>1, <1>2, <1>4, <2>2, <3>1, GotoAdvances
    <2>3. QED
      BY <2>1, <2>2
  <1>5. QED
    BY <1>3, <1>4

\* An exchange gives the new product and commits.
LEMMA DeductFacts ==
  ASSUME TypeOK, OpsAgree, NEW w \in Workers, Deduct(w)
  PROVE  /\ op[w].at = "deduct" /\ op'[w].at = "refund_commit"
         /\ Advances(w)
         /\ op[w].exchange \in Products
  <1>1. "refund_commit" \in Points
    BY DEF Points, RefundPoints
  <1>2. op[w] \in Operation /\ OpOf(w)
    BY OpFacts
  <1>3. op[w].at = "deduct" /\ Goto(w, "refund_commit")
    BY DEF Deduct
  <1>4. op[w].exchange \in Products
    BY <1>2, <1>3, OperationFields DEF OpOf
  <1>5. QED
    BY <1>1, <1>3, <1>4, GotoAdvances

\* A void that pays back.
LEMMA VoidWalletFacts ==
  ASSUME TypeOK, OpsAgree, NEW w \in Workers, VoidWallet(w)
  PROVE  /\ op[w].at = "void_wallet" /\ op'[w].at = "void_commit"
         /\ Advances(w)
         /\ op[w].receipt \in Receipts
         /\ Method[op[w].receipt] = "WALLET"
  <1>1. "void_commit" \in Points
    BY DEF Points, VoidPoints
  <1>2. op[w] \in Operation /\ OpOf(w)
    BY OpFacts
  <1>3. op[w].at = "void_wallet" /\ Goto(w, "void_commit")
    BY DEF VoidWallet
  <1>4. op[w].receipt \in Receipts /\ Method[op[w].receipt] = "WALLET"
    BY <1>2, <1>3 DEF OpOf, VoidPoints
  <1>5. QED
    BY <1>1, <1>3, <1>4, GotoAdvances

\* A refund that pays back.
LEMMA RefundWalletFacts ==
  ASSUME TypeOK, OpsAgree, NEW w \in Workers, RefundWallet(w)
  PROVE  /\ op[w].at = "refund_wallet" /\ op'[w].at = "refund_commit"
         /\ Advances(w)
         /\ op[w].receipt \in Receipts
         /\ op[w].exchange = NoProduct
         /\ Method[op[w].receipt] # "CASH"
  <1>1. "refund_commit" \in Points
    BY DEF Points, RefundPoints
  <1>2. op[w] \in Operation /\ OpOf(w)
    BY OpFacts
  <1>3. op[w].at = "refund_wallet" /\ Goto(w, "refund_commit")
    BY DEF RefundWallet
  <1>4. /\ op[w].receipt \in Receipts /\ op[w].exchange = NoProduct
        /\ Method[op[w].receipt] # "CASH"
    BY <1>2, <1>3, OperationFields DEF OpOf
  <1>5. QED
    BY <1>1, <1>3, <1>4, GotoAdvances

\* What a commit makes visible of stock and balance.
LEMMA CommitFacts ==
  ASSUME TypeOK, NEW w \in Workers, CommitBooks(w)
  PROVE  /\ stock' \in [Products -> Int]
         /\ \A p \in Products : stock'[p] = View(w, p)
         /\ balance' \in [Wallets -> Int]
         /\ \A x \in Wallets :
              balance'[x] = IF HoldsWallet(w, x) THEN purse[w] ELSE balance[x]
  <1>1. stock \in [Products -> Int] /\ balance \in [Wallets -> Int] /\ purse[w] \in Int
    BY DEF TypeOK
  <1>2. PICK S \in SUBSET Products : rows[w] \in [S -> Int]
    BY DEF TypeOK
  <1>3. \A p \in Products : View(w, p) \in Int
    BY <1>1, <1>2 DEF View
  <1>4. stock' = [p \in Products |-> View(w, p)]
    BY DEF CommitBooks
  <1>5. stock' \in [Products -> Int] /\ \A p \in Products : stock'[p] = View(w, p)
    BY <1>3, <1>4
  <1>6. CASE PaysBack(w)
    <2>1. balance' = [balance EXCEPT ![WalletOf[op[w].receipt]] = purse[w]]
      BY <1>6 DEF CommitBooks
    <2>2. QED
      BY <1>1, <1>5, <1>6, <2>1 DEF HoldsWallet
  <1>7. CASE ~PaysBack(w)
    <2>1. balance' = balance
      BY <1>7 DEF CommitBooks
    <2>2. QED
      BY <1>1, <1>5, <1>7, <2>1 DEF HoldsWallet
  <1>8. QED
    BY <1>6, <1>7

\* A request whose status is set keeps the rest.
LEMMA StatusFacts ==
  ASSUME TypeOK, NEW q \in Requests, NEW s \in Statuses \cup {"none", "deleted"},
         request' = [request EXCEPT ![q].status = s]
  PROVE  /\ request' \in [Requests -> Request]
         /\ request'[q].status = s
         /\ request'[q].receipt = request[q].receipt
         /\ request'[q].product = request[q].product
         /\ request'[q].quantity = request[q].quantity
         /\ request'[q].purchased = request[q].purchased
         /\ \A x \in Requests : x # q => request'[x] = request[x]
  <1> DEFINE new == [request[q] EXCEPT !.status = s]
  <1>1. request \in [Requests -> Request] /\ request[q] \in Request
    BY DEF TypeOK
  <1>2. /\ new \in Request /\ new.status = s
        /\ new.receipt = request[q].receipt /\ new.product = request[q].product
        /\ new.quantity = request[q].quantity
        /\ new.purchased = request[q].purchased
    BY <1>1 DEF Request
  <1>3. request' = [request EXCEPT ![q] = new]
    OBVIOUS
  <1> HIDE DEF new
  <1>4. QED
    BY <1>1, <1>2, <1>3

\* So does one whose quantity is raised.
LEMMA QuantityFacts ==
  ASSUME TypeOK, NEW q \in Requests, request' = [request EXCEPT ![q].quantity = @ + 1]
  PROVE  /\ request' \in [Requests -> Request]
         /\ request'[q].status = request[q].status
         /\ request'[q].receipt = request[q].receipt
         /\ request'[q].product = request[q].product
         /\ \A x \in Requests : x # q => request'[x] = request[x]
  <1> DEFINE new == [request[q] EXCEPT !.quantity = @ + 1]
  <1>1. request \in [Requests -> Request] /\ request[q] \in Request
    BY DEF TypeOK
  <1>2. /\ new \in Request /\ new.status = request[q].status
        /\ new.receipt = request[q].receipt /\ new.product = request[q].product
    BY <1>1 DEF Request
  <1>3. request' = [request EXCEPT ![q] = new]
    OBVIOUS
  <1> HIDE DEF new
  <1>4. QED
    BY <1>1, <1>2, <1>3

\* The statuses that the steps set.
LEMMA StatusTypes ==
  /\ "approved" \in Statuses \cup {"none", "deleted"}
  /\ \A s \in Statuses \cup {"deleted"} : s \in Statuses \cup {"none", "deleted"}
  /\ TypeOK => \A q \in Requests : request[q].status \in Statuses \cup {"none", "deleted"}
  <1>1. TypeOK => \A q \in Requests : request[q].status \in Statuses \cup {"none", "deleted"}
    BY DEF TypeOK, Request
  <1>2. QED
    BY <1>1 DEF Statuses

\* A request whose status is edited or that is deleted still exists.
LEMMA StatusEdited ==
  ASSUME TypeOK, NEW q \in Requests, NEW s \in Statuses \cup {"deleted"},
         request' = [request EXCEPT ![q].status = s]
  PROVE  /\ s # "none" /\ request'[q].status = s /\ request'[q].status # "none"
         /\ request'[q].receipt = request[q].receipt
         /\ request'[q].product = request[q].product
         /\ request'[q].quantity = request[q].quantity
         /\ \A x \in Requests : x # q => request'[x] = request[x]
  <1>1. s # "none"
    BY DEF Statuses
  <1>2. s \in Statuses \cup {"none", "deleted"}
    OBVIOUS
  <1>3. /\ request'[q].status = s
        /\ request'[q].receipt = request[q].receipt
        /\ request'[q].product = request[q].product
        /\ request'[q].quantity = request[q].quantity
        /\ \A x \in Requests : x # q => request'[x] = request[x]
    BY <1>2, StatusFacts
  <1>4. QED
    BY <1>1, <1>3

\* A counter that grows is still a counter.
LEMMA CounterFacts ==
  ASSUME NEW S, NEW f \in [S -> Nat], NEW x \in S, NEW k \in Nat
  PROVE  /\ [f EXCEPT ![x] = @ + k] \in [S -> Nat]
         /\ [f EXCEPT ![x] = @ + k][x] = f[x] + k
         /\ \A y \in S : y # x => [f EXCEPT ![x] = @ + k][y] = f[y]
  OBVIOUS

\* The variables keep their types, whatever step is taken.
LEMMA TypePreserved ==
  ASSUME TypeOK, OpsAgree, RequestsAgree, [Next]_vars
  PROVE  TypeOK'
  <1> DEFINE Rest == /\ stock' \in [Products -> Int]
                     /\ balance' \in [Wallets -> Int]
                     /\ voided' \in [Receipts -> Nat]
                     /\ given' \in [Requests -> Nat]
                     /\ refunded' \in [Requests -> Nat]
                     /\ processed' \in [Requests -> Nat]
                     /\ exchanged' \in [Products -> Nat]
             Views == /\ rows' = [w \in Workers |-> rows'[w]]
                      /\ \A w \in Workers : \E S \in SUBSET Products : rows'[w] \in [S -> Int]
             Asks == request' \in [Requests -> Request] /\ bypassed' \subseteq Receipts \cup {NoReceipt}
  <1>1. UNCHANGED committed => Rest
    BY DEF TypeOK, committed
  <1>2. UNCHANGED rows => Views
    BY DEF TypeOK
  <1>3. UNCHANGED <<request, bypassed>> => Asks
    BY DEF TypeOK
  <1>4. UNCHANGED op => op' \in [Workers -> Operation]
    BY DEF TypeOK
  <1>5. UNCHANGED purse => purse' \in [Workers -> Int]
    BY DEF TypeOK
  <1>6. UNCHANGED events => events' \in 0..MaxEvents
    BY DEF TypeOK
  <1>7. ASSUME Rest, Views, Asks, op' \in [Workers -> Operation],
               purse' \in [Workers -> Int], events' \in 0..MaxEvents
        PROVE  TypeOK'
    BY <1>7 DEF TypeOK
  <1>8. events < MaxEvents /\ events' = events + 1 => events' \in 0..MaxEvents
    BY ConstantFacts DEF TypeOK
  <1> HIDE DEF Rest, Views, Asks
  <1>9. ASSUME NEW w \in Workers, StepOf(w)
        PROVE  TypeOK'
    <2>1. CASE Quiet(w)
      BY <2>1, QuietFacts, <1>1, <1>2, <1>3, <1>5, <1>6, <1>7 DEF OnlyMoves
    <2>2. CASE VoidItem(w)
      <3>1. Adds(w, op[w].product, Bought[op[w].receipt][op[w].product])
        BY <2>2 DEF VoidItem
      <3>2. op' \in [Workers -> Operation] /\ Views
        <4>1. /\ op' \in [Workers -> Operation] /\ op[w].product \in Products
              /\ Bought[op[w].receipt][op[w].product] \in Int
          BY <2>2, VoidItemFacts
        <4>2. QED
          BY <3>1, <4>1, AddsFacts DEF Views
      <3>3. UNCHANGED <<committed, request, bypassed, purse, events>>
        BY <2>2 DEF VoidItem
      <3>4. QED
        BY <3>2, <3>3, <1>1, <1>3, <1>5, <1>6, <1>7
    <2>3. CASE Restore(w)
      <3>1. Adds(w, op[w].product, op[w].quantity) /\ op[w].at \in InRefund
        BY <2>3 DEF Restore, InRefund
      <3>2. op[w].product \in Products /\ op[w].quantity \in Int
        BY <3>1, RefundFacts
      <3>3. op' \in [Workers -> Operation] /\ Views
        BY <2>3, <3>1, <3>2, RestoreFacts, AddsFacts DEF Views, Advances
      <3>4. UNCHANGED <<committed, request, bypassed, purse, events>>
        BY <2>3 DEF Restore
      <3>5. QED
        BY <3>3, <3>4, <1>1, <1>3, <1>5, <1>6, <1>7
    <2>4. CASE Deduct(w)
      <3>1. Adds(w, op[w].exchange, -1)
        BY <2>4 DEF Deduct
      <3>2. op' \in [Workers -> Operation] /\ Views
        <4>1. op' \in [Workers -> Operation] /\ op[w].exchange \in Products
          BY <2>4, DeductFacts DEF Advances
        <4>2. -1 \in Int
          OBVIOUS
        <4>3. QED
          BY <3>1, <4>1, <4>2, AddsFacts DEF Views
      <3>3. UNCHANGED <<committed, request, bypassed, purse, events>>
        BY <2>4 DEF Deduct
      <3>4. QED
        BY <3>2, <3>3, <1>1, <1>3, <1>5, <1>6, <1>7
    <2>5. CASE VoidWallet(w)
      <3>1. op' \in [Workers -> Operation] /\ op[w].receipt \in Receipts
        BY <2>5, VoidWalletFacts DEF Advances
      <3>2. balance[WalletOf[op[w].receipt]] + Total(op[w].receipt) \in Int
        BY <3>1, TotalType, ConstantFacts DEF TypeOK
      <3>3. /\ purse' = [purse EXCEPT ![w] =
                           balance[WalletOf[op[w].receipt]] + Total(op[w].receipt)]
            /\ UNCHANGED <<committed, request, bypassed, rows, events>>
        BY <2>5 DEF VoidWallet
      <3>4. purse' \in [Workers -> Int]
        BY <3>2, <3>3 DEF TypeOK
      <3>5. QED
        BY <3>1, <3>3, <3>4, <1>1, <1>2, <1>3, <1>6, <1>7
    <2>6. CASE RefundWallet(w)
      <3>1. op' \in [Workers -> Operation] /\ op[w].receipt \in Receipts
        BY <2>6, RefundWalletFacts DEF Advances
      <3>2. balance[WalletOf[op[w].receipt]] + op[w].quantity \in Int
        <4>1. op[w].quantity \in Nat
          BY DEF TypeOK, Operation
        <4>2. QED
          BY <3>1, <4>1, ConstantFacts DEF TypeOK
      <3>3. /\ purse' = [purse EXCEPT ![w] =
                           balance[WalletOf[op[w].receipt]] + op[w].quantity]
            /\ UNCHANGED <<committed, request, bypassed, rows, events>>
        BY <2>6 DEF RefundWallet
      <3>4. purse' \in [Workers -> Int]
        BY <3>2, <3>3 DEF TypeOK
      <3>5. QED
        BY <3>1, <3>3, <3>4, <1>1, <1>2, <1>3, <1>6, <1>7
    <2>7. CASE VoidCommit(w)
      <3>1. /\ CommitBooks(w) /\ Forget(w) /\ Ends(w)
            /\ voided' = [voided EXCEPT ![op[w].receipt] = @ + 1]
            /\ UNCHANGED <<request, given, refunded, processed, exchanged, bypassed, events>>
        BY <2>7 DEF VoidCommit, CommitBooks
      <3>2. Views /\ purse' \in [Workers -> Int] /\ op' \in [Workers -> Operation]
        BY <3>1, ForgetFacts, EndsFacts DEF Views
      <3>3. Rest
        <4>1. stock' \in [Products -> Int] /\ balance' \in [Wallets -> Int]
          BY <3>1, CommitFacts
        <4>2. voided' \in [Receipts -> Nat]
          <5>1. OpOf(w) /\ op[w].at = "void_commit"
            BY <2>7, OpFacts DEF VoidCommit
          <5>2. op[w].receipt \in Receipts /\ voided \in [Receipts -> Nat]
            BY <5>1 DEF OpOf, VoidPoints, TypeOK
          <5>3. QED
            BY <3>1, <5>2
        <4>3. QED
          BY <3>1, <4>1, <4>2 DEF Rest, TypeOK
      <3>4. QED
        BY <3>1, <3>2, <3>3, <1>3, <1>6, <1>7
    <2>8. CASE RefundCommit(w)
      <3> DEFINE q == op[w].id
                 k == op[w].quantity
      <3>1. /\ CommitBooks(w) /\ Forget(w) /\ Ends(w)
            /\ request' = [request EXCEPT ![q].status = "approved"]
            /\ processed' = [processed EXCEPT ![q] = @ + 1]
            /\ given' = [given EXCEPT ![q] = @ + k]
            /\ \/ refunded' = [refunded EXCEPT ![q] = @ + k]
               \/ refunded' = refunded
            /\ \/ exchanged' = exchanged
               \/ exchanged' = [exchanged EXCEPT ![op[w].exchange] = @ + 1]
            /\ UNCHANGED <<voided, bypassed, events>>
        BY <2>8 DEF RefundCommit, CommitBooks
      <3>2. Views /\ purse' \in [Workers -> Int] /\ op' \in [Workers -> Operation]
        BY <3>1, ForgetFacts, EndsFacts DEF Views
      <3>3. k \in Nat
        BY DEF TypeOK, Operation
      <3>4. Rest
        <4>1. given' \in [Requests -> Nat] /\ processed' \in [Requests -> Nat]
          <5>1. given \in [Requests -> Nat] /\ processed \in [Requests -> Nat]
            BY DEF TypeOK
          <5>2. q \in Requests
            BY <2>8, RefundFacts DEF RefundCommit, InRefund
          <5>3. given' \in [Requests -> Nat]
            BY <3>1, <3>3, <5>1, <5>2, CounterFacts
          <5>4. processed' \in [Requests -> Nat]
            BY <3>1, <5>1, <5>2
          <5>5. QED
            BY <5>3, <5>4
        <4>2. refunded' \in [Requests -> Nat]
          BY <3>1, <3>3 DEF TypeOK
        <4>3. exchanged' \in [Products -> Nat]
          BY <3>1 DEF TypeOK
        <4>4. voided' \in [Receipts -> Nat]
          BY <3>1 DEF TypeOK
        <4>5. QED
          BY <3>1, <4>1, <4>2, <4>3, <4>4, CommitFacts DEF Rest
      <3>5. Asks
        <4>1. bypassed' \subseteq Receipts \cup {NoReceipt}
          BY <3>1 DEF TypeOK
        <4>2. q \in Requests
          BY <2>8, RefundFacts DEF RefundCommit, InRefund
        <4>3. request' \in [Requests -> Request]
          BY <3>1, <4>2, StatusFacts, StatusTypes
        <4>4. QED
          BY <4>1, <4>3 DEF Asks
      <3>6. QED
        BY <3>1, <3>2, <3>4, <3>5, <1>6, <1>7
    <2>9. CASE CreateInsert(w)
      <3>1. op[w] \in Operation /\ OpOf(w) /\ op[w].at = "insert"
        BY <2>9, OpFacts DEF CreateInsert
      <3>2. op[w].id \in Requests
        BY <3>1 DEF OpOf
      <3>3. op' \in [Workers -> Operation]
        BY <2>9, <3>2, InsertedFacts
      <3> DEFINE new == [status |-> "pending", receipt |-> op[w].receipt,
                         product |-> op[w].product, purchased |-> op[w].purchased,
                     quantity |-> op[w].quantity]
      <3>4. new \in Request
        BY <3>1, OperationFields DEF Request, Statuses
      <3>5. /\ request' = [request EXCEPT ![op[w].id] = new]
            /\ bypassed' = bypassed \/ (bypassed' = bypassed \cup {op[w].receipt}
                                          /\ op[w].receipt # NoReceipt)
            /\ UNCHANGED <<committed, rows, purse, events>>
        BY <2>9 DEF CreateInsert
      <3>6. Asks
        <4>1. request' \in [Requests -> Request]
          BY <3>4, <3>5 DEF TypeOK
        <4>2. bypassed' \subseteq Receipts \cup {NoReceipt}
          BY <3>1, <3>5, OperationFields DEF TypeOK
        <4>3. QED
          BY <4>1, <4>2 DEF Asks
      <3>7. QED
        BY <3>3, <3>5, <3>6, <1>1, <1>2, <1>5, <1>6, <1>7
    <2>10. CASE Approve(w)
      <3>1. /\ Ends(w)
            /\ request' = [request EXCEPT ![op[w].id].status =
                             IF Exists(op[w].id) THEN "approved" ELSE @]
            /\ UNCHANGED <<committed, bypassed, rows, purse, events>>
        BY <2>10 DEF Approve
      <3>2. op' \in [Workers -> Operation]
        BY <3>1, EndsFacts
      <3>3. Asks
        <4>1. request' \in [Requests -> Request]
          <5> DEFINE s == IF Exists(op[w].id) THEN "approved" ELSE request[op[w].id].status
          <5>1. OpOf(w) /\ op[w].at = "approve"
            BY <2>10, OpFacts DEF Approve
          <5>2. op[w].id \in Requests
            BY <5>1 DEF OpOf
          <5>3. s \in Statuses \cup {"none", "deleted"}
            BY <5>2, StatusTypes
          <5>4. request' = [request EXCEPT ![op[w].id].status = s]
            BY <3>1
          <5> HIDE DEF s
          <5>5. QED
            BY <5>2, <5>3, <5>4, StatusFacts
        <4>2. QED
          BY <3>1, <4>1 DEF Asks, TypeOK
      <3>4. QED
        BY <3>1, <3>2, <3>3, <1>1, <1>2, <1>5, <1>6, <1>7
    <2>11. CASE Rolls(w)
      <3>1. /\ Forget(w) /\ Ends(w)
            /\ UNCHANGED <<committed, request, bypassed>>
            /\ events' \in 0..MaxEvents
        BY <2>11, <1>6, <1>8 DEF Rolls, Rollback
      <3>2. QED
        BY <3>1, ForgetFacts, EndsFacts, <1>1, <1>3, <1>7 DEF Views
    <2>12. QED
      BY <1>9, <2>1, <2>2, <2>3, <2>4, <2>5, <2>6, <2>7, <2>8, <2>9, <2>10, <2>11
         DEF StepOf
  <1>10. ASSUME NEW q \in Requests, UpdateReturn(q) \/ DeleteReturn(q)
         PROVE  TypeOK'
    <2>1. /\ events < MaxEvents /\ events' = events + 1
          /\ bypassed' = bypassed \cup {request[q].receipt}
          /\ UNCHANGED <<committed, op, rows, purse>>
      BY <1>10 DEF UpdateReturn, DeleteReturn, Edited
    <2>2. \/ \E s \in Statuses \cup {"deleted"} :
               request' = [request EXCEPT ![q].status = s]
          \/ request' = [request EXCEPT ![q].quantity = @ + 1]
      BY <1>10 DEF UpdateReturn, DeleteReturn
    <2>3. bypassed' \subseteq Receipts \cup {NoReceipt}
      BY <2>1 DEF TypeOK, Request
    <2>4. request' \in [Requests -> Request]
      <3>1. ASSUME NEW s \in Statuses \cup {"deleted"},
                   request' = [request EXCEPT ![q].status = s]
            PROVE  request' \in [Requests -> Request]
        BY <3>1, StatusTypes, StatusFacts
      <3>2. ASSUME request' = [request EXCEPT ![q].quantity = @ + 1]
            PROVE  request' \in [Requests -> Request]
        BY <3>2, QuantityFacts
      <3>3. QED
        BY <2>2, <3>1, <3>2
    <2>5. QED
      BY <2>1, <2>3, <2>4, <1>1, <1>2, <1>4, <1>5, <1>7, <1>8 DEF Asks
  <1>11. CASE Crash
    <2>1. /\ events < MaxEvents /\ events' = events + 1
          /\ op' = [w \in Workers |-> Idle]
          /\ rows' = [w \in Workers |-> <<>>]
          /\ purse' = [w \in Workers |-> 0]
          /\ UNCHANGED <<committed, request, bypassed>>
      BY <1>11 DEF Crash
    <2>2. op' \in [Workers -> Operation] /\ purse' \in [Workers -> Int]
      BY <2>1, IdleFacts
    <2>3. <<>> \in [{} -> Int]
      OBVIOUS
    <2>4. Views
      BY <2>1, <2>3 DEF Views
    <2>5. QED
      BY <2>1, <2>2, <2>4, <1>1, <1>3, <1>7, <1>8
  <1>12. CASE UNCHANGED vars
    BY <1>12, <1>1, <1>2, <1>3, <1>4, <1>5, <1>6, <1>7 DEF vars
  <1>13. QED
    BY <1>9, <1>10, <1>11, <1>12, NextCases

-----------------------------------------------------------------------------
(* What the operations know: OpsAgree *)

\* What the operation of v knows stays true.
Relies(v) ==
  /\ op[v].at \in InVoid => voided'[op[v].receipt] = 0
  /\ op[v].at = "insert" => request'[op[v].id].status = "none"
  /\ op[v].at \in RefundPoints \cup {"approve"} => request'[op[v].id].status # "none"
  /\ op[v].at \in RefundPoints =>
       /\ request'[op[v].id].receipt = request[op[v].id].receipt
       /\ request'[op[v].id].product = request[op[v].id].product
       /\ op[v].receipt \in Receipts \ bypassed' =>
            request'[op[v].id].quantity = request[op[v].id].quantity
  /\ op[v].at \in InRefund => request'[op[v].id].status = "pending"
OthersRely(w) == \A v \in Workers : v # w => Relies(v)

\* Nobody else is about to insert the request that w works on next.
FreshId(w) ==
  \/ op'[w].id \in {op[w].id, NoRequest}
  \/ request[op'[w].id].status # "none"
  \/ \A v \in Workers : op[v].id # op'[w].id

\* A transaction takes a receipt or a request when no other holds it.
Enters(w) ==
  /\ op'[w].at \in InVoid =>
       \/ op[w].at \in InVoid /\ op'[w].receipt = op[w].receipt
       \/ ReceiptFree(w, op'[w].receipt)
  /\ op'[w].at \in InRefund =>
       \/ op[w].at \in InRefund /\ op'[w].id = op[w].id
       \/ RequestFree(w, op'[w].id)

\* As long as no void commits and no request changes, all of it stays.
LEMMA NothingChanges ==
  ASSUME TypeOK, OpsAgree, NEW w \in Workers, UNCHANGED <<voided, request>>
  PROVE  OthersRely(w)
  <1>1. ASSUME NEW v \in Workers
        PROVE  Relies(v)
    <2>1. OpOf(v)
      BY DEF OpsAgree
    <2>2. QED
      BY <2>1 DEF OpOf, Relies
  <1>2. QED
    BY <1>1 DEF OthersRely

\* An operation that stays as it is still knows what it knew.
LEMMA OpStays ==
  ASSUME TypeOK, OpsAgree, NEW v \in Workers, op'[v] = op[v],
         bypassed \subseteq bypassed', Relies(v),
         op[v].at = "insert" => \A u \in Others(v) : op'[u].id # op[v].id
  PROVE  OpOf(v)'
  <1>1. OpOf(v)
    BY DEF OpsAgree
  <1>2. OpOf(v)' = (LET x == op'[v] IN
          /\ x.at \in VoidPoints => x.receipt \in Receipts
          /\ x.at = "void_lock" =>
               x.product \in Items(x.receipt) /\ x.left = Items(x.receipt) \ {x.product}
          /\ x.at = "void_items" =>
               x.product \in Items(x.receipt) \ x.left /\ x.left \subseteq Items(x.receipt)
          /\ x.at = "void_wallet" => Method[x.receipt] = "WALLET"
          /\ x.at \in InVoid => voided'[x.receipt] = 0
          /\ x.at = "insert" => /\ x.id \in Requests /\ request'[x.id].status = "none"
                                /\ x.product \in Products
                                /\ \A u \in Others(v) : op'[u].id # x.id
          /\ x.at \in RefundPoints \cup {"approve"} =>
               x.id \in Requests /\ request'[x.id].status # "none"
          /\ x.at \in RefundPoints =>
               /\ x.receipt = request'[x.id].receipt
               /\ x.product = request'[x.id].product
               /\ x.receipt \in Receipts \ bypassed' =>
                    x.quantity = request'[x.id].quantity
          /\ x.at \in InRefund => request'[x.id].status = "pending"
          /\ x.at = "deduct" => x.exchange # NoProduct
          /\ x.at = "refund_wallet" => /\ x.exchange = NoProduct /\ x.receipt # NoReceipt
                                       /\ Method[x.receipt] # "CASH")
    BY DEF OpOf
  <1>3. QED
    BY <1>1, <1>2 DEF OpOf, Relies

\* So do all operations but the one that takes a step.
LEMMA OthersKnow ==
  ASSUME TypeOK, OpsAgree, NEW w \in Workers, NEW v \in Workers, v # w,
         OthersStay(w), bypassed \subseteq bypassed', FreshId(w), Relies(v)
  PROVE  OpOf(v)'
  <1>1. OpOf(v) /\ op'[v] = op[v]
    BY DEF OpsAgree, OthersStay
  <1>2. op[v].at = "insert" => \A u \in Others(v) : op'[u].id # op[v].id
    <2>1. SUFFICES ASSUME op[v].at = "insert", NEW u \in Others(v)
                   PROVE  op'[u].id # op[v].id
      OBVIOUS
    <2>2. /\ op[v].id \in Requests /\ request[op[v].id].status = "none"
          /\ op[u].id # op[v].id /\ op[w].id # op[v].id
      BY <1>1, <2>1 DEF OpOf, Others
    <2>3. CASE u # w
      BY <2>2, <2>3 DEF OthersStay, Others
    <2>4. CASE u = w
      <3>1. NoRequest # op[v].id
        BY <2>2, ConstantFacts
      <3>2. QED
        BY <2>2, <2>4, <3>1 DEF FreshId
    <2>5. QED
      BY <2>3, <2>4
  <1>3. QED
    BY <1>1, <1>2, OpStays

\* A step of w keeps OpsAgree if w knows what it should and disturbs nobody.
LEMMA OpsMove ==
  ASSUME TypeOK, OpsAgree, NEW w \in Workers, OthersStay(w),
         bypassed \subseteq bypassed', FreshId(w), OthersRely(w), Enters(w), OpOf(w)'
  PROVE  OpsAgree'
  <1>1. \A v \in Workers : OpOf(v)'
    <2>1. ASSUME NEW v \in Workers, v # w
          PROVE  OpOf(v)'
      BY <2>1, OthersKnow DEF OthersRely
    <2>2. QED
      BY <2>1
  <1>2. ASSUME NEW v \in Workers, v # w
        PROVE  /\ ~(/\ op'[w].at \in InVoid /\ op'[v].at \in InVoid
                    /\ op'[w].receipt = op'[v].receipt)
               /\ ~(/\ op'[w].at \in InRefund /\ op'[v].at \in InRefund
                    /\ op'[w].id = op'[v].id)
    <2>1. op'[v] = op[v] /\ v \in Others(w)
      BY <1>2 DEF OthersStay, Others
    <2>2. /\ ~(/\ op[w].at \in InVoid /\ op[v].at \in InVoid /\ op[w].receipt = op[v].receipt)
          /\ ~(/\ op[w].at \in InRefund /\ op[v].at \in InRefund /\ op[w].id = op[v].id)
      BY <1>2 DEF OpsAgree
    <2>3. /\ op[v].at \in InVoid => HoldsReceipt(v, op[v].receipt)
          /\ op[v].at \in InRefund => HoldsRequest(v, op[v].id)
      BY DEF HoldsReceipt, HoldsRequest, InVoid, InRefund
    <2>4. QED
      BY <2>1, <2>2, <2>3 DEF Enters, ReceiptFree, RequestFree
  <1>3. ASSUME NEW u \in Workers, NEW v \in Workers, u # v, u # w, v # w
        PROVE  /\ ~(/\ op'[u].at \in InVoid /\ op'[v].at \in InVoid
                    /\ op'[u].receipt = op'[v].receipt)
               /\ ~(/\ op'[u].at \in InRefund /\ op'[v].at \in InRefund
                    /\ op'[u].id = op'[v].id)
    BY <1>3 DEF OthersStay, OpsAgree
  <1>4. \A u, v \in Workers :
          /\ op'[u].at \in InVoid /\ op'[v].at \in InVoid /\ op'[u].receipt = op'[v].receipt
             => u = v
          /\ op'[u].at \in InRefund /\ op'[v].at \in InRefund /\ op'[u].id = op'[v].id
             => u = v
    BY <1>2, <1>3
  <1>5. QED
    BY <1>1, <1>4 DEF OpsAgree, InVoid, InRefund

\* If no operation changes, OpsAgree stays.
LEMMA OpsStay ==
  ASSUME TypeOK, OpsAgree, op' = op, bypassed \subseteq bypassed',
         \A v \in Workers : Relies(v)
  PROVE  OpsAgree'
  <1>1. ASSUME NEW v \in Workers
        PROVE  OpOf(v)'
    <2>1. OpOf(v)
      BY DEF OpsAgree
    <2>2. op[v].at = "insert" => \A u \in Others(v) : op'[u].id # op[v].id
      BY <2>1 DEF OpOf
    <2>3. op'[v] = op[v]
      OBVIOUS
    <2>4. QED
      BY <2>2, <2>3, OpStays
  <1>2. QED
    BY <1>1 DEF OpsAgree

\* An operation that ends knows nothing and enters nothing.
LEMMA IdleKnows ==
  ASSUME NEW w \in Workers, op'[w] = Idle
  PROVE  OpOf(w)' /\ FreshId(w) /\ Enters(w)
  <1>1. op'[w].at = "idle" /\ op'[w].id = NoRequest
    BY IdleFacts
  <1>2. OpOf(w)'
    BY <1>1 DEF OpOf, VoidPoints, RefundPoints, InVoid, InRefund
  <1>3. QED
    BY <1>1, <1>2 DEF FreshId, Enters, InVoid, InRefund

\* Steps that do not touch voided and request keep OpsAgree.
LEMMA OpsQuiet ==
  ASSUME TypeOK, OpsAgree, NEW w \in Workers, Quiet(w)
  PROVE  OpsAgree'
  <1>1. OthersStay(w) /\ UNCHANGED <<committed, request, bypassed>>
    BY QuietFacts DEF OnlyMoves
  <1>2. OthersRely(w) /\ bypassed \subseteq bypassed' /\ UNCHANGED <<voided, request>>
    BY <1>1, NothingChanges DEF committed
  <1>3. ASSUME FreshId(w), Enters(w), OpOf(w)'
        PROVE  OpsAgree'
    BY <1>1, <1>2, <1>3, OpsMove
  <1>4. ASSUME op'[w] = Idle
        PROVE  OpsAgree'
    BY <1>3, <1>4, IdleKnows
  <1>5. ASSUME NEW r \in Receipts, VoidArrives(w, r)
        PROVE  OpsAgree'
    <2>1. /\ op'[w].at = "void_lock" /\ op'[w].receipt = r /\ op'[w].id = NoRequest
          /\ op'[w].product \in Items(r) /\ op'[w].left = Items(r) \ {op'[w].product}
      BY <1>5, VoidArrivesFacts
    <2>2. OpOf(w)'
      BY <2>1 DEF OpOf, VoidPoints, RefundPoints, InVoid, InRefund
    <2>3. FreshId(w) /\ Enters(w)
      BY <2>1 DEF FreshId, Enters, InVoid, InRefund
    <2>4. QED
      BY <1>3, <2>2, <2>3
  <1>6. ASSUME NEW q \in Requests, op'[w].at = "insert", op'[w].id = q,
               op'[w].product \in Products, request[q].status = "none",
               \A v \in Workers : op[v].id # q
        PROVE  OpsAgree'
    <2>1. \A v \in Others(w) : op'[v].id # q
      BY <1>1, <1>6 DEF OthersStay, Others
    <2>2. OpOf(w)'
      BY <1>2, <1>6, <2>1 DEF OpOf, VoidPoints, RefundPoints, InVoid, InRefund
    <2>3. FreshId(w) /\ Enters(w)
      BY <1>6 DEF FreshId, Enters, InVoid, InRefund
    <2>4. QED
      BY <1>3, <2>2, <2>3
  <1>7. ASSUME NEW q \in Requests, NEW x \in NewProducts \cup {NoProduct}, RefundRead(w, q, x)
        PROVE  OpsAgree'
    <2>1. /\ op'[w].at = "refund_lock" /\ op'[w].id = q
          /\ op'[w].receipt = request[q].receipt
          /\ op'[w].product = request[q].product
          /\ op'[w].quantity = request[q].quantity
      BY <1>7, RefundReadFacts
    <2>2. request[q].status # "none" /\ request' = request
      BY <1>2, <1>7 DEF RefundRead, Exists, Statuses
    <2>3. OpOf(w)'
      BY <2>1, <2>2 DEF OpOf, VoidPoints, RefundPoints, InVoid, InRefund
    <2>4. FreshId(w) /\ Enters(w)
      BY <2>1, <2>2 DEF FreshId, Enters, InVoid, InRefund
    <2>5. QED
      BY <1>3, <2>3, <2>4
  <1>8. CASE VoidLock(w)
    <2>1. CASE Ends(w)
      BY <2>1, <1>4, EndsFacts
    <2>2. CASE Goto(w, "void_items") /\ ~AlreadyVoided(op[w].receipt)
      <3>1. OpOf(w) /\ op[w].at = "void_lock"
        BY <1>8, OpFacts DEF VoidLock
      <3>2. /\ op[w].receipt \in Receipts
            /\ op[w].product \in Items(op[w].receipt)
            /\ op[w].left = Items(op[w].receipt) \ {op[w].product}
        BY <3>1 DEF OpOf, VoidPoints
      <3>3. "void_items" \in Points
        BY DEF Points, VoidPoints
      <3>4. /\ op'[w].at = "void_items" /\ op'[w].receipt = op[w].receipt
            /\ op'[w].id = op[w].id
            /\ op'[w].product = op[w].product /\ op'[w].left = op[w].left
        BY <2>2, <3>3, GotoFacts
      <3>5. voided'[op[w].receipt] = 0
        <4>1. voided[op[w].receipt] \in Nat
          BY <3>2 DEF TypeOK
        <4>2. QED
          BY <1>2, <2>2, <4>1 DEF AlreadyVoided
      <3>6. OpOf(w)'
        BY <3>2, <3>4, <3>5 DEF OpOf, VoidPoints, RefundPoints, InVoid, InRefund
      <3>7. ReceiptFree(w, op'[w].receipt)
        BY <1>8, <3>4 DEF VoidLock
      <3>8. FreshId(w) /\ Enters(w)
        BY <3>4, <3>7 DEF FreshId, Enters, InVoid, InRefund
      <3>9. QED
        BY <1>3, <3>6, <3>8
    <2>3. QED
      BY <1>8, <2>1, <2>2 DEF VoidLock
  <1>9. CASE RefundLock(w)
    <2>1. CASE Ends(w)
      BY <2>1, <1>4, EndsFacts
    <2>2. CASE Goto(w, "restore") /\ ~Refuses(op[w].id)
      <3>1. OpOf(w) /\ op[w].at = "refund_lock"
        BY <1>9, OpFacts DEF RefundLock
      <3>2. "restore" \in Points
        BY DEF Points, RefundPoints
      <3>3. /\ op'[w].at = "restore" /\ op'[w].receipt = op[w].receipt
            /\ op'[w].id = op[w].id /\ op'[w].quantity = op[w].quantity
            /\ op'[w].product = op[w].product
        BY <2>2, <3>2, GotoFacts
      <3>4. request'[op[w].id].status = "pending" /\ request' = request /\ bypassed' = bypassed
        BY <1>1, <2>2 DEF Refuses
      <3>5. OpOf(w)'
        BY <3>1, <3>3, <3>4 DEF OpOf, VoidPoints, RefundPoints, InVoid, InRefund
      <3>6. RequestFree(w, op'[w].id)
        BY <1>9, <3>3 DEF RefundLock
      <3>7. FreshId(w) /\ Enters(w)
        BY <3>3, <3>6 DEF FreshId, Enters, InVoid, InRefund
      <3>8. QED
        BY <1>3, <3>5, <3>7
    <2>3. QED
      BY <1>9, <2>1, <2>2 DEF RefundLock
  <1>10. CASE ApproveLost(w)
    BY <1>10, <1>4, EndsFacts DEF ApproveLost
  <1>11. CASE Arrives(w)
    <2>1. ASSUME NEW q \in Requests, NEW r \in Receipts, NEW p \in Products,
                 NEW c \in Claims[r][p], NEW k \in 1..c, CreateRead(w, q, r, p, c, k)
          PROVE  OpsAgree'
      <3>1. op'[w].at = "insert" /\ op'[w].id = q /\ op'[w].product \in Products
        BY <2>1, CreateReadFacts
      <3>2. request[q].status = "none" /\ \A v \in Workers : op[v].id # q
        BY <2>1 DEF CreateRead
      <3>3. QED
        BY <1>6, <3>1, <3>2
    <2>2. ASSUME NEW q \in Requests, NEW p \in LooseProducts, CreateWithoutReceipt(w, q, p, 1)
          PROVE  OpsAgree'
      <3>1. op'[w].at = "insert" /\ op'[w].id = q /\ op'[w].product \in Products
        BY <2>2, LooseFacts
      <3>2. request[q].status = "none" /\ \A v \in Workers : op[v].id # q
        BY <2>2 DEF CreateWithoutReceipt
      <3>3. QED
        BY <1>6, <3>1, <3>2
    <2>3. QED
      BY <1>11, <1>5, <1>7, <2>1, <2>2 DEF Arrives
  <1>12. QED
    BY <1>8, <1>9, <1>10, <1>11 DEF Quiet

\* Steps inside a transaction keep OpsAgree.
LEMMA OpsInside ==
  ASSUME TypeOK, OpsAgree, RequestsAgree, NEW w \in Workers,
         \/ VoidItem(w) \/ VoidWallet(w) \/ Restore(w) \/ Deduct(w) \/ RefundWallet(w)
  PROVE  OpsAgree'
  <1>1. UNCHANGED <<voided, request, bypassed>>
    BY DEF VoidItem, VoidWallet, Restore, Deduct, RefundWallet, committed
  <1>2. OthersRely(w) /\ bypassed \subseteq bypassed'
    BY <1>1, NothingChanges
  <1>3. ASSUME OthersStay(w), FreshId(w), Enters(w), OpOf(w)'
        PROVE  OpsAgree'
    BY <1>2, <1>3, OpsMove
  <1>4. OpOf(w)
    BY OpFacts
  <1>5. CASE VoidItem(w)
    <2>1. /\ op[w].at = "void_items" /\ op[w].receipt \in Receipts
          /\ op[w].left \subseteq Items(op[w].receipt)
          /\ OthersStay(w)
          /\ op'[w].receipt = op[w].receipt /\ op'[w].id = op[w].id
      BY <1>5, VoidItemFacts
    <2>2. \/ /\ op'[w].at = "void_items"
             /\ op'[w].product \in op[w].left
             /\ op'[w].left = op[w].left \ {op'[w].product}
          \/ op'[w].at = "void_wallet" /\ Method[op[w].receipt] = "WALLET"
          \/ op'[w].at = "void_commit"
      BY <1>5, VoidItemFacts
    <2>3. voided'[op[w].receipt] = 0
      BY <1>1, <1>4, <2>1 DEF OpOf, InVoid
    <2>4. OpOf(w)'
      BY <2>1, <2>2, <2>3 DEF OpOf, VoidPoints, RefundPoints, InVoid, InRefund
    <2>5. FreshId(w) /\ Enters(w)
      BY <2>1, <2>2 DEF FreshId, Enters, InVoid, InRefund
    <2>6. QED
      BY <1>3, <2>1, <2>4, <2>5
  <1>6. CASE VoidWallet(w)
    <2>1. /\ op[w].at = "void_wallet" /\ op'[w].at = "void_commit"
          /\ op[w].receipt \in Receipts
          /\ OthersStay(w)
          /\ op'[w].receipt = op[w].receipt /\ op'[w].id = op[w].id
      BY <1>6, VoidWalletFacts DEF Advances
    <2>2. voided'[op[w].receipt] = 0
      BY <1>1, <1>4, <2>1 DEF OpOf, InVoid
    <2>3. OpOf(w)'
      BY <2>1, <2>2 DEF OpOf, VoidPoints, RefundPoints, InVoid, InRefund
    <2>4. FreshId(w) /\ Enters(w)
      BY <2>1 DEF FreshId, Enters, InVoid, InRefund
    <2>5. QED
      BY <1>3, <2>1, <2>3, <2>4
  <1>7. ASSUME op[w].at \in InRefund, op'[w].at \in InRefund, Advances(w),
               op'[w].at = "deduct" => op[w].exchange # NoProduct,
               op'[w].at = "refund_wallet" =>
                 /\ op[w].exchange = NoProduct /\ op[w].receipt # NoReceipt
                 /\ Method[op[w].receipt] # "CASH"
        PROVE  OpsAgree'
    <2>1. /\ op[w].id \in Requests
          /\ request[op[w].id].status = "pending"
          /\ op[w].receipt = request[op[w].id].receipt
          /\ op[w].product = request[op[w].id].product
          /\ op[w].receipt \in Receipts \ bypassed =>
               op[w].quantity = request[op[w].id].quantity
      BY <1>7, RefundFacts
    <2>2. /\ op'[w].receipt = op[w].receipt /\ op'[w].id = op[w].id
          /\ op'[w].product = op[w].product /\ op'[w].quantity = op[w].quantity
          /\ op'[w].exchange = op[w].exchange /\ OthersStay(w)
      BY <1>7 DEF Advances
    <2>3. request' = request /\ bypassed' = bypassed
      BY <1>1
    <2>4. OpOf(w)'
      BY <1>7, <2>1, <2>2, <2>3 DEF OpOf, VoidPoints, RefundPoints, InVoid, InRefund
    <2>5. FreshId(w) /\ Enters(w)
      BY <1>7, <2>2 DEF FreshId, Enters, InVoid, InRefund
    <2>6. QED
      BY <1>3, <2>2, <2>4, <2>5
  <1>8. CASE Restore(w)
    <2>1. op[w].at = "restore" /\ Advances(w)
      BY <1>8, RestoreFacts
    <2>2. \/ op'[w].at = "deduct" /\ op[w].exchange # NoProduct
          \/ /\ op'[w].at = "refund_wallet" /\ op[w].exchange = NoProduct
             /\ op[w].receipt # NoReceipt /\ Method[op[w].receipt] # "CASH"
          \/ op'[w].at = "refund_commit"
      BY <1>8, RestoreFacts
    <2>3. op[w].at \in InRefund /\ op'[w].at \in InRefund
      BY <2>1, <2>2 DEF InRefund
    <2>4. QED
      BY <1>7, <2>1, <2>2, <2>3
  <1>9. CASE Deduct(w)
    <2>1. op[w].at = "deduct" /\ op'[w].at = "refund_commit" /\ Advances(w)
      BY <1>9, DeductFacts
    <2>2. op[w].at \in InRefund /\ op'[w].at \in InRefund
      BY <2>1 DEF InRefund
    <2>3. QED
      BY <1>7, <2>1, <2>2
  <1>10. CASE RefundWallet(w)
    <2>1. op[w].at = "refund_wallet" /\ op'[w].at = "refund_commit" /\ Advances(w)
      BY <1>10, RefundWalletFacts
    <2>2. op[w].at \in InRefund /\ op'[w].at \in InRefund
      BY <2>1 DEF InRefund
    <2>3. QED
      BY <1>7, <2>1, <2>2
  <1>11. QED
    BY <1>5, <1>6, <1>8, <1>9, <1>10

\* Steps that end a transaction keep OpsAgree.
LEMMA OpsEnd ==
  ASSUME TypeOK, OpsAgree, RequestsAgree, NEW w \in Workers,
         VoidCommit(w) \/ RefundCommit(w) \/ Approve(w) \/ Rolls(w)
  PROVE  OpsAgree'
  <1>1. Ends(w) /\ bypassed' = bypassed
    BY DEF VoidCommit, RefundCommit, Approve, Rolls, Rollback, CommitBooks
  <1>2. op'[w] = Idle /\ OthersStay(w)
    BY <1>1, EndsFacts
  <1>3. ASSUME OthersRely(w)
        PROVE  OpsAgree'
    BY <1>1, <1>2, <1>3, IdleKnows, OpsMove
  <1>4. CASE VoidCommit(w)
    <2>1. /\ op[w].at = "void_commit" /\ request' = request /\ bypassed' = bypassed
          /\ voided' = [voided EXCEPT ![op[w].receipt] = @ + 1]
      BY <1>4 DEF VoidCommit
    <2>2. ASSUME NEW v \in Workers, v # w
          PROVE  Relies(v)
      <3>1. OpOf(v)
        BY DEF OpsAgree
      <3>2. op[v].at \in InVoid => op[v].receipt # op[w].receipt
        BY <2>1, <2>2 DEF OpsAgree, InVoid
      <3>3. op[v].at \in InVoid => voided'[op[v].receipt] = 0
        <4>1. op[v].at \in InVoid => op[v].receipt \in Receipts /\ voided[op[v].receipt] = 0
          BY <3>1 DEF OpOf, InVoid, VoidPoints
        <4>2. QED
          BY <2>1, <3>2, <4>1 DEF TypeOK
      <3>4. QED
        BY <2>1, <3>1, <3>3 DEF OpOf, Relies
    <2>3. QED
      BY <1>3, <2>2 DEF OthersRely
  <1>5. ASSUME NEW q \in Requests, NEW s \in Statuses \cup {"deleted"},
               op[w].id = q, request[q].status # "none",
               request' = [request EXCEPT ![q].status = s],
               \A v \in Others(w) : ~(op[v].at \in InRefund /\ op[v].id = q),
               voided' = voided
        PROVE  OpsAgree'
    <2>1. /\ s # "none" /\ request'[q].status = s
          /\ request'[q].receipt = request[q].receipt
          /\ request'[q].product = request[q].product
          /\ request'[q].quantity = request[q].quantity
          /\ \A x \in Requests : x # q => request'[x] = request[x]
      BY <1>5, StatusEdited
    <2>2. ASSUME NEW v \in Workers, v # w
          PROVE  Relies(v)
      <3>1. OpOf(v)
        BY DEF OpsAgree
      <3>2. ~(op[v].at \in InRefund /\ op[v].id = q)
        BY <1>5, <2>2 DEF Others
      <3>3. op[v].at = "insert" => op[v].id \in Requests /\ op[v].id # q
        BY <3>1, <1>5 DEF OpOf
      <3>4. op[v].at \in RefundPoints \cup {"approve"} => op[v].id \in Requests
        BY <3>1 DEF OpOf
      <3>5. InRefund \subseteq RefundPoints
        BY DEF InRefund, RefundPoints
      <3>6. QED
        BY <1>5, <2>1, <3>1, <3>2, <3>3, <3>4, <3>5 DEF OpOf, Relies
    <2>3. QED
      BY <1>3, <2>2 DEF OthersRely
  <1>6. CASE RefundCommit(w)
    <2>1. /\ op[w].at = "refund_commit" /\ voided' = voided
          /\ request' = [request EXCEPT ![op[w].id].status = "approved"]
      BY <1>6 DEF RefundCommit
    <2>2. op[w].at \in InRefund
      BY <2>1 DEF InRefund
    <2>3. op[w].id \in Requests /\ request[op[w].id].status # "none"
      BY <2>2, RefundFacts
    <2>4. \A v \in Others(w) : ~(op[v].at \in InRefund /\ op[v].id = op[w].id)
      BY <2>2 DEF OpsAgree, Others
    <2>5. "approved" \in Statuses \cup {"deleted"}
      BY DEF Statuses
    <2>6. QED
      BY <1>5, <2>1, <2>3, <2>4, <2>5
  <1>7. CASE Approve(w)
    <2> DEFINE q == op[w].id
               s == IF Exists(q) THEN "approved" ELSE request[q].status
    <2>1. /\ op[w].at = "approve" /\ voided' = voided
          /\ request' = [request EXCEPT ![q].status = s]
          /\ RequestFree(w, q)
      BY <1>7 DEF Approve, committed
    <2>2. OpOf(w)
      BY DEF OpsAgree
    <2>3. q \in Requests /\ request[q].status # "none"
      BY <2>1, <2>2 DEF OpOf
    <2>4. s \in Statuses \cup {"deleted"}
      BY <2>3, StatusTypes DEF Statuses
    <2>5. \A v \in Others(w) : ~(op[v].at \in InRefund /\ op[v].id = q)
      BY <2>1 DEF RequestFree, HoldsRequest, InRefund
    <2> HIDE DEF s
    <2>6. QED
      BY <1>5, <2>1, <2>3, <2>4, <2>5
  <1>8. CASE Rolls(w)
    <2>1. UNCHANGED <<voided, request>>
      BY <1>8 DEF Rolls, Rollback, committed
    <2>2. QED
      BY <1>3, <2>1, NothingChanges
  <1>9. QED
    BY <1>4, <1>6, <1>7, <1>8

\* The insertion of a request keeps OpsAgree.
LEMMA OpsInsert ==
  ASSUME TypeOK, OpsAgree, NEW w \in Workers, CreateInsert(w)
  PROVE  OpsAgree'
  <1> DEFINE q == op[w].id
             new == [status |-> "pending", receipt |-> op[w].receipt,
                     product |-> op[w].product, purchased |-> op[w].purchased,
                     quantity |-> op[w].quantity]
  <1>1. /\ op[w].at = "insert" /\ request' = [request EXCEPT ![q] = new]
        /\ UNCHANGED committed /\ bypassed \subseteq bypassed'
    BY DEF CreateInsert
  <1>2. OpOf(w)
    BY DEF OpsAgree
  <1>3. /\ q \in Requests /\ request[q].status = "none"
        /\ \A v \in Others(w) : op[v].id # q
    BY <1>1, <1>2 DEF OpOf
  <1>4. /\ request'[q].status = "pending"
        /\ \A x \in Requests : x # q => request'[x] = request[x]
    BY <1>1, <1>3 DEF TypeOK
  <1>5. op'[w].at = "approve" /\ op'[w].id = q /\ OthersStay(w)
    BY <1>3, InsertedFacts
  <1>6. OpOf(w)'
    BY <1>3, <1>4, <1>5 DEF OpOf, VoidPoints, RefundPoints, InVoid, InRefund
  <1>7. FreshId(w) /\ Enters(w)
    BY <1>5 DEF FreshId, Enters, InVoid, InRefund
  <1>8. ASSUME NEW v \in Workers, v # w
        PROVE  Relies(v)
    <2>1. OpOf(v) /\ op[v].id # q
      BY <1>3, <1>8 DEF OpsAgree, Others
    <2>2. voided' = voided /\ bypassed \subseteq bypassed'
      BY <1>1 DEF committed
    <2>3. op[v].at \in {"insert", "approve"} \cup RefundPoints => request'[op[v].id] = request[op[v].id]
      <3>1. op[v].at \in {"insert", "approve"} \cup RefundPoints => op[v].id \in Requests
        BY <2>1 DEF OpOf
      <3>2. QED
        BY <1>4, <2>1, <3>1
    <2>4. InRefund \subseteq RefundPoints
      BY DEF InRefund, RefundPoints
    <2>5. QED
      BY <2>1, <2>2, <2>3, <2>4 DEF OpOf, Relies
  <1>9. OthersRely(w)
    BY <1>8 DEF OthersRely
  <1>10. bypassed \subseteq bypassed'
    BY <1>1
  <1>11. QED
    BY <1>5, <1>6, <1>7, <1>9, <1>10, OpsMove

\* So do edits: nobody holds what is edited, and its receipt counts as bypassed.
LEMMA OpsEdit ==
  ASSUME TypeOK, OpsAgree, NEW q \in Requests, UpdateReturn(q) \/ DeleteReturn(q)
  PROVE  OpsAgree'
  <1>1. /\ op' = op /\ voided' = voided
        /\ bypassed' = bypassed \cup {request[q].receipt}
        /\ request[q].status \in Statuses
        /\ \A v \in Workers : ~HoldsRequest(v, q)
    BY DEF UpdateReturn, DeleteReturn, Edited, committed, Exists
  <1>2. /\ request'[q].status # "none"
        /\ request'[q].receipt = request[q].receipt
        /\ request'[q].product = request[q].product
        /\ \A x \in Requests : x # q => request'[x] = request[x]
    <2>1. ASSUME NEW s \in Statuses \cup {"deleted"},
                 request' = [request EXCEPT ![q].status = s]
          PROVE  <1>2!1 /\ <1>2!2 /\ <1>2!3 /\ <1>2!4
      BY <2>1, StatusEdited
    <2>2. ASSUME request' = [request EXCEPT ![q].quantity = @ + 1]
          PROVE  <1>2!1 /\ <1>2!2 /\ <1>2!3 /\ <1>2!4
      BY <2>2, <1>1, QuantityFacts DEF Statuses
    <2>3. QED
      BY <2>1, <2>2 DEF UpdateReturn, DeleteReturn
  <1>3. ASSUME NEW v \in Workers
        PROVE  Relies(v)
    <2>1. OpOf(v)
      BY DEF OpsAgree
    <2>2. CASE op[v].id = q
      <3>1. op[v].at # "insert"
        BY <1>1, <2>1, <2>2 DEF OpOf, Statuses
      <3>2. op[v].at \notin InRefund
        BY <1>1, <2>2 DEF HoldsRequest, InRefund
      <3>3. op[v].at \in RefundPoints => op[v].receipt \notin Receipts \ bypassed'
        BY <1>1, <2>1, <2>2, ConstantFacts DEF OpOf
      <3>4. QED
        BY <1>1, <1>2, <2>1, <2>2, <3>1, <3>2, <3>3 DEF OpOf, Relies
    <2>3. CASE op[v].id # q
      <3>1. op[v].at \in {"insert", "approve"} \cup RefundPoints => request'[op[v].id] = request[op[v].id]
        BY <1>2, <2>1, <2>3 DEF OpOf
      <3>2. InRefund \subseteq RefundPoints
        BY DEF InRefund, RefundPoints
      <3>3. QED
        BY <1>1, <2>1, <3>1, <3>2 DEF OpOf, Relies
    <2>4. QED
      BY <2>2, <2>3
  <1>4. bypassed \subseteq bypassed'
    BY <1>1
  <1>5. QED
    BY <1>1, <1>3, <1>4, OpsStay

\* OpsAgree is preserved.
LEMMA OpsPreserved ==
  ASSUME TypeOK, OpsAgree, RequestsAgree, [Next]_vars
  PROVE  OpsAgree'
  <1>1. ASSUME NEW w \in Workers, StepOf(w)
        PROVE  OpsAgree'
    <2>1. CASE Quiet(w)
      BY <2>1, OpsQuiet
    <2>2. CASE \/ VoidItem(w) \/ VoidWallet(w) \/ Restore(w) \/ Deduct(w) \/ RefundWallet(w)
      BY <2>2, OpsInside
    <2>3. CASE VoidCommit(w) \/ RefundCommit(w) \/ Approve(w) \/ Rolls(w)
      BY <2>3, OpsEnd
    <2>4. CASE CreateInsert(w)
      BY <2>4, OpsInsert
    <2>5. QED
      BY <1>1, <2>1, <2>2, <2>3, <2>4 DEF StepOf
  <1>2. ASSUME NEW q \in Requests, UpdateReturn(q) \/ DeleteReturn(q)
        PROVE  OpsAgree'
    BY <1>2, OpsEdit
  <1>3. CASE Crash
    <2>1. \A w \in Workers : op'[w] = Idle
      BY <1>3 DEF Crash
    <2>2. ASSUME NEW w \in Workers
          PROVE  OpOf(w)' /\ op'[w].at = "idle"
      BY <2>1, IdleKnows, IdleFacts
    <2>3. QED
      BY <2>2 DEF OpsAgree, InVoid, InRefund
  <1>4. CASE UNCHANGED vars
    <2>1. op' = op /\ bypassed \subseteq bypassed' /\ UNCHANGED <<voided, request>>
      BY <1>4 DEF vars, committed
    <2>2. ASSUME NEW w \in Workers
          PROVE  Relies(w)
      <3>1. OpOf(w)
        BY DEF OpsAgree
      <3>2. QED
        BY <2>1, <3>1 DEF OpOf, Relies
    <2>3. QED
      BY <2>1, <2>2, OpsStay
  <1>5. QED
    BY <1>1, <1>2, <1>3, <1>4, NextCases

-----------------------------------------------------------------------------
(* What is true of a request: RequestsAgree *)

\* A request that a step leaves alone.
LEMMA RequestStays ==
  ASSUME RequestsAgree, NEW q \in Requests, request'[q] = request[q],
         given'[q] = given[q], refunded'[q] = refunded[q], processed'[q] = processed[q],
         bypassed \subseteq bypassed'
  PROVE  RequestOf(q)'
  <1>1. RequestOf(q)
    BY DEF RequestsAgree
  <1>2. QED
    BY <1>1 DEF RequestOf

\* What edits do to a request: its receipt is no longer left alone.
LEMMA RequestEdited ==
  ASSUME TypeOK, RequestsAgree, NEW q \in Requests, UpdateReturn(q) \/ DeleteReturn(q)
  PROVE  /\ RequestsAgree'
         /\ UNCHANGED <<committed, op, rows, purse>>
         /\ bypassed' = bypassed \cup {request[q].receipt}
         /\ request[q].status # "none"
         /\ request'[q].status # "none"
         /\ request'[q].receipt = request[q].receipt
         /\ request'[q].product = request[q].product
         /\ \A x \in Requests : x # q => request'[x] = request[x]
  <1>1. /\ UNCHANGED <<committed, op, rows, purse>>
        /\ bypassed' = bypassed \cup {request[q].receipt}
        /\ request[q].status # "none"
    BY DEF UpdateReturn, DeleteReturn, Edited, Exists, Statuses
  <1>2. /\ request'[q].status # "none"
        /\ request'[q].receipt = request[q].receipt
        /\ request'[q].product = request[q].product
        /\ \A x \in Requests : x # q => request'[x] = request[x]
    <2>1. ASSUME NEW s \in Statuses \cup {"deleted"},
                 request' = [request EXCEPT ![q].status = s]
          PROVE  <1>2!1 /\ <1>2!2 /\ <1>2!3 /\ <1>2!4
      BY <2>1, StatusEdited
    <2>2. ASSUME request' = [request EXCEPT ![q].quantity = @ + 1]
          PROVE  <1>2!1 /\ <1>2!2 /\ <1>2!3 /\ <1>2!4
      BY <1>1, <2>2, QuantityFacts
    <2>3. QED
      BY <2>1, <2>2 DEF UpdateReturn, DeleteReturn
  <1>3. RequestOf(q)'
    <2>1. RequestOf(q)
      BY DEF RequestsAgree
    <2>2. request[q].receipt \in Receipts \cup {NoReceipt}
      BY DEF TypeOK, Request
    <2>3. request'[q].receipt \in bypassed'
      BY <1>1, <1>2
    <2>4. request'[q].receipt \notin Receipts \ bypassed'
      BY <2>3, ConstantFacts
    <2>5. QED
      BY <1>1, <1>2, <2>1, <2>3, <2>4 DEF RequestOf
  <1>4. ASSUME NEW x \in Requests, x # q
        PROVE  RequestOf(x)'
    <2>1. /\ request'[x] = request[x] /\ given'[x] = given[x] /\ refunded'[x] = refunded[x]
          /\ processed'[x] = processed[x] /\ bypassed \subseteq bypassed'
      BY <1>1, <1>2, <1>4 DEF committed
    <2>2. QED
      BY <2>1, RequestStays
  <1>5. RequestsAgree'
    BY <1>3, <1>4 DEF RequestsAgree
  <1>6. QED
    BY <1>1, <1>2, <1>5

\* A request is inserted pending, with what its operation asked for.
LEMMA RequestInserted ==
  ASSUME TypeOK, OpsAgree, RequestsAgree, NEW w \in Workers, CreateInsert(w)
  PROVE  /\ RequestsAgree'
         /\ UNCHANGED <<committed, rows, purse>>
         /\ op[w].at = "insert" /\ op[w].id \in Requests
         /\ request[op[w].id] = Missing
         /\ given[op[w].id] = 0 /\ refunded[op[w].id] = 0 /\ processed[op[w].id] = 0
         /\ request'[op[w].id].status = "pending"
         /\ request'[op[w].id].receipt = op[w].receipt
         /\ request'[op[w].id].product = op[w].product
         /\ request'[op[w].id].quantity = op[w].quantity
         /\ request'[op[w].id].purchased = op[w].purchased
         /\ op[w].purchased \in Nat /\ op[w].quantity \in Nat
         /\ \A x \in Requests : x # op[w].id => request'[x] = request[x]
  <1>0. op[w].id \in Requests
    BY OpFacts DEF CreateInsert, OpOf
  <1> PICK q \in Requests : q = op[w].id
    BY <1>0
  <1> DEFINE new == [status |-> "pending", receipt |-> op[w].receipt,
                     product |-> op[w].product, purchased |-> op[w].purchased,
                     quantity |-> op[w].quantity]
  <1>1. /\ op[w].at = "insert" /\ request' = [request EXCEPT ![q] = new]
        /\ UNCHANGED <<committed, rows, purse>> /\ bypassed \subseteq bypassed'
    BY DEF CreateInsert
  <1>2. OpOf(w) /\ op[w] \in Operation
    BY OpFacts
  <1>3. /\ q \in Requests /\ request[q].status = "none" /\ op[w].product \in Products
        /\ op[w].purchased \in Nat /\ op[w].quantity \in Nat
    BY <1>1, <1>2, OperationFields DEF OpOf
  <1>4. RequestOf(q)
    BY <1>3 DEF RequestsAgree
  <1>5. request[q] = Missing /\ given[q] = 0 /\ refunded[q] = 0 /\ processed[q] = 0
    BY <1>3, <1>4 DEF RequestOf
  <1>6. /\ request'[q] = new
        /\ \A x \in Requests : x # q => request'[x] = request[x]
    BY <1>1, <1>3 DEF TypeOK
  <1>7. RequestOf(q)'
    BY <1>1, <1>3, <1>5, <1>6 DEF RequestOf, committed
  <1>8. ASSUME NEW x \in Requests, x # q
        PROVE  RequestOf(x)'
    <2>1. /\ request'[x] = request[x] /\ given'[x] = given[x] /\ refunded'[x] = refunded[x]
          /\ processed'[x] = processed[x] /\ bypassed \subseteq bypassed'
      BY <1>1, <1>6, <1>8 DEF committed
    <2>2. QED
      BY <2>1, RequestStays
  <1>9. RequestsAgree'
    BY <1>7, <1>8 DEF RequestsAgree
  <1>10. QED
    BY <1>1, <1>3, <1>5, <1>6, <1>9

\* A request is approved, and nothing else of it changes.
LEMMA RequestApproved ==
  ASSUME TypeOK, OpsAgree, RequestsAgree, NEW w \in Workers, Approve(w)
  PROVE  /\ RequestsAgree'
         /\ UNCHANGED <<committed, bypassed, rows, purse>>
         /\ op[w].id \in Requests
         /\ \/ request' = request
            \/ /\ request'[op[w].id].status = "approved"
               /\ request[op[w].id].status \in Statuses
               /\ request'[op[w].id].receipt = request[op[w].id].receipt
               /\ request'[op[w].id].product = request[op[w].id].product
               /\ request'[op[w].id].quantity = request[op[w].id].quantity
               /\ request'[op[w].id].purchased = request[op[w].id].purchased
               /\ \A x \in Requests : x # op[w].id => request'[x] = request[x]
  <1>0. op[w].id \in Requests
    BY OpFacts DEF Approve, OpOf
  <1> PICK q \in Requests : q = op[w].id
    BY <1>0
  <1>1. /\ op[w].at = "approve" /\ UNCHANGED <<committed, bypassed, rows, purse>>
        /\ request' = [request EXCEPT ![q].status =
                         IF Exists(q) THEN "approved" ELSE request[q].status]
    BY DEF Approve
  <1>2. OpOf(w)
    BY DEF OpsAgree
  <1>3. q \in Requests /\ request[q].status # "none"
    BY <1>1, <1>2 DEF OpOf
  <1>4. CASE Exists(q)
    <2>1. /\ request'[q].status = "approved"
          /\ request'[q].receipt = request[q].receipt
          /\ request'[q].product = request[q].product
          /\ request'[q].quantity = request[q].quantity
          /\ request'[q].purchased = request[q].purchased
          /\ \A x \in Requests : x # q => request'[x] = request[x]
      <3>1. request' = [request EXCEPT ![q].status = "approved"]
        BY <1>1, <1>4
      <3>2. QED
        BY <1>3, <3>1, StatusFacts, StatusTypes
    <2>2. RequestOf(q)'
      <3>1. RequestOf(q)
        BY <1>3 DEF RequestsAgree
      <3>2. QED
        BY <1>1, <1>3, <2>1, <3>1 DEF RequestOf, committed
    <2>3. ASSUME NEW x \in Requests, x # q
          PROVE  RequestOf(x)'
      <3>1. /\ request'[x] = request[x] /\ given'[x] = given[x] /\ refunded'[x] = refunded[x]
            /\ processed'[x] = processed[x] /\ bypassed \subseteq bypassed'
        BY <1>1, <2>1, <2>3 DEF committed
      <3>2. QED
        BY <3>1, RequestStays
    <2>4. QED
      BY <1>1, <1>3, <1>4, <2>1, <2>2, <2>3 DEF RequestsAgree, Exists
  <1>5. CASE ~Exists(q)
    <2>1. request' = request
      <3>1. request' = [request EXCEPT ![q].status = request[q].status]
        BY <1>1, <1>5
      <3>2. request[q] \in Request /\ request \in [Requests -> Request]
        BY <1>3 DEF TypeOK
      <3>3. [request[q] EXCEPT !.status = request[q].status] = request[q]
        BY <3>2 DEF Request
      <3>4. QED
        BY <3>1, <3>2, <3>3
    <2>2. ASSUME NEW x \in Requests
          PROVE  RequestOf(x)'
      BY <1>1, <2>1, RequestStays DEF committed
    <2>3. QED
      BY <1>1, <1>3, <2>1, <2>2 DEF RequestsAgree
  <1>6. QED
    BY <1>4, <1>5

\* What a committed refund or exchange does to the books of its request: it was
\* pending, and if its receipt was left alone it had given nothing back.
LEMMA RequestProcessed ==
  ASSUME TypeOK, OpsAgree, RequestsAgree, NEW w \in Workers, RefundCommit(w)
  PROVE  /\ RequestsAgree'
         /\ op[w].at = "refund_commit" /\ op[w].id \in Requests
         /\ request[op[w].id].status = "pending"
         /\ request'[op[w].id].status = "approved"
         /\ request'[op[w].id].receipt = request[op[w].id].receipt
         /\ request'[op[w].id].product = request[op[w].id].product
         /\ request'[op[w].id].quantity = request[op[w].id].quantity
         /\ request'[op[w].id].purchased = request[op[w].id].purchased
         /\ \A x \in Requests : x # op[w].id => request'[x] = request[x]
         /\ processed'[op[w].id] = processed[op[w].id] + 1
         /\ \A x \in Requests : x # op[w].id => processed'[x] = processed[x]
         /\ given'[op[w].id] = given[op[w].id] + op[w].quantity
         /\ \A x \in Requests : x # op[w].id => given'[x] = given[x]
         /\ op[w].quantity \in Nat
         /\ UNCHANGED <<voided, bypassed>>
  <1>0. op[w].id \in Requests /\ op[w].quantity \in Nat
    BY RefundFacts DEF RefundCommit, InRefund
  <1> PICK q \in Requests, k \in Nat : q = op[w].id /\ k = op[w].quantity
    BY <1>0
  <1>1. /\ op[w].at = "refund_commit"
        /\ request' = [request EXCEPT ![q].status = "approved"]
        /\ processed' = [processed EXCEPT ![q] = @ + 1]
        /\ given' = [given EXCEPT ![q] = @ + k]
        /\ \/ refunded' = [refunded EXCEPT ![q] = @ + k]
           \/ refunded' = refunded
        /\ UNCHANGED <<voided, bypassed>>
    BY DEF RefundCommit
  <1>2. /\ q \in Requests
        /\ request[q].status = "pending"
        /\ op[w].receipt = request[q].receipt
        /\ k \in Nat
        /\ op[w].receipt \in Receipts \ bypassed => k = request[q].quantity
    <2>1. op[w].at \in InRefund
      BY <1>1 DEF InRefund
    <2>2. QED
      BY <2>1, RefundFacts
  <1>3. /\ request'[q].status = "approved"
        /\ request'[q].receipt = request[q].receipt
        /\ request'[q].product = request[q].product
        /\ request'[q].quantity = request[q].quantity
        /\ request'[q].purchased = request[q].purchased
        /\ \A x \in Requests : x # q => request'[x] = request[x]
    BY <1>1, <1>2, StatusFacts, StatusTypes
  <1>4. /\ processed'[q] = processed[q] + 1 /\ given'[q] = given[q] + k
        /\ \A x \in Requests : x # q => processed'[x] = processed[x] /\ given'[x] = given[x]
    <2>1. processed \in [Requests -> Nat] /\ given \in [Requests -> Nat]
      BY DEF TypeOK
    <2>2. QED
      BY <1>1, <1>2, <2>1
  <1>5. \A x \in Requests : x # q => refunded'[x] = refunded[x]
    BY <1>1, <1>2 DEF TypeOK
  <1>6. RequestOf(q)'
    <2>1. RequestOf(q)
      BY <1>2 DEF RequestsAgree
    <2>2. processed[q] \in Nat /\ given[q] \in Nat
      BY <1>2 DEF TypeOK
    <2>3. request[q].receipt \in Receipts \ bypassed => given[q] = 0
      <3>1. request[q].receipt \in Receipts \ bypassed => processed[q] = 0
        BY <1>2, <2>1, <2>2, ConstantFacts DEF RequestOf
      <3>2. QED
        BY <2>1, <3>1 DEF RequestOf
    <2>4. processed'[q] # 0
      BY <1>4, <2>2
    <2>5. request'[q].receipt \in Receipts \ bypassed' => given'[q] <= request'[q].quantity
      BY <1>1, <1>2, <1>3, <1>4, <2>3
    <2>6. QED
      BY <1>1, <1>2, <1>3, <2>1, <2>4, <2>5 DEF RequestOf
  <1>7. ASSUME NEW x \in Requests, x # q
        PROVE  RequestOf(x)'
    <2>1. /\ request'[x] = request[x] /\ given'[x] = given[x] /\ refunded'[x] = refunded[x]
          /\ processed'[x] = processed[x] /\ bypassed \subseteq bypassed'
      BY <1>1, <1>3, <1>4, <1>5, <1>7
    <2>2. QED
      BY <2>1, RequestStays
  <1>8. RequestsAgree'
    BY <1>6, <1>7 DEF RequestsAgree
  <1>9. QED
    BY <1>1, <1>2, <1>3, <1>4, <1>8

-----------------------------------------------------------------------------
(* What the transactions hold of the stock: RowsAgree *)

\* What a transaction has locked at each of its points.
LEMMA HeldFacts ==
  ASSUME NEW o
  PROVE  /\ o.at = "void_items" => Held(o) = Items(o.receipt) \ (o.left \cup {o.product})
         /\ o.at \in {"void_wallet", "void_commit"} => Held(o) = Items(o.receipt)
         /\ o.at \in {"deduct", "refund_wallet"} => Held(o) = {o.product}
         /\ o.at = "refund_commit" => Held(o) = {o.product} \cup ({o.exchange} \ {NoProduct})
         /\ o.at \in {"idle", "insert", "approve", "void_lock", "refund_lock", "restore"} =>
              Held(o) = {}
  BY DEF Held

\* What it has done to the stock of a product.
LEMMA ChangeFacts ==
  ASSUME NEW o, NEW p, o.quantity \in Nat
  PROVE  /\ o.at \in VoidPoints => Change(o, p) = Bought[o.receipt][p]
         /\ o.at \in RefundPoints /\ o.at # "refund_commit" =>
              Change(o, p) = IF p = o.product THEN o.quantity ELSE 0
         /\ o.at = "refund_commit" =>
              Change(o, p) = (IF p = o.product THEN o.quantity ELSE 0)
                               - (IF p = o.exchange THEN 1 ELSE 0)
  BY DEF Change, VoidPoints, RefundPoints

\* The stock changes only where w holds it, and w takes only what is free.
StockKept(w) == \A p \in Products : p \notin DOMAIN rows[w] => stock'[p] = stock[p]
TakesFree(w) == \A p \in DOMAIN rows'[w] : p \in DOMAIN rows[w] \/ ProductFree(w, p)

\* A step of w keeps RowsAgree if the view of w is right and disturbs nobody.
LEMMA RowsMove ==
  ASSUME TypeOK, RowsAgree, NEW w \in Workers, OthersStay(w), RowsStay(w),
         StockKept(w), TakesFree(w), RowsOf(w)'
  PROVE  RowsAgree'
  <1>1. ASSUME NEW v \in Workers, v # w
        PROVE  /\ RowsOf(v)'
               /\ \A p \in DOMAIN rows'[v] : p \notin DOMAIN rows'[w]
    <2>1. op'[v] = op[v] /\ rows'[v] = rows[v] /\ v \in Others(w)
      BY <1>1 DEF OthersStay, RowsStay, Others
    <2>2. RowsOf(v) /\ DOMAIN rows[v] \subseteq Products
      BY DEF RowsAgree, TypeOK
    <2>3. \A p \in DOMAIN rows[v] : p \notin DOMAIN rows[w]
      BY <1>1 DEF RowsAgree, HoldsProduct
    <2>4. \A p \in DOMAIN rows[v] : stock'[p] = stock[p]
      BY <2>2, <2>3 DEF StockKept
    <2>5. RowsOf(v)'
      BY <2>1, <2>2, <2>4 DEF RowsOf
    <2>6. \A p \in DOMAIN rows'[v] : p \notin DOMAIN rows'[w]
      BY <2>1, <2>3 DEF TakesFree, ProductFree, HoldsProduct
    <2>7. QED
      BY <2>5, <2>6
  <1>2. \A v \in Workers : RowsOf(v)'
    BY <1>1
  <1>3. ASSUME NEW u \in Workers, NEW v \in Workers, NEW p \in DOMAIN rows'[u],
               p \in DOMAIN rows'[v], u # v
        PROVE  FALSE
    <2>1. CASE u = w
      BY <2>1, <1>1, <1>3
    <2>2. CASE v = w
      BY <2>2, <1>1, <1>3
    <2>3. CASE u # w /\ v # w
      BY <2>3, <1>3 DEF RowsAgree, RowsStay, HoldsProduct
    <2>4. QED
      BY <2>1, <2>2, <2>3
  <1>4. QED
    BY <1>2, <1>3 DEF RowsAgree, HoldsProduct

\* Nothing is held before or after.
LEMMA RowsBare ==
  ASSUME TypeOK, RowsAgree, NEW w \in Workers, OthersStay(w), rows' = rows, stock' = stock,
         Held(op[w]) = {}, Held(op'[w]) = {}
  PROVE  RowsAgree'
  <1>1. RowsOf(w)
    BY DEF RowsAgree
  <1>2. RowsOf(w)' /\ TakesFree(w)
    BY <1>1 DEF RowsOf, TakesFree
  <1>3. RowsStay(w) /\ StockKept(w)
    BY DEF RowsStay, StockKept
  <1>4. QED
    BY <1>2, <1>3, RowsMove

\* Where quiet steps lead.
LEMMA QuietPoints ==
  ASSUME TypeOK, OpsAgree, NEW w \in Workers, Quiet(w)
  PROVE  /\ op[w].at \in {"idle", "void_lock", "refund_lock", "approve"}
         /\ \/ op'[w].at \in {"idle", "void_lock", "insert", "refund_lock", "restore"}
            \/ /\ op'[w].at = "void_items"
               /\ op'[w].left = Items(op'[w].receipt) \ {op'[w].product}
  <1>1. CASE Arrives(w)
    <2>1. op[w].at = "idle"
      BY <1>1 DEF Arrives, VoidArrives, CreateRead, CreateWithoutReceipt, RefundRead
    <2>2. ASSUME NEW r \in Receipts, VoidArrives(w, r)
          PROVE  op'[w].at = "void_lock"
      BY <2>2, VoidArrivesFacts
    <2>3. ASSUME NEW q \in Requests, NEW r \in Receipts, NEW p \in Products,
                 NEW c \in Claims[r][p], NEW k \in 1..c, CreateRead(w, q, r, p, c, k)
          PROVE  op'[w].at = "insert"
      BY <2>3, CreateReadFacts
    <2>4. ASSUME NEW q \in Requests, NEW p \in LooseProducts, CreateWithoutReceipt(w, q, p, 1)
          PROVE  op'[w].at = "insert"
      BY <2>4, LooseFacts
    <2>5. ASSUME NEW q \in Requests, NEW x \in NewProducts \cup {NoProduct},
                 RefundRead(w, q, x)
          PROVE  op'[w].at = "refund_lock"
      BY <2>5, RefundReadFacts
    <2>6. QED
      BY <1>1, <2>1, <2>2, <2>3, <2>4, <2>5 DEF Arrives
  <1>2. CASE VoidLock(w)
    <2>1. op[w].at = "void_lock" /\ OpOf(w)
      BY <1>2, OpFacts DEF VoidLock
    <2>2. op[w].left = Items(op[w].receipt) \ {op[w].product}
      BY <2>1 DEF OpOf
    <2>3. "void_items" \in Points
      BY DEF Points, VoidPoints
    <2>4. Ends(w) \/ Goto(w, "void_items")
      BY <1>2 DEF VoidLock
    <2>5. CASE Ends(w)
      BY <2>1, <2>5, EndsFacts, IdleFacts
    <2>6. CASE Goto(w, "void_items")
      BY <2>1, <2>2, <2>3, <2>6, GotoFacts
    <2>7. QED
      BY <2>4, <2>5, <2>6
  <1>3. CASE RefundLock(w)
    <2>1. "restore" \in Points
      BY DEF Points, RefundPoints
    <2>2. op[w].at = "refund_lock" /\ (Ends(w) \/ Goto(w, "restore"))
      BY <1>3 DEF RefundLock
    <2>3. CASE Ends(w)
      BY <2>2, <2>3, EndsFacts, IdleFacts
    <2>4. CASE Goto(w, "restore")
      BY <2>1, <2>2, <2>4, GotoFacts
    <2>5. QED
      BY <2>2, <2>3, <2>4
  <1>4. CASE ApproveLost(w)
    BY <1>4, EndsFacts, IdleFacts DEF ApproveLost
  <1>5. QED
    BY <1>1, <1>2, <1>3, <1>4 DEF Quiet

\* A void that restores an item has it in its view.
LEMMA RowsVoidItem ==
  ASSUME TypeOK, OpsAgree, RowsAgree, NEW w \in Workers, VoidItem(w)
  PROVE  RowsAgree'
  <1> DEFINE r == op[w].receipt
             p == op[w].product
  <1>1. /\ op[w].at = "void_items" /\ r \in Receipts
        /\ p \in Items(r) \ op[w].left /\ op[w].left \subseteq Items(r) /\ p \in Products
        /\ Bought[r][p] \in Nat
        /\ op' \in [Workers -> Operation] /\ OthersStay(w) /\ op'[w].receipt = r
    BY VoidItemFacts
  <1>2. \/ /\ op'[w].at = "void_items"
           /\ op'[w].product \in op[w].left
           /\ op'[w].left = op[w].left \ {op'[w].product}
        \/ op[w].left = {} /\ op'[w].at \in {"void_wallet", "void_commit"}
    BY VoidItemFacts
  <1>3. /\ ProductFree(w, p) /\ Adds(w, p, Bought[r][p])
        /\ stock' = stock
    BY DEF VoidItem, committed
  <1>4. /\ DOMAIN rows'[w] = DOMAIN rows[w] \cup {p}
        /\ \A x \in DOMAIN rows[w] : x # p => rows'[w][x] = rows[w][x]
        /\ rows'[w][p] = View(w, p) + Bought[r][p]
        /\ RowsStay(w)
    <2>1. Bought[r][p] \in Int
      BY <1>1
    <2>2. QED
      BY <1>1, <1>3, <2>1, AddsFacts
  <1>5. RowsOf(w) /\ op[w].quantity \in Nat /\ op'[w].quantity \in Nat
    BY <1>1, OperationFields DEF RowsAgree, TypeOK
  <1>6. DOMAIN rows[w] = Items(r) \ (op[w].left \cup {p})
    BY <1>1, <1>5, HeldFacts DEF RowsOf
  <1>7. DOMAIN rows'[w] = Held(op'[w])
    <2>1. CASE op'[w].at = "void_items"
      <3>1. Held(op'[w]) = Items(r) \ (op'[w].left \cup {op'[w].product})
        BY <1>1, <2>1, HeldFacts
      <3>2. op'[w].left \cup {op'[w].product} = op[w].left
        BY <1>2, <2>1
      <3>3. QED
        BY <1>1, <1>4, <1>6, <3>1, <3>2
    <2>2. CASE op[w].left = {} /\ op'[w].at \in {"void_wallet", "void_commit"}
      <3>1. Held(op'[w]) = Items(r)
        BY <1>1, <2>2, HeldFacts
      <3>2. QED
        BY <1>1, <1>4, <1>6, <2>2, <3>1
    <2>3. QED
      BY <1>2, <2>1, <2>2
  <1>8. \A x \in DOMAIN rows'[w] : rows'[w][x] = stock'[x] + Change(op'[w], x)
    <2>1. op[w].at \in VoidPoints /\ op'[w].at \in VoidPoints
      BY <1>1, <1>2 DEF VoidPoints
    <2>2. \A x : Change(op[w], x) = Bought[r][x] /\ Change(op'[w], x) = Bought[r][x]
      BY <1>1, <1>5, <2>1, ChangeFacts
    <2>3. View(w, p) = stock[p]
      BY <1>6 DEF View
    <2>4. QED
      BY <1>3, <1>4, <1>5, <2>2, <2>3 DEF RowsOf
  <1>9. RowsOf(w)'
    BY <1>7, <1>8 DEF RowsOf
  <1>10. StockKept(w) /\ TakesFree(w)
    BY <1>3, <1>4 DEF StockKept, TakesFree
  <1>11. QED
    BY <1>1, <1>4, <1>9, <1>10, RowsMove

\* A refund or exchange that restores the returned product has it in its view.
LEMMA RowsRestore ==
  ASSUME TypeOK, OpsAgree, RequestsAgree, RowsAgree, NEW w \in Workers, Restore(w)
  PROVE  RowsAgree'
  <1> DEFINE p == op[w].product
             k == op[w].quantity
  <1>1. op[w].at = "restore" /\ Advances(w)
    BY RestoreFacts
  <1>2. \/ op'[w].at \in {"deduct", "refund_wallet"}
        \/ op'[w].at = "refund_commit" /\ op[w].exchange = NoProduct
    BY RestoreFacts
  <1>3. p \in Products /\ k \in Nat
    BY <1>1, RefundFacts DEF InRefund
  <1>4. op'[w].product = p /\ op'[w].quantity = k /\ op'[w].exchange = op[w].exchange /\ OthersStay(w)
    BY <1>1 DEF Advances
  <1>5. ProductFree(w, p) /\ Adds(w, p, k) /\ stock' = stock
    BY DEF Restore, committed
  <1>6. /\ DOMAIN rows'[w] = DOMAIN rows[w] \cup {p}
        /\ rows'[w][p] = View(w, p) + k
        /\ RowsStay(w)
    <2>1. k \in Int
      BY <1>3
    <2>2. QED
      BY <1>3, <1>5, <2>1, AddsFacts
  <1>7. DOMAIN rows[w] = {}
    BY <1>1, HeldFacts DEF RowsAgree, RowsOf
  <1>8. p # NoProduct
    BY <1>3, ConstantFacts
  <1>9. Held(op'[w]) = {p}
    <2>1. CASE op'[w].at \in {"deduct", "refund_wallet"}
      BY <1>4, <2>1, HeldFacts
    <2>2. CASE op'[w].at = "refund_commit" /\ op[w].exchange = NoProduct
      BY <1>4, <2>2, HeldFacts
    <2>3. QED
      BY <1>2, <2>1, <2>2
  <1>10. Change(op'[w], p) = k
    <2>1. CASE op'[w].at \in {"deduct", "refund_wallet"}
      <3>1. op'[w].at \in RefundPoints /\ op'[w].at # "refund_commit"
        BY <2>1 DEF RefundPoints
      <3>2. QED
        BY <1>3, <1>4, <3>1, ChangeFacts
    <2>2. CASE op'[w].at = "refund_commit" /\ op[w].exchange = NoProduct
      <3>1. Change(op'[w], p) = k - 0
        BY <1>3, <1>4, <1>8, <2>2, ChangeFacts
      <3>2. QED
        BY <1>3, <3>1
    <2>3. QED
      BY <1>2, <2>1, <2>2
  <1>11. View(w, p) = stock[p]
    BY <1>7 DEF View
  <1>12. RowsOf(w)'
    BY <1>5, <1>6, <1>7, <1>9, <1>10, <1>11 DEF RowsOf
  <1>13. StockKept(w) /\ TakesFree(w)
    BY <1>5, <1>6, <1>7 DEF StockKept, TakesFree
  <1>14. QED
    BY <1>4, <1>6, <1>12, <1>13, RowsMove

\* An exchange that gives a product has both in its view.
LEMMA RowsDeduct ==
  ASSUME TypeOK, OpsAgree, RequestsAgree, RowsAgree, NEW w \in Workers, Deduct(w)
  PROVE  RowsAgree'
  <1> DEFINE p == op[w].product
             k == op[w].quantity
             x == op[w].exchange
  <1>1. op[w].at = "deduct" /\ op'[w].at = "refund_commit" /\ Advances(w) /\ x \in Products
    BY DeductFacts
  <1>2. p \in Products /\ k \in Nat
    BY <1>1, RefundFacts DEF InRefund
  <1>3. op'[w].product = p /\ op'[w].quantity = k /\ op'[w].exchange = x /\ OthersStay(w)
    BY <1>1 DEF Advances
  <1>4. ProductFree(w, x) /\ Adds(w, x, -1) /\ stock' = stock
    BY DEF Deduct, committed
  <1>5. /\ DOMAIN rows'[w] = DOMAIN rows[w] \cup {x}
        /\ \A y \in DOMAIN rows[w] : y # x => rows'[w][y] = rows[w][y]
        /\ rows'[w][x] = View(w, x) + (-1)
        /\ RowsStay(w)
    <2>1. -1 \in Int
      OBVIOUS
    <2>2. QED
      BY <1>1, <1>4, <2>1, AddsFacts
  <1>6. RowsOf(w)
    BY DEF RowsAgree
  <1>7. op[w].at \in RefundPoints /\ op[w].at # "refund_commit"
    BY <1>1 DEF RefundPoints
  <1>8. DOMAIN rows[w] = {p} /\ rows[w][p] = stock[p] + k
    <2>1. Held(op[w]) = {p}
      BY <1>1, HeldFacts
    <2>2. Change(op[w], p) = k
      BY <1>2, <1>7, ChangeFacts
    <2>3. QED
      BY <1>6, <2>1, <2>2 DEF RowsOf
  <1>9. x # NoProduct /\ stock[x] \in Int /\ stock[p] \in Int
    BY <1>1, <1>2, ConstantFacts DEF TypeOK
  <1>10. Held(op'[w]) = {p, x}
    BY <1>1, <1>3, <1>9, HeldFacts
  <1>11. \A y : Change(op'[w], y) = (IF y = p THEN k ELSE 0) - (IF y = x THEN 1 ELSE 0)
    BY <1>1, <1>2, <1>3, ChangeFacts
  <1>12. CASE x = p
    <2>1. rows'[w][x] = stock[p] + k + (-1)
      BY <1>5, <1>8, <1>12 DEF View
    <2>2. Change(op'[w], p) = k - 1
      BY <1>11, <1>12
    <2>3. rows'[w][p] = stock[p] + Change(op'[w], p)
      BY <1>2, <1>9, <1>12, <2>1, <2>2
    <2>4. \A y \in DOMAIN rows'[w] : y = p
      BY <1>5, <1>8, <1>12
    <2>5. RowsOf(w)'
      BY <1>4, <1>5, <1>8, <1>10, <1>12, <2>3, <2>4 DEF RowsOf
    <2>6. StockKept(w) /\ TakesFree(w)
      BY <1>4, <1>5 DEF StockKept, TakesFree
    <2>7. QED
      BY <1>3, <1>5, <2>5, <2>6, RowsMove
  <1>13. CASE x # p
    <2>1. rows'[w][x] = stock[x] + (-1) /\ rows'[w][p] = stock[p] + k
      BY <1>5, <1>8, <1>13 DEF View
    <2>2. Change(op'[w], p) = k - 0 /\ Change(op'[w], x) = 0 - 1
      BY <1>11, <1>13
    <2>3. /\ rows'[w][p] = stock[p] + Change(op'[w], p)
          /\ rows'[w][x] = stock[x] + Change(op'[w], x)
      BY <1>2, <1>9, <2>1, <2>2
    <2>4. \A y \in DOMAIN rows'[w] : y = p \/ y = x
      BY <1>5, <1>8
    <2>5. RowsOf(w)'
      BY <1>4, <1>5, <1>8, <1>10, <2>3, <2>4 DEF RowsOf
    <2>6. StockKept(w) /\ TakesFree(w)
      BY <1>4, <1>5 DEF StockKept, TakesFree
    <2>7. QED
      BY <1>3, <1>5, <2>5, <2>6, RowsMove
  <1>14. QED
    BY <1>12, <1>13

\* Paying back leaves the stock alone.
LEMMA RowsWallet ==
  ASSUME TypeOK, OpsAgree, RequestsAgree, RowsAgree, NEW w \in Workers,
         VoidWallet(w) \/ RefundWallet(w)
  PROVE  RowsAgree'
  <1>1. rows' = rows /\ stock' = stock
    BY DEF VoidWallet, RefundWallet, committed
  <1>2. RowsOf(w) /\ op[w].quantity \in Nat
    BY OperationFields DEF RowsAgree, TypeOK
  <1>3. Advances(w) /\ OthersStay(w) /\ op'[w].quantity = op[w].quantity
    BY VoidWalletFacts, RefundWalletFacts DEF Advances
  <1>4. /\ Held(op'[w]) = Held(op[w])
        /\ \A p \in Held(op[w]) : Change(op'[w], p) = Change(op[w], p)
    <2>1. CASE VoidWallet(w)
      <3>1. op[w].at = "void_wallet" /\ op'[w].at = "void_commit" /\ op'[w].receipt = op[w].receipt
        BY <2>1, VoidWalletFacts DEF Advances
      <3>2. op[w].at \in VoidPoints /\ op'[w].at \in VoidPoints
        BY <3>1 DEF VoidPoints
      <3>3. QED
        BY <1>2, <1>3, <3>1, <3>2, HeldFacts, ChangeFacts
    <2>2. CASE RefundWallet(w)
      <3>1. /\ op[w].at = "refund_wallet" /\ op'[w].at = "refund_commit"
            /\ op[w].exchange = NoProduct
        BY <2>2, RefundWalletFacts
      <3>2. /\ op'[w].product = op[w].product /\ op'[w].exchange = NoProduct
        BY <1>3, <3>1 DEF Advances
      <3>3. op[w].product \in Products /\ op[w].product # NoProduct
        BY <3>1, RefundFacts, ConstantFacts DEF InRefund
      <3>4. Held(op[w]) = {op[w].product} /\ Held(op'[w]) = {op[w].product}
        BY <3>1, <3>2, HeldFacts
      <3>5. op[w].at \in RefundPoints /\ op[w].at # "refund_commit"
        BY <3>1 DEF RefundPoints
      <3>6. Change(op[w], op[w].product) = op[w].quantity
        BY <1>2, <3>5, ChangeFacts
      <3>7. Change(op'[w], op[w].product) = op[w].quantity - 0
        BY <1>2, <1>3, <3>1, <3>2, <3>3, ChangeFacts
      <3>8. QED
        BY <1>2, <3>4, <3>6, <3>7
    <2>3. QED
      BY <2>1, <2>2
  <1>5. RowsOf(w)'
    BY <1>1, <1>2, <1>4 DEF RowsOf
  <1>6. RowsStay(w) /\ StockKept(w) /\ TakesFree(w)
    BY <1>1 DEF RowsStay, StockKept, TakesFree
  <1>7. QED
    BY <1>3, <1>5, <1>6, RowsMove

\* A transaction that ends holds nothing, and what it commits is what it held.
LEMMA RowsEnd ==
  ASSUME TypeOK, OpsAgree, RowsAgree, NEW w \in Workers,
         VoidCommit(w) \/ RefundCommit(w) \/ Rolls(w)
  PROVE  RowsAgree'
  <1>1. Ends(w) /\ Forget(w)
    BY DEF VoidCommit, RefundCommit, Rolls, Rollback, CommitBooks
  <1>2. op'[w] = Idle /\ OthersStay(w) /\ DOMAIN rows'[w] = {} /\ RowsStay(w)
    BY <1>1, EndsFacts, ForgetFacts
  <1>3. Held(op'[w]) = {}
    BY <1>2, IdleFacts, HeldFacts
  <1>4. RowsOf(w)' /\ TakesFree(w)
    BY <1>2, <1>3 DEF RowsOf, TakesFree
  <1>5. StockKept(w)
    <2>1. CASE VoidCommit(w) \/ RefundCommit(w)
      <3>1. CommitBooks(w)
        BY <2>1 DEF VoidCommit, RefundCommit
      <3>2. QED
        BY <3>1, CommitFacts DEF StockKept, View
    <2>2. CASE Rolls(w)
      BY <2>2 DEF Rolls, Rollback, committed, StockKept
    <2>3. QED
      BY <2>1, <2>2
  <1>6. QED
    BY <1>2, <1>4, <1>5, RowsMove

\* RowsAgree is preserved.
LEMMA RowsPreserved ==
  ASSUME TypeOK, OpsAgree, RequestsAgree, RowsAgree, [Next]_vars
  PROVE  RowsAgree'
  <1>1. ASSUME NEW w \in Workers, StepOf(w)
        PROVE  RowsAgree'
    <2>1. CASE Quiet(w)
      <3>1. OthersStay(w) /\ rows' = rows /\ stock' = stock
        BY <2>1, QuietFacts DEF OnlyMoves, committed
      <3>2. Held(op[w]) = {}
        BY <2>1, QuietPoints, HeldFacts
      <3>3. Held(op'[w]) = {}
        <4>1. CASE op'[w].at \in {"idle", "void_lock", "insert", "refund_lock", "restore"}
          BY <4>1, HeldFacts
        <4>2. CASE /\ op'[w].at = "void_items"
                   /\ op'[w].left = Items(op'[w].receipt) \ {op'[w].product}
          <5>1. Held(op'[w]) = Items(op'[w].receipt) \ (op'[w].left \cup {op'[w].product})
            BY <4>2, HeldFacts
          <5>2. QED
            BY <4>2, <5>1
        <4>3. QED
          BY <2>1, <4>1, <4>2, QuietPoints
      <3>4. QED
        BY <3>1, <3>2, <3>3, RowsBare
    <2>2. CASE VoidWallet(w) \/ RefundWallet(w)
      BY <2>2, RowsWallet
    <2>3. CASE VoidCommit(w) \/ RefundCommit(w) \/ Rolls(w)
      BY <2>3, RowsEnd
    <2>4. CASE CreateInsert(w)
      <3>1. op[w].at = "insert" /\ op[w].id \in Requests /\ rows' = rows /\ stock' = stock
        BY <2>4, RequestInserted DEF committed
      <3>2. op'[w].at = "approve" /\ OthersStay(w)
        BY <2>4, <3>1, InsertedFacts
      <3>3. Held(op[w]) = {} /\ Held(op'[w]) = {}
        BY <3>1, <3>2, HeldFacts
      <3>4. QED
        BY <3>1, <3>2, <3>3, RowsBare
    <2>5. CASE Approve(w)
      <3>1. op[w].at = "approve" /\ rows' = rows /\ stock' = stock /\ Ends(w)
        BY <2>5 DEF Approve, committed
      <3>2. op'[w].at = "idle" /\ OthersStay(w)
        BY <3>1, EndsFacts, IdleFacts
      <3>3. Held(op[w]) = {} /\ Held(op'[w]) = {}
        BY <3>1, <3>2, HeldFacts
      <3>4. QED
        BY <3>1, <3>2, <3>3, RowsBare
    <2>6. QED
      BY <1>1, <2>1, <2>2, <2>3, <2>4, <2>5, RowsVoidItem, RowsRestore, RowsDeduct
         DEF StepOf
  <1>2. ASSUME op' = op, rows' = rows, stock' = stock
        PROVE  RowsAgree'
    BY <1>2 DEF RowsAgree, RowsOf, HoldsProduct
  <1>3. ASSUME NEW q \in Requests, UpdateReturn(q) \/ DeleteReturn(q)
        PROVE  RowsAgree'
    BY <1>2, <1>3, RequestEdited DEF committed
  <1>4. CASE Crash
    <2>1. \A w \in Workers : op'[w] = Idle /\ rows'[w] = <<>>
      BY <1>4 DEF Crash
    <2>2. ASSUME NEW w \in Workers
          PROVE  DOMAIN rows'[w] = {} /\ Held(op'[w]) = {}
      BY <2>1, IdleFacts, HeldFacts
    <2>3. QED
      BY <2>2 DEF RowsAgree, RowsOf
  <1>5. CASE UNCHANGED vars
    BY <1>2, <1>5 DEF vars, committed
  <1>6. QED
    BY <1>1, <1>3, <1>4, <1>5, NextCases

-----------------------------------------------------------------------------
(* What the transactions hold of the wallets: PursesAgree *)

\* What the purse of w is.
PurseOf(w) == PaysBack(w) => purse[w] = balance[WalletOf[op[w].receipt]] + Amount(op[w])

\* A wallet changes only when w holds it, and w pays into one that is free.
BalanceKept(w) == \A x \in Wallets : ~HoldsWallet(w, x) => balance'[x] = balance[x]
PaysFree(w) == PaysBack(w)' => WalletFree(w, WalletOf[op'[w].receipt])

\* A step of w keeps PursesAgree if the purse of w is right and disturbs nobody.
LEMMA PursesMove ==
  ASSUME TypeOK, PursesAgree, NEW w \in Workers, OthersStay(w), PursesStay(w),
         BalanceKept(w), PaysFree(w), PurseOf(w)'
  PROVE  PursesAgree'
  <1>1. ASSUME NEW v \in Workers, v # w, PaysBack(v)'
        PROVE  /\ PaysBack(v)
               /\ purse'[v] = balance'[WalletOf[op'[v].receipt]] + Amount(op'[v])
               /\ PaysBack(w)' => WalletOf[op'[v].receipt] # WalletOf[op'[w].receipt]
    <2>1. op'[v] = op[v] /\ purse'[v] = purse[v] /\ v \in Others(w)
      BY <1>1 DEF OthersStay, PursesStay, Others
    <2>2. PaysBack(v)
      BY <1>1, <2>1 DEF PaysBack
    <2>3. op[v].receipt \in Receipts
      BY <2>2, OperationFields DEF PaysBack, TypeOK
    <2>4. WalletOf[op[v].receipt] \in Wallets
      BY <2>3, ConstantFacts
    <2>5. purse[v] = balance[WalletOf[op[v].receipt]] + Amount(op[v])
      BY <2>2 DEF PursesAgree
    <2>6. ~HoldsWallet(w, WalletOf[op[v].receipt])
      BY <1>1, <2>2 DEF PursesAgree, HoldsWallet
    <2>7. balance'[WalletOf[op[v].receipt]] = balance[WalletOf[op[v].receipt]]
      BY <2>4, <2>6 DEF BalanceKept
    <2>8. PaysBack(w)' => WalletOf[op[v].receipt] # WalletOf[op'[w].receipt]
      BY <2>1, <2>2 DEF PaysFree, WalletFree, HoldsWallet
    <2>9. QED
      BY <2>1, <2>2, <2>5, <2>7, <2>8
  <1>2. \A v \in Workers : PaysBack(v)' =>
          purse'[v] = balance'[WalletOf[op'[v].receipt]] + Amount(op'[v])
    <2>1. PaysBack(w)' => purse'[w] = balance'[WalletOf[op'[w].receipt]] + Amount(op'[w])
      BY DEF PurseOf, Amount
    <2>2. QED
      BY <1>1, <2>1
  <1>3. ASSUME NEW u \in Workers, NEW v \in Workers, PaysBack(u)', PaysBack(v)', u # v,
               WalletOf[op'[u].receipt] = WalletOf[op'[v].receipt]
        PROVE  FALSE
    <2>1. CASE u = w
      BY <2>1, <1>1, <1>3
    <2>2. CASE v = w
      BY <2>2, <1>1, <1>3
    <2>3. CASE u # w /\ v # w
      <3>1. op'[u] = op[u] /\ op'[v] = op[v]
        BY <2>3 DEF OthersStay
      <3>2. QED
        BY <3>1, <2>3, <1>1, <1>3 DEF PursesAgree
    <2>4. QED
      BY <2>1, <2>2, <2>3
  <1>4. PursesAgree' = (
          /\ \A v \in Workers : PaysBack(v)' =>
               purse'[v] = balance'[WalletOf[op'[v].receipt]] + Amount(op'[v])
          /\ \A u, v \in Workers :
               /\ PaysBack(u)' /\ PaysBack(v)'
               /\ WalletOf[op'[u].receipt] = WalletOf[op'[v].receipt]
               => u = v)
    BY DEF PursesAgree, Amount
  <1>5. QED
    BY <1>2, <1>3, <1>4

\* A step after which w does not pay back keeps PursesAgree.
LEMMA PursesBare ==
  ASSUME TypeOK, PursesAgree, NEW w \in Workers, OthersStay(w), PursesStay(w),
         BalanceKept(w), ~PaysBack(w)'
  PROVE  PursesAgree'
  <1>1. PaysFree(w) /\ PurseOf(w)'
    BY DEF PaysFree, PurseOf
  <1>2. QED
    BY <1>1, PursesMove

\* Only a transaction about to commit pays back.
LEMMA PaysAtCommit ==
  ASSUME NEW w, op[w].at \notin {"void_commit", "refund_commit"}
  PROVE  ~PaysBack(w)
  BY DEF PaysBack

\* The steps that lead to a commit without a payment.
LEMMA NotPaying ==
  ASSUME TypeOK, OpsAgree, RequestsAgree, NEW w \in Workers,
         VoidItem(w) \/ Restore(w) \/ Deduct(w)
  PROVE  ~PaysBack(w)' /\ OthersStay(w)
  <1>1. CASE VoidItem(w)
    <2>1. op'[w].receipt = op[w].receipt /\ OthersStay(w)
      BY <1>1, VoidItemFacts
    <2>2. \/ op'[w].at \in {"void_items", "void_wallet"}
          \/ op'[w].at = "void_commit" /\ Method[op[w].receipt] # "WALLET"
      BY <1>1, VoidItemFacts
    <2>3. QED
      BY <2>1, <2>2 DEF PaysBack
  <1>2. CASE Restore(w)
    <2>1. op'[w].receipt = op[w].receipt /\ OthersStay(w)
      BY <1>2, RestoreFacts DEF Advances
    <2>2. \/ op'[w].at \in {"deduct", "refund_wallet"}
          \/ /\ op'[w].at = "refund_commit"
             /\ op[w].receipt = NoReceipt \/ Method[op[w].receipt] = "CASH"
      BY <1>2, RestoreFacts
    <2>3. QED
      BY <2>1, <2>2 DEF PaysBack
  <1>3. CASE Deduct(w)
    <2>1. op'[w].exchange \in Products /\ OthersStay(w) /\ op'[w].at = "refund_commit"
      BY <1>3, DeductFacts DEF Advances
    <2>2. op'[w].exchange # NoProduct
      BY <2>1, ConstantFacts
    <2>3. QED
      BY <2>1, <2>2 DEF PaysBack
  <1>4. QED
    BY <1>1, <1>2, <1>3

\* The transaction that pays back reads the balance when nobody else holds it.
LEMMA PursesPay ==
  ASSUME TypeOK, OpsAgree, PursesAgree, NEW w \in Workers, VoidWallet(w) \/ RefundWallet(w)
  PROVE  PursesAgree'
  <1> DEFINE x == WalletOf[op[w].receipt]
  <1>1. CASE VoidWallet(w)
    <2>1. /\ op'[w].at = "void_commit" /\ op'[w].receipt = op[w].receipt /\ OthersStay(w)
      BY <1>1, VoidWalletFacts DEF Advances
    <2>2. /\ purse' = [purse EXCEPT ![w] = balance[x] + Total(op[w].receipt)]
          /\ balance' = balance /\ WalletFree(w, x)
      BY <1>1 DEF VoidWallet, committed
    <2>3. purse'[w] = balance[x] + Total(op[w].receipt) /\ PursesStay(w)
      BY <2>2 DEF TypeOK, PursesStay
    <2>4. Amount(op'[w]) = Total(op[w].receipt)
      BY <2>1 DEF Amount
    <2>5. PurseOf(w)' /\ PaysFree(w)
      <3>1. PurseOf(w)' = (PaysBack(w)' =>
              purse'[w] = balance'[WalletOf[op'[w].receipt]] + Amount(op'[w]))
        BY DEF PurseOf, Amount
      <3>2. QED
        BY <2>1, <2>2, <2>3, <2>4, <3>1 DEF PaysFree
    <2>6. BalanceKept(w)
      BY <2>2 DEF BalanceKept
    <2>7. QED
      BY <2>1, <2>3, <2>5, <2>6, PursesMove
  <1>2. CASE RefundWallet(w)
    <2>1. /\ op'[w].at = "refund_commit" /\ op'[w].receipt = op[w].receipt /\ OthersStay(w)
          /\ op'[w].quantity = op[w].quantity
      BY <1>2, RefundWalletFacts DEF Advances
    <2>2. /\ purse' = [purse EXCEPT ![w] = balance[x] + op[w].quantity]
          /\ balance' = balance /\ WalletFree(w, x)
      BY <1>2 DEF RefundWallet, committed
    <2>3. purse'[w] = balance[x] + op[w].quantity /\ PursesStay(w)
      BY <2>2 DEF TypeOK, PursesStay
    <2>4. Amount(op'[w]) = op[w].quantity
      BY <2>1 DEF Amount
    <2>5. PurseOf(w)' /\ PaysFree(w)
      <3>1. PurseOf(w)' = (PaysBack(w)' =>
              purse'[w] = balance'[WalletOf[op'[w].receipt]] + Amount(op'[w]))
        BY DEF PurseOf, Amount
      <3>2. QED
        BY <2>1, <2>2, <2>3, <2>4, <3>1 DEF PaysFree
    <2>6. BalanceKept(w)
      BY <2>2 DEF BalanceKept
    <2>7. QED
      BY <2>1, <2>3, <2>5, <2>6, PursesMove
  <1>3. QED
    BY <1>1, <1>2

\* PursesAgree is preserved.
LEMMA PursesPreserved ==
  ASSUME TypeOK, OpsAgree, RequestsAgree, PursesAgree, [Next]_vars
  PROVE  PursesAgree'
  <1>1. ASSUME NEW w \in Workers, StepOf(w)
        PROVE  PursesAgree'
    <2>1. ASSUME OthersStay(w), purse' = purse, balance' = balance, ~PaysBack(w)'
          PROVE  PursesAgree'
      <3>1. PursesStay(w) /\ BalanceKept(w)
        BY <2>1 DEF PursesStay, BalanceKept
      <3>2. QED
        BY <2>1, <3>1, PursesBare
    <2>2. CASE Quiet(w)
      <3>1. OthersStay(w) /\ purse' = purse /\ balance' = balance
        BY <2>2, QuietFacts DEF OnlyMoves, committed
      <3>2. op'[w].at \notin {"void_commit", "refund_commit"}
        BY <2>2, QuietPoints
      <3>3. ~PaysBack(w)'
        BY <3>2 DEF PaysBack
      <3>4. QED
        BY <2>1, <3>1, <3>3
    <2>3. CASE VoidItem(w) \/ Restore(w) \/ Deduct(w)
      <3>1. purse' = purse /\ balance' = balance
        BY <2>3 DEF VoidItem, Restore, Deduct, committed
      <3>2. QED
        BY <2>1, <2>3, <3>1, NotPaying
    <2>4. CASE VoidCommit(w) \/ RefundCommit(w) \/ Rolls(w)
      <3>1. Ends(w) /\ Forget(w)
        BY <2>4 DEF VoidCommit, RefundCommit, Rolls, Rollback, CommitBooks
      <3>2. op'[w].at = "idle" /\ OthersStay(w) /\ PursesStay(w)
        BY <3>1, EndsFacts, ForgetFacts, IdleFacts
      <3>3. ~PaysBack(w)'
        BY <3>2 DEF PaysBack
      <3>4. BalanceKept(w)
        <4>1. CASE VoidCommit(w) \/ RefundCommit(w)
          <5>1. CommitBooks(w)
            BY <4>1 DEF VoidCommit, RefundCommit
          <5>2. QED
            BY <5>1, CommitFacts DEF BalanceKept
        <4>2. CASE Rolls(w)
          BY <4>2 DEF Rolls, Rollback, committed, BalanceKept
        <4>3. QED
          BY <2>4, <4>1, <4>2
      <3>5. QED
        BY <3>2, <3>3, <3>4, PursesBare
    <2>5. CASE CreateInsert(w)
      <3>1. op[w].id \in Requests /\ purse' = purse /\ balance' = balance
        BY <2>5, RequestInserted DEF committed
      <3>2. op'[w].at = "approve" /\ OthersStay(w)
        BY <2>5, <3>1, InsertedFacts
      <3>3. ~PaysBack(w)'
        BY <3>2 DEF PaysBack
      <3>4. QED
        BY <2>1, <3>1, <3>2, <3>3
    <2>6. CASE Approve(w)
      <3>1. purse' = purse /\ balance' = balance /\ Ends(w)
        BY <2>6 DEF Approve, committed
      <3>2. op'[w].at = "idle" /\ OthersStay(w)
        BY <3>1, EndsFacts, IdleFacts
      <3>3. ~PaysBack(w)'
        BY <3>2 DEF PaysBack
      <3>4. QED
        BY <2>1, <3>1, <3>2, <3>3
    <2>7. QED
      BY <1>1, <2>2, <2>3, <2>4, <2>5, <2>6, PursesPay DEF StepOf
  <1>2. ASSUME op' = op, purse' = purse, balance' = balance
        PROVE  PursesAgree'
    BY <1>2 DEF PursesAgree, PaysBack, Amount
  <1>3. ASSUME NEW q \in Requests, UpdateReturn(q) \/ DeleteReturn(q)
        PROVE  PursesAgree'
    BY <1>2, <1>3, RequestEdited DEF committed
  <1>4. CASE Crash
    <2>1. \A w \in Workers : op'[w] = Idle
      BY <1>4 DEF Crash
    <2>2. \A w \in Workers : ~PaysBack(w)'
      BY <2>1, IdleFacts DEF PaysBack
    <2>3. QED
      BY <2>2 DEF PursesAgree
  <1>5. CASE UNCHANGED vars
    BY <1>2, <1>5 DEF vars, committed
  <1>6. QED
    BY <1>1, <1>3, <1>4, <1>5, NextCases

-----------------------------------------------------------------------------
(* What was returned: RequestsAgree, ReversedOnce, CountsAgree *)

\* The steps that commit nothing and touch no request.
LEMMA NoBooks ==
  ASSUME TypeOK, NEW w \in Workers,
         \/ Quiet(w) \/ VoidItem(w) \/ Restore(w) \/ Deduct(w)
         \/ VoidWallet(w) \/ RefundWallet(w) \/ Rolls(w)
  PROVE  UNCHANGED <<committed, request, bypassed>>
  <1>1. CASE Quiet(w)
    BY <1>1, QuietFacts DEF OnlyMoves
  <1>2. CASE VoidItem(w) \/ Restore(w) \/ Deduct(w)
    BY <1>2 DEF VoidItem, Restore, Deduct
  <1>3. CASE VoidWallet(w) \/ RefundWallet(w)
    BY <1>3 DEF VoidWallet, RefundWallet
  <1>4. CASE Rolls(w)
    BY <1>4 DEF Rolls, Rollback
  <1>5. QED
    BY <1>1, <1>2, <1>3, <1>4

\* Every step, by what it does to the books.
LEMMA BookCases ==
  ASSUME TypeOK, [Next]_vars
  PROVE  \/ UNCHANGED <<committed, request, bypassed>>
         \/ \E w \in Workers :
              VoidCommit(w) \/ RefundCommit(w) \/ CreateInsert(w) \/ Approve(w)
         \/ \E q \in Requests : UpdateReturn(q) \/ DeleteReturn(q)
  <1>1. ASSUME NEW w \in Workers, StepOf(w)
        PROVE  \/ UNCHANGED <<committed, request, bypassed>>
               \/ VoidCommit(w) \/ RefundCommit(w) \/ CreateInsert(w) \/ Approve(w)
    BY <1>1, NoBooks DEF StepOf
  <1>2. Crash => UNCHANGED <<committed, request, bypassed>>
    BY DEF Crash
  <1>3. UNCHANGED vars => UNCHANGED <<committed, request, bypassed>>
    BY DEF vars
  <1>4. QED
    BY <1>1, <1>2, <1>3, NextCases

\* RequestsAgree is preserved.
LEMMA RequestsPreserved ==
  ASSUME TypeOK, OpsAgree, RequestsAgree, [Next]_vars
  PROVE  RequestsAgree'
  <1>1. ASSUME UNCHANGED <<request, given, refunded, processed, bypassed>>
        PROVE  RequestsAgree'
    BY <1>1 DEF RequestsAgree, RequestOf
  <1>2. ASSUME NEW w \in Workers, VoidCommit(w)
        PROVE  RequestsAgree'
    BY <1>1, <1>2 DEF VoidCommit
  <1>3. UNCHANGED <<committed, request, bypassed>> => RequestsAgree'
    BY <1>1 DEF committed
  <1>4. ASSUME NEW w \in Workers, RefundCommit(w) \/ CreateInsert(w) \/ Approve(w)
        PROVE  RequestsAgree'
    BY <1>4, RequestProcessed, RequestInserted, RequestApproved
  <1>5. ASSUME NEW q \in Requests, UpdateReturn(q) \/ DeleteReturn(q)
        PROVE  RequestsAgree'
    BY <1>5, RequestEdited
  <1>6. QED
    BY <1>2, <1>3, <1>4, <1>5, BookCases

\* ReversedOnce is preserved: a void commits only a receipt that was not voided, a
\* refund only a request that was pending.
LEMMA OncePreserved ==
  ASSUME TypeOK, OpsAgree, RequestsAgree, ReversedOnce, [Next]_vars
  PROVE  ReversedOnce'
  <1>1. CASE UNCHANGED <<committed, request, bypassed>>
    BY <1>1 DEF ReversedOnce, committed
  <1>2. ASSUME NEW w \in Workers, VoidCommit(w)
        PROVE  ReversedOnce'
    <2>1. /\ op[w].at = "void_commit"
          /\ voided' = [voided EXCEPT ![op[w].receipt] = @ + 1]
          /\ UNCHANGED <<request, processed, bypassed>>
      BY <1>2 DEF VoidCommit
    <2>2. op[w].receipt \in Receipts /\ voided[op[w].receipt] = 0
      BY <2>1, OpFacts DEF OpOf, InVoid, VoidPoints
    <2>3. \A r \in Receipts : voided'[r] <= 1
      BY <2>1, <2>2 DEF ReversedOnce, TypeOK
    <2>4. QED
      BY <2>1, <2>3 DEF ReversedOnce
  <1>3. ASSUME NEW w \in Workers, RefundCommit(w)
        PROVE  ReversedOnce'
    <2>1. /\ op[w].id \in Requests
          /\ request[op[w].id].status = "pending"
          /\ request'[op[w].id].receipt = request[op[w].id].receipt
          /\ \A x \in Requests : x # op[w].id => request'[x] = request[x]
          /\ processed'[op[w].id] = processed[op[w].id] + 1
          /\ \A x \in Requests : x # op[w].id => processed'[x] = processed[x]
          /\ UNCHANGED <<voided, bypassed>>
      BY <1>3, RequestProcessed
    <2>2. RequestOf(op[w].id) /\ processed[op[w].id] \in Nat
      BY <2>1 DEF RequestsAgree, TypeOK
    <2>3. processed'[op[w].id] > 1 => request[op[w].id].receipt \in bypassed
      <3>1. processed'[op[w].id] > 1 => processed[op[w].id] > 0
        BY <2>1, <2>2
      <3>2. QED
        BY <2>1, <2>2, <3>1 DEF RequestOf
    <2>4. ASSUME NEW q \in Requests, processed'[q] > 1
          PROVE  request'[q].receipt \in bypassed'
      BY <2>1, <2>3, <2>4 DEF ReversedOnce
    <2>5. QED
      BY <2>1, <2>4 DEF ReversedOnce
  <1>4. ASSUME NEW w \in Workers, CreateInsert(w)
        PROVE  ReversedOnce'
    <2>1. /\ op[w].id \in Requests /\ processed[op[w].id] = 0
          /\ \A x \in Requests : x # op[w].id => request'[x] = request[x]
          /\ UNCHANGED <<voided, processed>>
      BY <1>4, RequestInserted DEF committed
    <2>2. bypassed \subseteq bypassed'
      BY <1>4 DEF CreateInsert
    <2>3. ASSUME NEW q \in Requests, processed'[q] > 1
          PROVE  request'[q].receipt \in bypassed'
      BY <2>1, <2>2, <2>3 DEF ReversedOnce
    <2>4. QED
      BY <2>1, <2>3 DEF ReversedOnce
  <1>5. ASSUME \A q \in Requests : request'[q].receipt = request[q].receipt,
               UNCHANGED committed, bypassed \subseteq bypassed'
        PROVE  ReversedOnce'
    BY <1>5 DEF ReversedOnce, committed
  <1>6. ASSUME NEW w \in Workers, Approve(w)
        PROVE  ReversedOnce'
    <2>1. \A q \in Requests : request'[q].receipt = request[q].receipt
      BY <1>6, RequestApproved
    <2>2. UNCHANGED committed /\ bypassed \subseteq bypassed'
      BY <1>6 DEF Approve
    <2>3. QED
      BY <1>5, <2>1, <2>2
  <1>7. ASSUME NEW q \in Requests, UpdateReturn(q) \/ DeleteReturn(q)
        PROVE  ReversedOnce'
    <2>1. \A x \in Requests : request'[x].receipt = request[x].receipt
      BY <1>7, RequestEdited
    <2>2. UNCHANGED committed /\ bypassed \subseteq bypassed'
      BY <1>7, RequestEdited
    <2>3. QED
      BY <1>5, <2>1, <2>2
  <1>8. QED
    BY <1>1, <1>2, <1>3, <1>4, <1>6, <1>7, BookCases

\* What a request counts of a product of a receipt.
Asked(q, r, p) == IF Counts(q, r, p) THEN request[q].quantity ELSE 0

\* What was returned so far is the sum of what the requests count.
LEMMA ReturnedFacts ==
  ASSUME TypeOK, NEW r, NEW p
  PROVE  /\ [q \in Requests |-> Asked(q, r, p)] \in [Requests -> Nat]
         /\ ReturnedSoFar(r, p) = Sum([q \in Requests |-> Asked(q, r, p)])
         /\ ReturnedSoFar(r, p) \in Nat
  <1>1. \A q \in Requests : request[q].quantity \in Nat
    BY DEF TypeOK, Request
  <1>2. [q \in Requests |-> Asked(q, r, p)] \in [Requests -> Nat]
    BY <1>1 DEF Asked
  <1>3. ReturnedSoFar(r, p) = Sum([q \in Requests |-> Asked(q, r, p)])
    BY DEF ReturnedSoFar, Asked
  <1>4. QED
    BY <1>2, <1>3, FiniteFacts, SumType

\* A request counts as it did, and says the same of what was bought.
CountsAlike(q, r, p) ==
  /\ Asked(q, r, p)' = Asked(q, r, p)
  /\ Counts(q, r, p) => Counts(q, r, p)' /\ request'[q].purchased = request[q].purchased
\* For receipts left alone, what was returned so far stays, and what covers it.
Stays(r, p) ==
  /\ ReturnedSoFar(r, p)' = ReturnedSoFar(r, p)
  /\ Covered(r, p) => Covered(r, p)'
SameReturns == \A r \in Receipts \ bypassed' : \A p \in Products : Stays(r, p)
\* What w is about to request is left.
AsksLeft(w) == \A r \in Receipts \ bypassed' : \A p \in Products :
  op'[w].at = "insert" /\ op'[w].receipt = r /\ op'[w].product = p =>
    ReturnedSoFar(r, p) + op'[w].quantity <= op'[w].purchased

\* It stays when each request counts as it did.
LEMMA SameAsked ==
  ASSUME NEW r, NEW p, \A q \in Requests : CountsAlike(q, r, p)
  PROVE  Stays(r, p)
  <1>1. [q \in Requests |-> Asked(q, r, p)'] = [q \in Requests |-> Asked(q, r, p)]
    BY DEF CountsAlike
  <1>2. ReturnedSoFar(r, p)' = Sum([q \in Requests |-> Asked(q, r, p)'])
    BY DEF ReturnedSoFar, Asked, Sum, Units, Counts
  <1>3. ReturnedSoFar(r, p) = Sum([q \in Requests |-> Asked(q, r, p)])
    BY DEF ReturnedSoFar, Asked
  <1>4. ReturnedSoFar(r, p)' = ReturnedSoFar(r, p)
    BY <1>1, <1>2, <1>3
  <1>5. ASSUME Covered(r, p)
        PROVE  Covered(r, p)'
    <2>1. CASE ReturnedSoFar(r, p) = 0
      BY <1>4, <2>1 DEF Covered
    <2>2. CASE ReturnedSoFar(r, p) # 0
      <3>1. PICK q \in Requests : Counts(q, r, p) /\ ReturnedSoFar(r, p) <= request[q].purchased
        BY <1>5, <2>2 DEF Covered
      <3>2. Counts(q, r, p)' /\ request'[q].purchased = request[q].purchased
        BY <3>1 DEF CountsAlike
      <3>3. ReturnedSoFar(r, p)' <= request'[q].purchased
        BY <1>4, <3>1, <3>2
      <3>4. QED
        BY <3>2, <3>3 DEF Covered
    <2>3. QED
      BY <2>1, <2>2
  <1>6. QED
    BY <1>4, <1>5 DEF Stays

\* Every worker asks for what it did, for nothing, or for what is left.
AllAskLeft == \A v \in Workers :
  op'[v] = op[v] \/ op'[v].at # "insert" \/ AsksLeft(v)

\* A step keeps CountsAgree if it returns nothing and asks for what is left.
LEMMA CountsMove ==
  ASSUME TypeOK, OpsAgree', CountsAgree, bypassed \subseteq bypassed', SameReturns,
         AllAskLeft
  PROVE  CountsAgree'
  <1>1. ASSUME NEW r \in Receipts \ bypassed', NEW p \in Products
        PROVE  Covered(r, p)'
    BY <1>1 DEF CountsAgree, SameReturns, Stays
  <1>2. ASSUME NEW r \in Receipts \ bypassed', NEW v \in Workers, NEW p \in Products,
               op'[v].at = "insert", op'[v].receipt = r, op'[v].product = p
        PROVE  ReturnedSoFar(r, p)' + op'[v].quantity <= op'[v].purchased
    <2>1. ReturnedSoFar(r, p)' = ReturnedSoFar(r, p)
      BY DEF SameReturns, Stays
    <2>2. CASE AsksLeft(v)
      BY <1>2, <2>1, <2>2 DEF AsksLeft
    <2>3. CASE op'[v] = op[v]
      BY <1>2, <2>1, <2>3 DEF CountsAgree
    <2>4. QED
      BY <1>2, <2>2, <2>3 DEF AllAskLeft
  <1>3. ASSUME NEW v \in Workers, op'[v].at = "insert"
        PROVE  op'[v].product \in Products
    <2>1. OpOf(v)'
      BY DEF OpsAgree
    <2>2. QED
      BY <1>3, <2>1 DEF OpOf
  <1>4. CountsAgree' = (\A r \in Receipts \ bypassed' :
          /\ \A p \in Products : Covered(r, p)'
          /\ \A v \in Workers : op'[v].at = "insert" /\ op'[v].receipt = r =>
               ReturnedSoFar(r, op[v].product)' + op'[v].quantity
                 <= op'[v].purchased)
    BY DEF CountsAgree
  <1>5. ASSUME NEW r \in Receipts \ bypassed', NEW v \in Workers,
               op'[v].at = "insert", op'[v].receipt = r
        PROVE  ReturnedSoFar(r, op[v].product)' + op'[v].quantity <= op'[v].purchased
    <2>1. PICK p \in Products : p = op'[v].product
      BY <1>3, <1>5
    <2>2. ReturnedSoFar(r, op[v].product)' = ReturnedSoFar(r, p)'
      BY <2>1 DEF ReturnedSoFar, Counts
    <2>3. QED
      BY <1>2, <1>5, <2>1, <2>2
  <1>6. QED
    BY <1>1, <1>4, <1>5

\* As long as no request changes, what was returned so far stays.
LEMMA SameRequests ==
  ASSUME UNCHANGED request
  PROVE  SameReturns
  <1>1. \A q, r, p : CountsAlike(q, r, p)
    BY DEF CountsAlike, Asked, Counts
  <1>2. QED
    BY <1>1, SameAsked DEF SameReturns

\* An approval counts for a receipt that was left alone as the request did: it was
\* pending or approved.
LEMMA ApprovedCounts ==
  ASSUME RequestsAgree, NEW q \in Requests, request'[q].status = "approved",
         request'[q].receipt = request[q].receipt,
         request'[q].product = request[q].product,
         request'[q].quantity = request[q].quantity,
         request'[q].purchased = request[q].purchased,
         \A x \in Requests : x # q => request'[x] = request[x],
         bypassed' = bypassed
  PROVE  SameReturns
  <1>1. ASSUME NEW r \in Receipts \ bypassed', NEW p \in Products
        PROVE  Stays(r, p)
    <2>1. RequestOf(q)
      BY DEF RequestsAgree
    <2>2. request[q].receipt = r => request[q].status \in {"pending", "approved"}
      BY <1>1, <2>1 DEF RequestOf
    <2>3. CountsAlike(q, r, p)
      BY <2>2 DEF CountsAlike, Asked, Counts
    <2>4. \A x \in Requests : CountsAlike(x, r, p)
      BY <2>3 DEF CountsAlike, Asked, Counts
    <2>5. QED
      BY <2>4, SameAsked
  <1>2. QED
    BY <1>1 DEF SameReturns

\* An edit concerns a receipt that is not left alone.
LEMMA EditedCounts ==
  ASSUME TypeOK, RequestsAgree, NEW q \in Requests, UpdateReturn(q) \/ DeleteReturn(q)
  PROVE  SameReturns
  <1>1. /\ bypassed' = bypassed \cup {request[q].receipt}
        /\ request'[q].receipt = request[q].receipt
        /\ \A x \in Requests : x # q => request'[x] = request[x]
    BY RequestEdited
  <1>2. ASSUME NEW r \in Receipts \ bypassed', NEW p \in Products
        PROVE  Stays(r, p)
    <2>1. request[q].receipt # r
      BY <1>1, <1>2, ConstantFacts
    <2>2. \A x \in Requests : CountsAlike(x, r, p)
      BY <1>1, <2>1 DEF CountsAlike, Asked, Counts
    <2>3. QED
      BY <2>2, SameAsked
  <1>3. QED
    BY <1>2 DEF SameReturns

\* A request for more than is left is refused.
LEMMA QuietAsks ==
  ASSUME TypeOK, NEW w \in Workers, Quiet(w)
  PROVE  AllAskLeft
  <1>1. OthersStay(w) /\ op' \in [Workers -> Operation]
    BY QuietFacts DEF OnlyMoves
  <1>2. op'[w].at # "insert" \/ AsksLeft(w)
    <2>1. ASSUME NEW q \in Requests, NEW r \in Receipts, NEW p \in Products,
                 NEW c \in Claims[r][p], NEW k \in 1..c, CreateRead(w, q, r, p, c, k)
          PROVE  AsksLeft(w)
      <3>1. /\ op'[w].receipt = r /\ op'[w].product = p /\ op'[w].purchased = c
            /\ op'[w].quantity = k /\ k <= c - ReturnedSoFar(r, p)
        BY <2>1, CreateReadFacts DEF CreateRead
      <3>2. k \in Nat /\ c \in Nat /\ ReturnedSoFar(r, p) \in Nat
        <4>1. c \in Nat
          BY ConstantFacts
        <4>2. ReturnedSoFar(r, p) \in Nat
          BY ReturnedFacts
        <4>3. QED
          BY <4>1, <4>2
      <3>3. ReturnedSoFar(r, p) + k <= c
        BY <3>1, <3>2
      <3>4. QED
        BY <3>1, <3>3 DEF AsksLeft
    <2>2. ASSUME NEW q \in Requests, NEW p \in LooseProducts, CreateWithoutReceipt(w, q, p, 1)
          PROVE  AsksLeft(w)
      <3>1. op'[w].receipt = NoReceipt
        BY <2>2, LooseFacts
      <3>2. QED
        BY <3>1, ConstantFacts DEF AsksLeft
    <2>3. ASSUME NEW r \in Receipts, VoidArrives(w, r)
          PROVE  op'[w].at # "insert"
      BY <2>3, VoidArrivesFacts
    <2>4. ASSUME NEW q \in Requests, NEW x \in NewProducts \cup {NoProduct},
                 RefundRead(w, q, x)
          PROVE  op'[w].at # "insert"
      BY <2>4, RefundReadFacts
    <2>5. CASE VoidLock(w)
      <3>1. "void_items" \in Points
        BY DEF Points, VoidPoints
      <3>2. CASE Ends(w)
        BY <3>2, EndsFacts, IdleFacts
      <3>3. CASE Goto(w, "void_items")
        BY <3>1, <3>3, GotoFacts
      <3>4. QED
        BY <2>5, <3>2, <3>3 DEF VoidLock
    <2>6. CASE RefundLock(w)
      <3>1. "restore" \in Points
        BY DEF Points, RefundPoints
      <3>2. CASE Ends(w)
        BY <3>2, EndsFacts, IdleFacts
      <3>3. CASE Goto(w, "restore")
        BY <3>1, <3>3, GotoFacts
      <3>4. QED
        BY <2>6, <3>2, <3>3 DEF RefundLock
    <2>7. CASE ApproveLost(w)
      BY <2>7, EndsFacts, IdleFacts DEF ApproveLost
    <2>8. CASE Arrives(w)
      BY <2>8, <2>1, <2>2, <2>3, <2>4 DEF Arrives
    <2>9. QED
      BY <2>5, <2>6, <2>7, <2>8 DEF Quiet
  <1>3. QED
    BY <1>1, <1>2 DEF AllAskLeft, OthersStay

\* The insertion: what w was about to request is requested; somebody who is about to
\* request the same counted on the same read.
LEMMA CountsInsert ==
  ASSUME TypeOK, OpsAgree, OpsAgree', RequestsAgree, CountsAgree, NEW w \in Workers,
         CreateInsert(w)
  PROVE  CountsAgree'
  <1>1. /\ op[w].at = "insert" /\ op[w].id \in Requests
        /\ request[op[w].id] = Missing
        /\ request'[op[w].id].status = "pending"
        /\ request'[op[w].id].receipt = op[w].receipt
        /\ request'[op[w].id].product = op[w].product
        /\ request'[op[w].id].quantity = op[w].quantity
        /\ request'[op[w].id].purchased = op[w].purchased
        /\ op[w].purchased \in Nat /\ op[w].quantity \in Nat
        /\ \A x \in Requests : x # op[w].id => request'[x] = request[x]
    BY RequestInserted
  <1> PICK q \in Requests : q = op[w].id
    BY <1>1
  <1>2. op'[w].at = "approve" /\ OthersStay(w)
    BY <1>1, InsertedFacts
  <1>3. bypassed \subseteq bypassed'
    BY DEF CreateInsert
  <1>4. op[w].product \in Products
    BY <1>1, OpFacts DEF OpOf
  <1>5. ASSUME NEW r \in Receipts \ bypassed', NEW p \in Products,
               ~(op[w].receipt = r /\ op[w].product = p)
        PROVE  Stays(r, p)
    <2>1. Asked(q, r, p) = 0
      BY <1>1 DEF Asked, Counts, Missing
    <2>2. Asked(q, r, p)' = 0
      BY <1>1, <1>5 DEF Asked, Counts
    <2>3. \A x \in Requests : CountsAlike(x, r, p)
      <3>1. ~Counts(q, r, p)
        BY <1>1 DEF Counts, Missing
      <3>2. QED
        BY <1>1, <2>1, <2>2, <3>1 DEF CountsAlike, Asked, Counts
    <2>4. QED
      BY <2>3, SameAsked
  <1>6. ASSUME NEW r \in Receipts \ bypassed', NEW p \in Products,
               op[w].receipt = r, op[w].product = p
        PROVE  /\ Covered(r, p)'
               /\ \A v \in Workers : ~(/\ op'[v].at = "insert" /\ op'[v].receipt = r
                                       /\ op'[v].product = p)
    <2> DEFINE f == [x \in Requests |-> Asked(x, r, p)]
               g == [x \in Requests |-> Asked(x, r, p)']
    <2>1. f \in [Requests -> Nat] /\ ReturnedSoFar(r, p) = Sum(f)
      BY ReturnedFacts
    <2>2. Asked(q, r, p) = 0 /\ Asked(q, r, p)' = op[w].quantity
      BY <1>1, <1>6 DEF Asked, Counts, Missing
    <2>3. \A x \in Requests : x # q => Asked(x, r, p)' = Asked(x, r, p)
      BY <1>1 DEF Asked, Counts
    <2>4. \A x \in Requests : Asked(x, r, p) \in Nat
      BY DEF Asked, TypeOK, Request
    <2>5. g \in [Requests -> Nat]
      BY <1>1, <2>2, <2>3, <2>4
    <2>6. ReturnedSoFar(r, p)' = Sum(g)
      BY DEF ReturnedSoFar, Asked, Sum, Units, Counts
    <2>7. f[q] = 0 /\ g[q] = op[w].quantity /\ \A x \in Requests : x # q => g[x] = f[x]
      BY <2>2, <2>3
    <2> HIDE DEF f, g
    <2>8. Sum(g) = Sum(f) - f[q] + g[q] /\ Sum(f) \in Nat
      BY <2>1, <2>5, <2>7, FiniteFacts, SumChanges
    <2>9. ReturnedSoFar(r, p) + op[w].quantity <= op[w].purchased
      BY <1>1, <1>3, <1>6 DEF CountsAgree
    <2>10. Covered(r, p)'
      <3>1. ReturnedSoFar(r, p)' <= op[w].purchased
        BY <1>1, <2>1, <2>6, <2>7, <2>8, <2>9
      <3>2. Counts(q, r, p)' /\ request'[q].purchased = op[w].purchased
        BY <1>1, <1>6 DEF Counts
      <3>3. QED
        BY <3>1, <3>2 DEF Covered
    <2>11. ASSUME NEW v \in Workers, op'[v].at = "insert", op'[v].receipt = r,
                  op'[v].product = p
           PROVE  FALSE
      <3>1. v # w /\ op'[v] = op[v]
        BY <1>2, <2>11 DEF OthersStay
      <3>2. r # NoReceipt
        BY <1>6, ConstantFacts
      <3>3. r \in bypassed'
        BY <1>6, <2>11, <3>1, <3>2 DEF CreateInsert, Others
      <3>4. QED
        BY <1>6, <3>3
    <2>12. QED
      BY <2>10, <2>11
  <1>7. ASSUME NEW r \in Receipts \ bypassed', NEW p \in Products
        PROVE  Covered(r, p)'
    BY <1>3, <1>5, <1>6, <1>7 DEF CountsAgree, Stays
  <1>8. ASSUME NEW r \in Receipts \ bypassed', NEW v \in Workers, NEW p \in Products,
               op'[v].at = "insert", op'[v].receipt = r, op'[v].product = p
        PROVE  ReturnedSoFar(r, p)' + op'[v].quantity <= op'[v].purchased
    <2>1. op'[v] = op[v]
      BY <1>2, <1>8 DEF OthersStay
    <2>2. ReturnedSoFar(r, p)' = ReturnedSoFar(r, p)
      BY <1>5, <1>6, <1>8 DEF Stays
    <2>3. QED
      BY <1>3, <1>8, <2>1, <2>2 DEF CountsAgree
  <1>9. CountsAgree' = (\A r \in Receipts \ bypassed' :
          /\ \A p \in Products : Covered(r, p)'
          /\ \A v \in Workers : op'[v].at = "insert" /\ op'[v].receipt = r =>
               ReturnedSoFar(r, op[v].product)' + op'[v].quantity
                 <= op'[v].purchased)
    BY DEF CountsAgree
  <1>10. ASSUME NEW r \in Receipts \ bypassed', NEW v \in Workers,
                op'[v].at = "insert", op'[v].receipt = r
         PROVE  ReturnedSoFar(r, op[v].product)' + op'[v].quantity <= op'[v].purchased
    <2>1. PICK p \in Products : p = op'[v].product
      <3>1. OpOf(v)'
        BY DEF OpsAgree
      <3>2. QED
        BY <1>10, <3>1 DEF OpOf
    <2>2. ReturnedSoFar(r, op[v].product)' = ReturnedSoFar(r, p)'
      BY <2>1 DEF ReturnedSoFar, Counts
    <2>3. QED
      BY <1>8, <1>10, <2>1, <2>2
  <1>11. QED
    BY <1>7, <1>9, <1>10

\* CountsAgree is preserved.
LEMMA CountsPreserved ==
  ASSUME TypeOK, OpsAgree, OpsAgree', RequestsAgree, CountsAgree, [Next]_vars
  PROVE  CountsAgree'
  <1>1. ASSUME NEW w \in Workers, StepOf(w)
        PROVE  CountsAgree'
    <2>1. ASSUME OthersStay(w), op'[w].at # "insert"
          PROVE  AllAskLeft
      BY <2>1 DEF AllAskLeft, OthersStay
    <2>2. CASE Quiet(w)
      <3>1. bypassed \subseteq bypassed' /\ SameReturns
        BY <2>2, NoBooks, SameRequests
      <3>2. QED
        BY <2>2, <3>1, QuietAsks, CountsMove
    <2>3. CASE VoidItem(w) \/ Restore(w) \/ Deduct(w) \/ VoidWallet(w) \/ RefundWallet(w)
      <3>1. bypassed \subseteq bypassed' /\ SameReturns
        BY <2>3, NoBooks, SameRequests
      <3>2. OthersStay(w)
        BY <2>3, VoidItemFacts, RestoreFacts, DeductFacts, VoidWalletFacts,
           RefundWalletFacts DEF Advances
      <3>3. op'[w].at # "insert"
        <4>1. VoidItem(w) => op'[w].at # "insert"
          BY VoidItemFacts
        <4>2. Restore(w) => op'[w].at # "insert"
          BY RestoreFacts
        <4>3. Deduct(w) => op'[w].at # "insert"
          BY DeductFacts
        <4>4. VoidWallet(w) => op'[w].at # "insert"
          BY VoidWalletFacts
        <4>5. RefundWallet(w) => op'[w].at # "insert"
          BY RefundWalletFacts
        <4>6. QED
          BY <2>3, <4>1, <4>2, <4>3, <4>4, <4>5
      <3>4. QED
        BY <2>1, <3>1, <3>2, <3>3, CountsMove
    <2>4. CASE VoidCommit(w) \/ RefundCommit(w) \/ Approve(w) \/ Rolls(w)
      <3>1. Ends(w) /\ bypassed \subseteq bypassed'
        BY <2>4 DEF VoidCommit, RefundCommit, Approve, Rolls, Rollback, CommitBooks
      <3>2. AllAskLeft
        BY <2>1, <3>1, EndsFacts, IdleFacts
      <3>3. SameReturns
        <4>1. CASE VoidCommit(w)
          BY <4>1, SameRequests DEF VoidCommit
        <4>2. CASE RefundCommit(w)
          <5>1. /\ op[w].id \in Requests
                /\ request'[op[w].id].status = "approved"
                /\ request'[op[w].id].receipt = request[op[w].id].receipt
                /\ request'[op[w].id].product = request[op[w].id].product
                /\ request'[op[w].id].quantity = request[op[w].id].quantity
                /\ request'[op[w].id].purchased = request[op[w].id].purchased
                /\ \A x \in Requests : x # op[w].id => request'[x] = request[x]
                /\ bypassed' = bypassed
            BY <4>2, RequestProcessed
          <5>2. PICK q \in Requests : q = op[w].id
            BY <5>1
          <5>3. QED
            BY <5>1, <5>2, ApprovedCounts
        <4>3. CASE Approve(w)
          <5>1. /\ op[w].id \in Requests
                /\ bypassed' = bypassed
                /\ \/ request' = request
                   \/ /\ request'[op[w].id].status = "approved"
                      /\ request'[op[w].id].receipt = request[op[w].id].receipt
                      /\ request'[op[w].id].product = request[op[w].id].product
                      /\ request'[op[w].id].quantity = request[op[w].id].quantity
                      /\ request'[op[w].id].purchased = request[op[w].id].purchased
                      /\ \A x \in Requests : x # op[w].id => request'[x] = request[x]
            BY <4>3, RequestApproved
          <5>2. PICK q \in Requests : q = op[w].id
            BY <5>1
          <5>3. CASE request' = request
            BY <5>3, SameRequests
          <5>4. CASE request' # request
            BY <5>1, <5>2, <5>4, ApprovedCounts
          <5>5. QED
            BY <5>3, <5>4
        <4>4. CASE Rolls(w)
          BY <4>4, SameRequests DEF Rolls, Rollback
        <4>5. QED
          BY <2>4, <4>1, <4>2, <4>3, <4>4
      <3>4. QED
        BY <3>1, <3>2, <3>3, CountsMove
    <2>5. CASE CreateInsert(w)
      BY <2>5, CountsInsert
    <2>6. QED
      BY <1>1, <2>2, <2>3, <2>4, <2>5 DEF StepOf
  <1>2. ASSUME NEW q \in Requests, UpdateReturn(q) \/ DeleteReturn(q)
        PROVE  CountsAgree'
    <2>1. bypassed \subseteq bypassed' /\ op' = op
      BY <1>2, RequestEdited
    <2>2. AllAskLeft
      BY <2>1 DEF AllAskLeft
    <2>3. QED
      BY <1>2, <2>1, <2>2, EditedCounts, CountsMove
  <1>3. CASE Crash
    <2>1. UNCHANGED request /\ bypassed \subseteq bypassed'
      BY <1>3 DEF Crash
    <2>2. \A w \in Workers : op'[w].at # "insert"
      BY <1>3, IdleFacts DEF Crash
    <2>3. AllAskLeft
      BY <2>2 DEF AllAskLeft
    <2>4. QED
      BY <2>1, <2>3, SameRequests, CountsMove
  <1>4. CASE UNCHANGED vars
    <2>1. UNCHANGED request /\ bypassed \subseteq bypassed' /\ op' = op
      BY <1>4 DEF vars
    <2>2. AllAskLeft
      BY <2>1 DEF AllAskLeft
    <2>3. QED
      BY <2>1, <2>2, SameRequests, CountsMove
  <1>5. QED
    BY <1>1, <1>2, <1>3, <1>4, NextCases

-----------------------------------------------------------------------------
(* The stock: StockBalances *)

\* A product of naturals is a natural.
LEMMA TimesType ==
  ASSUME NEW m \in Nat, NEW n \in Nat
  PROVE  m * n \in Nat /\ 0 * n = 0 /\ 1 * n = n
  OBVIOUS

\* What a receipt and a request put back of a product.
VoidedOf(r, p) == voided[r] * Bought[r][p]
GivenBy(q, p) == IF request[q].product = p THEN given[q] ELSE 0

\* What was put back is the sum of what each receipt and each request put back.
LEMMA PiecesFacts ==
  ASSUME TypeOK, NEW p \in Products
  PROVE  /\ [r \in Receipts |-> VoidedOf(r, p)] \in [Receipts -> Nat]
         /\ VoidedPieces(p) = Sum([r \in Receipts |-> VoidedOf(r, p)])
         /\ [q \in Requests |-> GivenBy(q, p)] \in [Requests -> Nat]
         /\ GivenPieces(p) = Sum([q \in Requests |-> GivenBy(q, p)])
         /\ VoidedPieces(p) \in Nat /\ GivenPieces(p) \in Nat
  <1>1. \A r \in Receipts : VoidedOf(r, p) \in Nat
    <2>1. \A r \in Receipts : voided[r] \in Nat /\ Bought[r][p] \in Nat
      BY ConstantFacts DEF TypeOK
    <2>2. QED
      BY <2>1, TimesType DEF VoidedOf
  <1>2. \A q \in Requests : GivenBy(q, p) \in Nat
    BY DEF GivenBy, TypeOK
  <1>3. VoidedPieces(p) = Sum([r \in Receipts |-> VoidedOf(r, p)])
    BY DEF VoidedPieces, VoidedOf
  <1>4. GivenPieces(p) = Sum([q \in Requests |-> GivenBy(q, p)])
    BY DEF GivenPieces, GivenBy
  <1>5. [r \in Receipts |-> VoidedOf(r, p)] \in [Receipts -> Nat]
    BY <1>1
  <1>6. [q \in Requests |-> GivenBy(q, p)] \in [Requests -> Nat]
    BY <1>2
  <1>7. QED
    BY <1>3, <1>4, <1>5, <1>6, FiniteFacts, SumType

\* As long as no void commits, voids put back what they did.
LEMMA SameVoided ==
  ASSUME NEW p, voided' = voided
  PROVE  VoidedPieces(p)' = VoidedPieces(p)
  BY DEF VoidedPieces, Sum, Units

\* As long as each request put back what it did, so did all.
LEMMA SameGiven ==
  ASSUME NEW p, \A q \in Requests : GivenBy(q, p)' = GivenBy(q, p)
  PROVE  GivenPieces(p)' = GivenPieces(p)
  <1>1. [q \in Requests |-> GivenBy(q, p)'] = [q \in Requests |-> GivenBy(q, p)]
    OBVIOUS
  <1>2. GivenPieces(p)' = Sum([q \in Requests |-> GivenBy(q, p)'])
    BY DEF GivenPieces, GivenBy, Sum, Units
  <1>3. GivenPieces(p) = Sum([q \in Requests |-> GivenBy(q, p)])
    BY DEF GivenPieces, GivenBy
  <1>4. QED
    BY <1>1, <1>2, <1>3

\* A committed void adds the items of its receipt.
LEMMA VoidAddsPieces ==
  ASSUME TypeOK, OpsAgree, NEW w \in Workers, VoidCommit(w), NEW p \in Products
  PROVE  /\ VoidedPieces(p)' = VoidedPieces(p) + Bought[op[w].receipt][p]
         /\ VoidedPieces(p) \in Nat
         /\ op[w].receipt \in Receipts
  <1>1. op[w].at = "void_commit" /\ voided' = [voided EXCEPT ![op[w].receipt] = @ + 1]
    BY DEF VoidCommit
  <1>2. op[w].receipt \in Receipts /\ voided[op[w].receipt] = 0
    BY <1>1, OpFacts DEF OpOf, InVoid, VoidPoints
  <1> PICK z \in Receipts : z = op[w].receipt
    BY <1>2
  <1>3. voided'[z] = 1 /\ \A r \in Receipts : r # z => voided'[r] = voided[r]
    BY <1>1, <1>2 DEF TypeOK
  <1> DEFINE f == [r \in Receipts |-> VoidedOf(r, p)]
             g == [r \in Receipts |-> VoidedOf(r, p)']
  <1>4. f \in [Receipts -> Nat] /\ VoidedPieces(p) = Sum(f)
    BY PiecesFacts
  <1>5. Bought[z][p] \in Nat
    BY ConstantFacts
  <1>6. VoidedOf(z, p) = 0 /\ VoidedOf(z, p)' = Bought[z][p]
    BY <1>2, <1>3, <1>5, TimesType DEF VoidedOf
  <1>7. \A r \in Receipts : r # z => VoidedOf(r, p)' = VoidedOf(r, p)
    BY <1>3 DEF VoidedOf
  <1>8. \A r \in Receipts : VoidedOf(r, p)' \in Nat
    BY <1>4, <1>5, <1>6, <1>7
  <1>9. g \in [Receipts -> Nat]
    BY <1>8
  <1>10. VoidedPieces(p)' = Sum(g)
    BY DEF VoidedPieces, VoidedOf, Sum, Units
  <1>11. f[z] = 0 /\ g[z] = Bought[z][p] /\ \A r \in Receipts : r # z => g[r] = f[r]
    BY <1>6, <1>7
  <1> HIDE DEF f, g
  <1>12. Sum(g) = Sum(f) - f[z] + g[z] /\ Sum(f) \in Nat
    BY <1>4, <1>9, <1>11, FiniteFacts, SumChanges
  <1>13. QED
    BY <1>2, <1>4, <1>5, <1>10, <1>11, <1>12

\* A committed refund or exchange adds what its request returned.
LEMMA RefundAddsPieces ==
  ASSUME TypeOK, OpsAgree, RequestsAgree, NEW w \in Workers, RefundCommit(w),
         NEW p \in Products
  PROVE  /\ GivenPieces(p)' = GivenPieces(p)
                                + (IF p = op[w].product THEN op[w].quantity ELSE 0)
         /\ GivenPieces(p) \in Nat /\ op[w].quantity \in Nat
  <1>1. /\ op[w].at = "refund_commit" /\ op[w].id \in Requests
        /\ request'[op[w].id].product = request[op[w].id].product
        /\ \A x \in Requests : x # op[w].id => request'[x] = request[x]
        /\ given'[op[w].id] = given[op[w].id] + op[w].quantity
        /\ \A x \in Requests : x # op[w].id => given'[x] = given[x]
        /\ op[w].quantity \in Nat
    BY RequestProcessed
  <1>2. op[w].product = request[op[w].id].product
    BY <1>1, RefundFacts DEF InRefund
  <1> PICK q \in Requests : q = op[w].id
    BY <1>1
  <1> DEFINE f == [x \in Requests |-> GivenBy(x, p)]
             g == [x \in Requests |-> GivenBy(x, p)']
             k == IF p = op[w].product THEN op[w].quantity ELSE 0
  <1>3. f \in [Requests -> Nat] /\ GivenPieces(p) = Sum(f)
    BY PiecesFacts
  <1>4. GivenBy(q, p)' = GivenBy(q, p) + k /\ GivenBy(q, p) \in Nat /\ k \in Nat
    <2>1. given[q] \in Nat
      BY DEF TypeOK
    <2>2. QED
      BY <1>1, <1>2, <2>1 DEF GivenBy
  <1>5. \A x \in Requests : x # q => GivenBy(x, p)' = GivenBy(x, p)
    BY <1>1 DEF GivenBy
  <1>6. \A x \in Requests : GivenBy(x, p)' \in Nat
    BY <1>3, <1>4, <1>5
  <1>7. g \in [Requests -> Nat]
    BY <1>6
  <1>8. GivenPieces(p)' = Sum(g)
    BY DEF GivenPieces, GivenBy, Sum, Units
  <1>9. /\ f[q] = GivenBy(q, p) /\ g[q] = GivenBy(q, p) + k
        /\ \A x \in Requests : x # q => g[x] = f[x]
    BY <1>4, <1>5
  <1> HIDE DEF f, g, k
  <1>10. Sum(g) = Sum(f) - f[q] + g[q] /\ Sum(f) \in Nat
    BY <1>3, <1>7, <1>9, FiniteFacts, SumChanges
  <1>11. GivenPieces(p)' = GivenPieces(p) + k
    BY <1>3, <1>4, <1>8, <1>9, <1>10
  <1>12. QED
    BY <1>1, <1>3, <1>10, <1>11 DEF k

\* What a void commits of a product.
LEMMA VoidStock ==
  ASSUME TypeOK, OpsAgree, RowsAgree, NEW w \in Workers, VoidCommit(w), NEW p \in Products
  PROVE  stock'[p] = stock[p] + Bought[op[w].receipt][p]
  <1>1. op[w].at = "void_commit" /\ CommitBooks(w)
    BY DEF VoidCommit
  <1>2. op[w].receipt \in Receipts /\ op[w].quantity \in Nat
    BY <1>1, OpFacts, OperationFields DEF OpOf, VoidPoints
  <1>3. stock'[p] = View(w, p)
    BY <1>1, CommitFacts
  <1>4. RowsOf(w) /\ Held(op[w]) = Items(op[w].receipt)
    BY <1>1, HeldFacts DEF RowsAgree
  <1>5. CASE p \in Items(op[w].receipt)
    <2>1. rows[w][p] = stock[p] + Change(op[w], p) /\ p \in DOMAIN rows[w]
      BY <1>4, <1>5 DEF RowsOf
    <2>2. op[w].at \in VoidPoints
      BY <1>1 DEF VoidPoints
    <2>3. Change(op[w], p) = Bought[op[w].receipt][p]
      BY <1>2, <2>2, ChangeFacts
    <2>4. QED
      BY <1>3, <2>1, <2>3 DEF View
  <1>6. CASE p \notin Items(op[w].receipt)
    <2>1. View(w, p) = stock[p]
      BY <1>4, <1>6 DEF RowsOf, View
    <2>2. Bought[op[w].receipt][p] = 0
      BY <1>2, <1>6, ItemsFacts
    <2>3. stock[p] \in Int
      BY DEF TypeOK
    <2>4. QED
      BY <1>3, <2>1, <2>2, <2>3
  <1>7. QED
    BY <1>5, <1>6

\* What a refund or exchange commits of a product.
LEMMA RefundStock ==
  ASSUME TypeOK, OpsAgree, RequestsAgree, RowsAgree, NEW w \in Workers, RefundCommit(w),
         NEW p \in Products
  PROVE  stock'[p] = stock[p] + ((IF p = op[w].product THEN op[w].quantity ELSE 0)
                                   - (IF p = op[w].exchange THEN 1 ELSE 0))
  <1>1. op[w].at = "refund_commit" /\ CommitBooks(w)
    BY DEF RefundCommit
  <1>2. op[w].quantity \in Nat
    BY <1>1, RefundFacts DEF InRefund
  <1>3. stock'[p] = View(w, p)
    BY <1>1, CommitFacts
  <1>4. RowsOf(w) /\ Held(op[w]) = {op[w].product} \cup ({op[w].exchange} \ {NoProduct})
    BY <1>1, HeldFacts DEF RowsAgree
  <1>5. p # NoProduct /\ stock[p] \in Int
    BY ConstantFacts DEF TypeOK
  <1>6. CASE p \in DOMAIN rows[w]
    <2>1. rows[w][p] = stock[p] + Change(op[w], p)
      BY <1>4, <1>6 DEF RowsOf
    <2>2. Change(op[w], p) = (IF p = op[w].product THEN op[w].quantity ELSE 0)
                               - (IF p = op[w].exchange THEN 1 ELSE 0)
      BY <1>1, <1>2, ChangeFacts
    <2>3. QED
      BY <1>3, <1>6, <2>1, <2>2 DEF View
  <1>7. CASE p \notin DOMAIN rows[w]
    <2>1. p # op[w].product /\ p # op[w].exchange
      BY <1>4, <1>5, <1>7 DEF RowsOf
    <2>2. stock'[p] = stock[p]
      BY <1>3, <1>7 DEF View
    <2>3. QED
      BY <1>5, <2>1, <2>2
  <1>8. QED
    BY <1>6, <1>7

\* The stock of one product after a step.
Balances(p) ==
  stock'[p] = OpeningStock[p] + VoidedPieces(p)' + GivenPieces(p)' - exchanged'[p]

\* StockBalances is preserved.
LEMMA StockPreserved ==
  ASSUME TypeOK, OpsAgree, RequestsAgree, RowsAgree, StockBalances, [Next]_vars
  PROVE  StockBalances'
  <1>1. ASSUME NEW p \in Products
        PROVE  Balances(p)
    <2>1. /\ stock[p] = OpeningStock[p] + VoidedPieces(p) + GivenPieces(p) - exchanged[p]
          /\ stock[p] \in Int /\ exchanged[p] \in Nat
          /\ OpeningStock[p] \in Int
      BY ConstantsAssumption DEF StockBalances, TypeOK
    <2>2. ASSUME UNCHANGED committed, \A q \in Requests : GivenBy(q, p)' = GivenBy(q, p)
          PROVE  Balances(p)
      BY <2>1, <2>2, SameVoided, SameGiven DEF committed, Balances
    <2>3. CASE UNCHANGED <<committed, request, bypassed>>
      BY <2>2, <2>3 DEF GivenBy, committed
    <2>4. ASSUME NEW w \in Workers, VoidCommit(w)
          PROVE  Balances(p)
      <3>1. UNCHANGED <<request, given, exchanged>>
        BY <2>4 DEF VoidCommit
      <3>2. GivenPieces(p)' = GivenPieces(p)
        BY <3>1, SameGiven DEF GivenBy
      <3>3. /\ VoidedPieces(p)' = VoidedPieces(p) + Bought[op[w].receipt][p]
            /\ stock'[p] = stock[p] + Bought[op[w].receipt][p]
            /\ op[w].receipt \in Receipts
        BY <2>4, VoidAddsPieces, VoidStock
      <3>4. Bought[op[w].receipt][p] \in Nat
        BY <3>3, ConstantFacts
      <3>5. VoidedPieces(p) \in Nat /\ GivenPieces(p) \in Nat
        BY PiecesFacts
      <3>6. QED
        BY <2>1, <3>1, <3>2, <3>3, <3>4, <3>5 DEF Balances
    <2>5. ASSUME NEW w \in Workers, RefundCommit(w)
          PROVE  Balances(p)
      <3> DEFINE k == IF p = op[w].product THEN op[w].quantity ELSE 0
                 n == IF p = op[w].exchange THEN 1 ELSE 0
      <3>1. voided' = voided
        BY <2>5 DEF RefundCommit
      <3>2. VoidedPieces(p)' = VoidedPieces(p)
        BY <3>1, SameVoided
      <3>3. GivenPieces(p)' = GivenPieces(p) + k /\ op[w].quantity \in Nat
        BY <2>5, RefundAddsPieces
      <3>4. stock'[p] = stock[p] + (k - n)
        BY <2>5, RefundStock
      <3>5. exchanged'[p] = exchanged[p] + n
        <4>1. p # NoProduct /\ exchanged \in [Products -> Nat]
          BY ConstantFacts DEF TypeOK
        <4>2. exchanged' = IF op[w].exchange = NoProduct THEN exchanged
                           ELSE [exchanged EXCEPT ![op[w].exchange] = @ + 1]
          BY <2>5 DEF RefundCommit
        <4>3. QED
          BY <4>1, <4>2
      <3>6. VoidedPieces(p) \in Nat /\ GivenPieces(p) \in Nat
        BY PiecesFacts
      <3>7. k \in Nat /\ n \in Nat
        BY <3>3
      <3> HIDE DEF k, n
      <3>8. QED
        BY <2>1, <3>2, <3>3, <3>4, <3>5, <3>6, <3>7 DEF Balances
    <2>6. ASSUME NEW w \in Workers, CreateInsert(w)
          PROVE  Balances(p)
      <3>1. /\ UNCHANGED committed
            /\ given[op[w].id] = 0
            /\ \A x \in Requests : x # op[w].id => request'[x] = request[x]
        BY <2>6, RequestInserted
      <3>2. \A q \in Requests : GivenBy(q, p)' = GivenBy(q, p)
        BY <3>1 DEF GivenBy, committed
      <3>3. QED
        BY <2>2, <3>1, <3>2
    <2>7. ASSUME NEW w \in Workers, Approve(w)
          PROVE  Balances(p)
      <3>1. UNCHANGED committed /\ \A q \in Requests : request'[q].product = request[q].product
        BY <2>7, RequestApproved
      <3>2. \A q \in Requests : GivenBy(q, p)' = GivenBy(q, p)
        BY <3>1 DEF GivenBy, committed
      <3>3. QED
        BY <2>2, <3>1, <3>2
    <2>8. ASSUME NEW q \in Requests, UpdateReturn(q) \/ DeleteReturn(q)
          PROVE  Balances(p)
      <3>1. UNCHANGED committed /\ \A x \in Requests : request'[x].product = request[x].product
        BY <2>8, RequestEdited
      <3>2. \A x \in Requests : GivenBy(x, p)' = GivenBy(x, p)
        BY <3>1 DEF GivenBy, committed
      <3>3. QED
        BY <2>2, <3>1, <3>2
    <2>9. QED
      BY <2>3, <2>4, <2>5, <2>6, <2>7, <2>8, BookCases
  <1>2. QED
    BY <1>1 DEF StockBalances, Balances

-----------------------------------------------------------------------------
(* The wallets: MoneyBalances *)

\* What a receipt and a request paid back to a wallet.
VoidPaid(r, x) == IF WalletOf[r] = x /\ Method[r] = "WALLET" THEN voided[r] * Total(r) ELSE 0
RefundPaid(q, x) == IF PaidTo(q, x) THEN refunded[q] ELSE 0

\* What was paid back is the sum of what each receipt and each request paid back.
LEMMA MoneyFacts ==
  ASSUME TypeOK, NEW x
  PROVE  /\ [r \in Receipts |-> VoidPaid(r, x)] \in [Receipts -> Nat]
         /\ VoidedMoney(x) = Sum([r \in Receipts |-> VoidPaid(r, x)])
         /\ [q \in Requests |-> RefundPaid(q, x)] \in [Requests -> Nat]
         /\ RefundedMoney(x) = Sum([q \in Requests |-> RefundPaid(q, x)])
         /\ VoidedMoney(x) \in Nat /\ RefundedMoney(x) \in Nat
  <1>1. ASSUME NEW r \in Receipts
        PROVE  VoidPaid(r, x) \in Nat
    <2>1. voided[r] \in Nat /\ Total(r) \in Nat
      BY TotalType DEF TypeOK
    <2>2. voided[r] * Total(r) \in Nat
      BY <2>1, TimesType
    <2>3. QED
      BY <2>2 DEF VoidPaid
  <1>2. \A q \in Requests : RefundPaid(q, x) \in Nat
    BY DEF RefundPaid, TypeOK
  <1>3. VoidedMoney(x) = Sum([r \in Receipts |-> VoidPaid(r, x)])
    BY DEF VoidedMoney, VoidPaid
  <1>4. RefundedMoney(x) = Sum([q \in Requests |-> RefundPaid(q, x)])
    BY DEF RefundedMoney, RefundPaid
  <1>5. [r \in Receipts |-> VoidPaid(r, x)] \in [Receipts -> Nat]
    BY <1>1
  <1>6. [q \in Requests |-> RefundPaid(q, x)] \in [Requests -> Nat]
    BY <1>2
  <1>7. QED
    BY <1>3, <1>4, <1>5, <1>6, FiniteFacts, SumType

\* As long as no void commits, voids paid back what they did.
LEMMA SameVoidMoney ==
  ASSUME NEW x, voided' = voided
  PROVE  VoidedMoney(x)' = VoidedMoney(x)
  BY DEF VoidedMoney, Sum, Units

\* As long as each request paid back what it did, so did all.
LEMMA SameRefundMoney ==
  ASSUME NEW x, \A q \in Requests : RefundPaid(q, x)' = RefundPaid(q, x)
  PROVE  RefundedMoney(x)' = RefundedMoney(x)
  <1>1. [q \in Requests |-> RefundPaid(q, x)'] = [q \in Requests |-> RefundPaid(q, x)]
    OBVIOUS
  <1>2. RefundedMoney(x)' = Sum([q \in Requests |-> RefundPaid(q, x)'])
    BY DEF RefundedMoney, RefundPaid, PaidTo, Sum, Units
  <1>3. RefundedMoney(x) = Sum([q \in Requests |-> RefundPaid(q, x)])
    BY DEF RefundedMoney, RefundPaid
  <1>4. QED
    BY <1>1, <1>2, <1>3

\* A committed void pays its total to the wallet it holds, and nothing elsewhere.
LEMMA VoidAddsMoney ==
  ASSUME TypeOK, OpsAgree, NEW w \in Workers, VoidCommit(w), NEW x \in Wallets
  PROVE  VoidedMoney(x)' = VoidedMoney(x)
                             + (IF HoldsWallet(w, x) THEN Amount(op[w]) ELSE 0)
  <1>1. op[w].at = "void_commit" /\ voided' = [voided EXCEPT ![op[w].receipt] = @ + 1]
    BY DEF VoidCommit
  <1>2. op[w].receipt \in Receipts /\ voided[op[w].receipt] = 0
    BY <1>1, OpFacts DEF OpOf, InVoid, VoidPoints
  <1> PICK z \in Receipts : z = op[w].receipt
    BY <1>2
  <1>3. voided'[z] = 1 /\ \A r \in Receipts : r # z => voided'[r] = voided[r]
    BY <1>1, <1>2 DEF TypeOK
  <1> DEFINE f == [r \in Receipts |-> VoidPaid(r, x)]
             g == [r \in Receipts |-> VoidPaid(r, x)']
             k == IF HoldsWallet(w, x) THEN Amount(op[w]) ELSE 0
  <1>4. f \in [Receipts -> Nat] /\ VoidedMoney(x) = Sum(f)
    BY MoneyFacts
  <1>5. Total(z) \in Nat
    BY TotalType
  <1>6. HoldsWallet(w, x) <=> WalletOf[z] = x /\ Method[z] = "WALLET"
    BY <1>1, ConstantFacts DEF HoldsWallet, PaysBack
  <1>7. Amount(op[w]) = Total(z)
    BY <1>1 DEF Amount
  <1>8. VoidPaid(z, x) = 0 /\ VoidPaid(z, x)' = k /\ k \in Nat
    <2>1. voided[z] * Total(z) = 0 /\ voided'[z] * Total(z) = Total(z)
      BY <1>2, <1>3, <1>5, TimesType
    <2>2. QED
      BY <1>5, <1>6, <1>7, <2>1 DEF VoidPaid
  <1>9. \A r \in Receipts : r # z => VoidPaid(r, x)' = VoidPaid(r, x)
    BY <1>3 DEF VoidPaid
  <1>10. \A r \in Receipts : VoidPaid(r, x)' \in Nat
    BY <1>4, <1>8, <1>9
  <1>11. g \in [Receipts -> Nat]
    BY <1>10
  <1>12. VoidedMoney(x)' = Sum(g)
    BY DEF VoidedMoney, VoidPaid, Sum, Units
  <1>13. f[z] = 0 /\ g[z] = k /\ \A r \in Receipts : r # z => g[r] = f[r]
    BY <1>8, <1>9
  <1> HIDE DEF f, g, k
  <1>14. Sum(g) = Sum(f) - f[z] + g[z] /\ Sum(f) \in Nat
    BY <1>4, <1>11, <1>13, FiniteFacts, SumChanges
  <1>15. VoidedMoney(x)' = VoidedMoney(x) + k
    BY <1>4, <1>8, <1>12, <1>13, <1>14
  <1>16. QED
    BY <1>15 DEF k

\* A committed refund pays its quantity to the wallet it holds, and nothing elsewhere.
LEMMA RefundAddsMoney ==
  ASSUME TypeOK, OpsAgree, RequestsAgree, NEW w \in Workers, RefundCommit(w),
         NEW x \in Wallets
  PROVE  RefundedMoney(x)' = RefundedMoney(x)
                               + (IF HoldsWallet(w, x) THEN Amount(op[w]) ELSE 0)
  <1>1. /\ op[w].at = "refund_commit" /\ op[w].id \in Requests
        /\ request'[op[w].id].receipt = request[op[w].id].receipt
        /\ \A y \in Requests : y # op[w].id => request'[y] = request[y]
        /\ op[w].quantity \in Nat
    BY RequestProcessed
  <1>2. op[w].receipt = request[op[w].id].receipt
    BY <1>1, RefundFacts DEF InRefund
  <1> PICK q \in Requests : q = op[w].id
    BY <1>1
  <1> DEFINE f == [y \in Requests |-> RefundPaid(y, x)]
             g == [y \in Requests |-> RefundPaid(y, x)']
             k == IF HoldsWallet(w, x) THEN Amount(op[w]) ELSE 0
  <1>3. f \in [Requests -> Nat] /\ RefundedMoney(x) = Sum(f)
    BY MoneyFacts
  <1>4. Amount(op[w]) = op[w].quantity
    BY <1>1 DEF Amount
  <1>5. refunded' = IF PaysBack(w) THEN [refunded EXCEPT ![q] = @ + op[w].quantity]
                    ELSE refunded
    BY DEF RefundCommit
  <1>6. /\ refunded'[q] = refunded[q] + (IF PaysBack(w) THEN op[w].quantity ELSE 0)
        /\ \A y \in Requests : y # q => refunded'[y] = refunded[y]
        /\ refunded[q] \in Nat
    <2>1. refunded \in [Requests -> Nat]
      BY DEF TypeOK
    <2>2. CASE PaysBack(w)
      BY <1>1, <1>5, <2>1, <2>2
    <2>3. CASE ~PaysBack(w)
      BY <1>1, <1>5, <2>1, <2>3
    <2>4. QED
      BY <2>2, <2>3
  <1>7. PaidTo(q, x)' <=> PaidTo(q, x)
    BY <1>1 DEF PaidTo
  <1>8. HoldsWallet(w, x) <=> PaysBack(w) /\ PaidTo(q, x)
    BY <1>2 DEF HoldsWallet, PaysBack, PaidTo
  <1>9. RefundPaid(q, x)' = RefundPaid(q, x) + k /\ k \in Nat /\ RefundPaid(q, x) \in Nat
    <2>1. CASE PaidTo(q, x)
      BY <1>1, <1>4, <1>6, <1>7, <1>8, <2>1 DEF RefundPaid
    <2>2. CASE ~PaidTo(q, x)
      BY <1>7, <1>8, <2>2 DEF RefundPaid
    <2>3. QED
      BY <2>1, <2>2
  <1>10. \A y \in Requests : y # q => RefundPaid(y, x)' = RefundPaid(y, x)
    BY <1>1, <1>6 DEF RefundPaid, PaidTo
  <1>11. \A y \in Requests : RefundPaid(y, x)' \in Nat
    BY <1>3, <1>9, <1>10
  <1>12. g \in [Requests -> Nat]
    BY <1>11
  <1>13. RefundedMoney(x)' = Sum(g)
    BY DEF RefundedMoney, RefundPaid, PaidTo, Sum, Units
  <1>14. /\ f[q] = RefundPaid(q, x) /\ g[q] = RefundPaid(q, x) + k
         /\ \A y \in Requests : y # q => g[y] = f[y]
    BY <1>9, <1>10
  <1> HIDE DEF f, g, k
  <1>15. Sum(g) = Sum(f) - f[q] + g[q] /\ Sum(f) \in Nat
    BY <1>3, <1>12, <1>14, FiniteFacts, SumChanges
  <1>16. RefundedMoney(x)' = RefundedMoney(x) + k
    BY <1>3, <1>9, <1>13, <1>14, <1>15
  <1>17. QED
    BY <1>16 DEF k

\* What a commit leaves in a wallet: what it read under the lock, and its amount.
LEMMA CommitMoney ==
  ASSUME TypeOK, PursesAgree, NEW w \in Workers, CommitBooks(w), NEW x \in Wallets
  PROVE  balance'[x] = balance[x] + (IF HoldsWallet(w, x) THEN Amount(op[w]) ELSE 0)
  <1>1. balance'[x] = IF HoldsWallet(w, x) THEN purse[w] ELSE balance[x]
    BY CommitFacts
  <1>2. HoldsWallet(w, x) => purse[w] = balance[x] + Amount(op[w])
    BY DEF PursesAgree, HoldsWallet
  <1>3. balance[x] \in Int
    BY DEF TypeOK
  <1>4. QED
    BY <1>1, <1>2, <1>3

\* The wallet x after a step.
Pays(x) == balance'[x] = OpeningBalance[x] + VoidedMoney(x)' + RefundedMoney(x)'

\* MoneyBalances is preserved.
LEMMA MoneyPreserved ==
  ASSUME TypeOK, OpsAgree, RequestsAgree, PursesAgree, MoneyBalances, [Next]_vars
  PROVE  MoneyBalances'
  <1>1. ASSUME NEW x \in Wallets
        PROVE  Pays(x)
    <2>1. /\ balance[x] = OpeningBalance[x] + VoidedMoney(x) + RefundedMoney(x)
          /\ balance[x] \in Int /\ OpeningBalance[x] \in Int
          /\ VoidedMoney(x) \in Nat /\ RefundedMoney(x) \in Nat
      BY ConstantsAssumption, MoneyFacts DEF MoneyBalances, TypeOK
    <2>2. ASSUME UNCHANGED committed, \A q \in Requests : RefundPaid(q, x)' = RefundPaid(q, x)
          PROVE  Pays(x)
      BY <2>1, <2>2, SameVoidMoney, SameRefundMoney DEF committed, Pays
    <2>3. CASE UNCHANGED <<committed, request, bypassed>>
      BY <2>2, <2>3 DEF RefundPaid, PaidTo, committed
    <2>4. ASSUME NEW w \in Workers, op[w].at \in {"void_commit", "refund_commit"}
          PROVE  (IF HoldsWallet(w, x) THEN Amount(op[w]) ELSE 0) \in Nat
      <3>1. op[w].quantity \in Nat
        BY OperationFields DEF TypeOK
      <3>2. op[w].at = "void_commit" => Total(op[w].receipt) \in Nat
        <4>1. op[w].at = "void_commit" => op[w].receipt \in Receipts
          BY OpFacts DEF OpOf, VoidPoints
        <4>2. QED
          BY <4>1, TotalType
      <3>3. QED
        BY <3>1, <3>2 DEF Amount
    <2>5. ASSUME NEW w \in Workers, VoidCommit(w)
          PROVE  Pays(x)
      <3> DEFINE k == IF HoldsWallet(w, x) THEN Amount(op[w]) ELSE 0
      <3>1. UNCHANGED <<request, refunded>> /\ CommitBooks(w) /\ op[w].at = "void_commit"
        BY <2>5 DEF VoidCommit
      <3>2. RefundedMoney(x)' = RefundedMoney(x)
        BY <3>1, SameRefundMoney DEF RefundPaid, PaidTo
      <3>3. VoidedMoney(x)' = VoidedMoney(x) + k /\ balance'[x] = balance[x] + k
        BY <2>5, <3>1, VoidAddsMoney, CommitMoney
      <3>4. k \in Nat
        BY <2>4, <3>1
      <3> HIDE DEF k
      <3>5. QED
        BY <2>1, <3>2, <3>3, <3>4 DEF Pays
    <2>6. ASSUME NEW w \in Workers, RefundCommit(w)
          PROVE  Pays(x)
      <3> DEFINE k == IF HoldsWallet(w, x) THEN Amount(op[w]) ELSE 0
      <3>1. voided' = voided /\ CommitBooks(w) /\ op[w].at = "refund_commit"
        BY <2>6 DEF RefundCommit
      <3>2. VoidedMoney(x)' = VoidedMoney(x)
        BY <3>1, SameVoidMoney
      <3>3. RefundedMoney(x)' = RefundedMoney(x) + k /\ balance'[x] = balance[x] + k
        BY <2>6, <3>1, RefundAddsMoney, CommitMoney
      <3>4. k \in Nat
        BY <2>4, <3>1
      <3> HIDE DEF k
      <3>5. QED
        BY <2>1, <3>2, <3>3, <3>4 DEF Pays
    <2>7. ASSUME NEW w \in Workers, CreateInsert(w)
          PROVE  Pays(x)
      <3>1. /\ UNCHANGED committed
            /\ refunded[op[w].id] = 0
            /\ \A y \in Requests : y # op[w].id => request'[y] = request[y]
        BY <2>7, RequestInserted
      <3>2. \A q \in Requests : RefundPaid(q, x)' = RefundPaid(q, x)
        BY <3>1 DEF RefundPaid, PaidTo, committed
      <3>3. QED
        BY <2>2, <3>1, <3>2
    <2>8. ASSUME NEW w \in Workers, Approve(w)
          PROVE  Pays(x)
      <3>1. UNCHANGED committed /\ \A q \in Requests : request'[q].receipt = request[q].receipt
        BY <2>8, RequestApproved
      <3>2. \A q \in Requests : RefundPaid(q, x)' = RefundPaid(q, x)
        BY <3>1 DEF RefundPaid, PaidTo, committed
      <3>3. QED
        BY <2>2, <3>1, <3>2
    <2>9. ASSUME NEW q \in Requests, UpdateReturn(q) \/ DeleteReturn(q)
          PROVE  Pays(x)
      <3>1. UNCHANGED committed /\ \A y \in Requests : request'[y].receipt = request[y].receipt
        BY <2>9, RequestEdited
      <3>2. \A y \in Requests : RefundPaid(y, x)' = RefundPaid(y, x)
        BY <3>1 DEF RefundPaid, PaidTo, committed
      <3>3. QED
        BY <2>2, <3>1, <3>2
    <2>10. QED
      BY <2>3, <2>5, <2>6, <2>7, <2>8, <2>9, BookCases
  <1>2. QED
    BY <1>1 DEF MoneyBalances, Pays

-----------------------------------------------------------------------------
(* The theorems *)

\* IInv holds when nothing has been taken back yet.
LEMMA InitHolds ==
  ASSUME Init
  PROVE  IInv
  <1>1. TypeOK
    <2>1. Missing \in Request
      BY DEF Missing, Request
    <2>2. <<>> \in [{} -> Int]
      OBVIOUS
    <2>3. /\ stock \in [Products -> Int] /\ balance \in [Wallets -> Int]
          /\ 0 \in 0..MaxEvents
      BY ConstantsAssumption DEF Init
    <2>4. \A w \in Workers : \E S \in SUBSET Products : rows[w] \in [S -> Int]
      BY <2>2 DEF Init
    <2>5. op \in [Workers -> Operation] /\ rows = [w \in Workers |-> rows[w]]
          /\ purse \in [Workers -> Int]
      BY IdleFacts DEF Init
    <2>6. request \in [Requests -> Request] /\ voided \in [Receipts -> Nat]
      BY <2>1 DEF Init
    <2>7. QED
      BY <2>3, <2>4, <2>5, <2>6 DEF Init, TypeOK
  <1>2. \A w \in Workers : op[w] = Idle /\ op[w].at = "idle" /\ rows[w] = <<>>
    BY IdleFacts DEF Init
  <1>3. OpsAgree
    BY <1>2 DEF OpsAgree, OpOf, VoidPoints, RefundPoints, InVoid, InRefund
  <1>4. RowsAgree
    <2>1. \A w \in Workers : DOMAIN rows[w] = {} /\ Held(op[w]) = {}
      BY <1>2, HeldFacts
    <2>2. QED
      BY <2>1 DEF RowsAgree, RowsOf
  <1>5. PursesAgree
    BY <1>2 DEF PursesAgree, PaysBack
  <1>6. RequestsAgree
    BY ConstantFacts DEF Init, RequestsAgree, RequestOf, Missing
  <1>7. CountsAgree
    <2>1. ASSUME NEW r \in Receipts, NEW p \in Products
          PROVE  Covered(r, p)
      <3>1. \A q \in Requests : Asked(q, r, p) = 0
        BY DEF Init, Asked, Counts, Missing
      <3>2. Sum([q \in Requests |-> Asked(q, r, p)]) = 0
        BY <3>1, SumZero
      <3>3. ReturnedSoFar(r, p) = 0
        BY <1>1, <3>2, ReturnedFacts
      <3>4. QED
        BY <3>3 DEF Covered
    <2>2. QED
      BY <1>2, <2>1 DEF CountsAgree
  <1>8. StockBalances
    <2>1. ASSUME NEW p \in Products
          PROVE  stock[p] = OpeningStock[p] + VoidedPieces(p) + GivenPieces(p) - exchanged[p]
      <3>1. \A r \in Receipts : VoidedOf(r, p) = 0
        <4>1. \A r \in Receipts : voided[r] = 0 /\ Bought[r][p] \in Nat
          BY ConstantFacts DEF Init
        <4>2. 0 \in Nat
          OBVIOUS
        <4>3. QED
          BY <4>1, <4>2, TimesType DEF VoidedOf
      <3>2. \A q \in Requests : GivenBy(q, p) = 0
        BY DEF Init, GivenBy
      <3>3. VoidedPieces(p) = 0 /\ GivenPieces(p) = 0
        BY <1>1, <3>1, <3>2, PiecesFacts, SumZero
      <3>4. stock[p] = OpeningStock[p] /\ exchanged[p] = 0 /\ OpeningStock[p] \in Int
        BY ConstantsAssumption DEF Init
      <3>5. QED
        BY <3>3, <3>4
    <2>2. QED
      BY <2>1 DEF StockBalances
  <1>9. MoneyBalances
    <2>1. ASSUME NEW x \in Wallets
          PROVE  balance[x] = OpeningBalance[x] + VoidedMoney(x) + RefundedMoney(x)
      <3>1. \A r \in Receipts : VoidPaid(r, x) = 0
        <4>1. \A r \in Receipts : voided[r] = 0 /\ Total(r) \in Nat
          BY TotalType DEF Init
        <4>2. 0 \in Nat
          OBVIOUS
        <4>3. QED
          BY <4>1, <4>2, TimesType DEF VoidPaid
      <3>2. \A q \in Requests : RefundPaid(q, x) = 0
        BY DEF Init, RefundPaid
      <3>3. VoidedMoney(x) = 0 /\ RefundedMoney(x) = 0
        BY <1>1, <3>1, <3>2, MoneyFacts, SumZero
      <3>4. balance[x] = OpeningBalance[x] /\ OpeningBalance[x] \in Int
        BY ConstantsAssumption DEF Init
      <3>5. QED
        BY <3>3, <3>4
    <2>2. QED
      BY <2>1 DEF MoneyBalances
  <1>10. ReversedOnce
    BY DEF Init, ReversedOnce
  <1>11. QED
    BY <1>1, <1>3, <1>4, <1>5, <1>6, <1>7, <1>8, <1>9, <1>10 DEF IInv

\* The inductive invariant: what the operations, their views of stock and wallet, and
\* the requests know of each other, whatever runs together, fails or dies midway.
THEOREM Invariance == Spec => []IInv
  <1>1. Init => IInv
    BY InitHolds
  <1>2. IInv /\ [Next]_vars => IInv'
    <2>1. SUFFICES ASSUME IInv, [Next]_vars
                   PROVE  IInv'
      OBVIOUS
    <2>2. TypeOK /\ OpsAgree /\ RowsAgree /\ PursesAgree /\ RequestsAgree /\ CountsAgree
      BY <2>1 DEF IInv
    <2>3. StockBalances /\ MoneyBalances /\ ReversedOnce
      BY <2>1 DEF IInv
    <2>4. TypeOK'
      BY <2>1, <2>2, TypePreserved
    <2>5. OpsAgree'
      BY <2>1, <2>2, OpsPreserved
    <2>6. RowsAgree' /\ PursesAgree'
      BY <2>1, <2>2, RowsPreserved, PursesPreserved
    <2>7. RequestsAgree' /\ CountsAgree'
      BY <2>1, <2>2, <2>5, RequestsPreserved, CountsPreserved
    <2>8. StockBalances' /\ MoneyBalances' /\ ReversedOnce'
      BY <2>1, <2>2, <2>3, StockPreserved, MoneyPreserved, OncePreserved
    <2>9. QED
      BY <2>4, <2>5, <2>6, <2>7, <2>8 DEF IInv
  <1>3. QED
    BY <1>1, <1>2, PTL DEF Spec

\* Every variable has its type, always.
THEOREM TypeCorrect == Spec => []TypeOK
  <1>1. IInv => TypeOK
    BY DEF IInv
  <1>2. QED
    BY <1>1, Invariance, PTL

\* The stock is what committed voids, refunds and exchanges put back and gave out, for
\* every number of workers, whatever runs together, fails or dies midway.
THEOREM StockAlwaysBalances == Spec => []StockBalances
  <1>1. IInv => StockBalances
    BY DEF IInv
  <1>2. QED
    BY <1>1, Invariance, PTL

\* A wallet gets back what committed voids and refunds paid, for every number of workers.
THEOREM MoneyAlwaysBalances == Spec => []MoneyBalances
  <1>1. IInv => MoneyBalances
    BY DEF IInv
  <1>2. QED
    BY <1>1, Invariance, PTL

\* A receipt is voided once, a request processed once unless it was edited.
THEOREM AlwaysReversedOnce == Spec => []ReversedOnce
  <1>1. IInv => ReversedOnce
    BY DEF IInv
  <1>2. QED
    BY <1>1, Invariance, PTL

\* What was given back of a receipt that was left alone is within what was requested,
\* and that within what a request says was bought.
LEMMA GivenWithinClaims ==
  ASSUME TypeOK, RequestsAgree, CountsAgree
  PROVE  WithinClaims
  <1>1. ASSUME NEW r \in Receipts \ bypassed, NEW p \in Products
        PROVE  \/ GivenOn(r, p) = 0
               \/ \E q \in Requests : /\ request[q].receipt = r /\ request[q].product = p
                                     /\ GivenOn(r, p) <= request[q].purchased
    <2> DEFINE f == [q \in Requests |-> IF request[q].receipt = r /\ request[q].product = p
                                        THEN given[q] ELSE 0]
               g == [q \in Requests |-> Asked(q, r, p)]
    <2>1. g \in [Requests -> Nat] /\ ReturnedSoFar(r, p) = Sum(g) /\ ReturnedSoFar(r, p) \in Nat
      BY ReturnedFacts
    <2>2. f \in [Requests -> Nat]
      BY DEF TypeOK
    <2>3. ASSUME NEW q \in Requests
          PROVE  f[q] <= g[q]
      <3>1. RequestOf(q) /\ given[q] \in Nat /\ request[q].quantity \in Nat
        BY DEF RequestsAgree, TypeOK, Request
      <3>2. CASE request[q].receipt = r /\ request[q].product = p
        <4>1. request[q].status \in {"pending", "approved"} /\ given[q] <= request[q].quantity
          BY <1>1, <3>1, <3>2 DEF RequestOf
        <4>2. QED
          BY <3>1, <3>2, <4>1 DEF Asked, Counts
      <3>3. CASE ~(request[q].receipt = r /\ request[q].product = p)
        BY <3>3 DEF Asked, Counts
      <3>4. QED
        BY <3>2, <3>3
    <2>4. GivenOn(r, p) = Sum(f)
      BY DEF GivenOn
    <2> HIDE DEF f, g
    <2>5. Sum(f) <= Sum(g) /\ Sum(f) \in Nat
      BY <2>1, <2>2, <2>3, FiniteFacts, SumMonotone, SumType
    <2>6. GivenOn(r, p) <= ReturnedSoFar(r, p) /\ GivenOn(r, p) \in Nat
      BY <2>1, <2>4, <2>5
    <2>7. CASE ReturnedSoFar(r, p) = 0
      BY <2>1, <2>6, <2>7
    <2>8. CASE ReturnedSoFar(r, p) # 0
      <3>1. PICK q \in Requests : Counts(q, r, p) /\ ReturnedSoFar(r, p) <= request[q].purchased
        BY <1>1, <2>8 DEF CountsAgree, Covered
      <3>2. request[q].purchased \in Nat
        BY DEF TypeOK, Request
      <3>3. GivenOn(r, p) <= request[q].purchased
        BY <2>1, <2>6, <3>1, <3>2
      <3>4. QED
        BY <3>1, <3>3 DEF Counts
    <2>9. QED
      BY <2>7, <2>8
  <1>2. QED
    BY <1>1 DEF WithinClaims

\* Refunds give back no more of a receipt than a request says was bought, unless two
\* requests were created on the same count or one was edited, for any number of workers.
THEOREM AlwaysWithinClaims == Spec => []WithinClaims
  <1>1. IInv => WithinClaims
    BY GivenWithinClaims DEF IInv
  <1>2. QED
    BY <1>1, Invariance, PTL
=============================================================================
