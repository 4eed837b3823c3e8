------------------------- MODULE PosCheckoutProofs --------------------------
(* Proofs about PosCheckout, for every value of its constants.              *)
EXTENDS PosCheckout, CountingProofs

USE ConstantsAssumption

-----------------------------------------------------------------------------
(* Carts, payers and shops *)

\* A request sells a non-empty cart, for a payer or none, in a shop of a module.
LEMMA RequestFacts ==
  ASSUME NEW r \in Requests
  PROVE  /\ Sale(r) \in Sales
         /\ Cart[Sale(r)] \in Seq(Products)
         /\ Len(Cart[Sale(r)]) \in Nat \ {0}
         /\ \A n \in 1..Len(Cart[Sale(r)]) : Cart[Sale(r)][n] \in Products
         /\ Total(r) = Len(Cart[Sale(r)])
         /\ PayerOf(r) \in Wallets \cup {NoWallet}
         /\ ShopOf[Sale(r)] \in Shops
         /\ ModuleOf[ShopOf[Sale(r)]] \in Modules
  <1>1. Sale(r) \in Sales
    BY DEF Requests, Sale
  <1>2. Cart[Sale(r)] \in Seq(Products) /\ Cart[Sale(r)] # <<>>
    BY <1>1
  <1>3. Len(Cart[Sale(r)]) \in Nat \ {0}
    BY <1>2
  <1>4. \A n \in 1..Len(Cart[Sale(r)]) : Cart[Sale(r)][n] \in Products
    BY <1>2
  <1>5. QED
    BY <1>1, <1>2, <1>3, <1>4 DEF Total, PayerOf

\* What a transaction sees of the products is a function to the integers.
LEMMA RowFacts ==
  ASSUME TypeOK, NEW r \in Requests
  PROVE  /\ rows[r] \in [DOMAIN rows[r] -> Int]
         /\ DOMAIN rows[r] \subseteq Products
         /\ \A p \in Products : View(r, p) \in Int
  <1>1. PICK S \in SUBSET Products : rows[r] \in [S -> Int]
    BY DEF TypeOK
  <1>2. DOMAIN rows[r] = S
    BY <1>1
  <1>3. QED
    BY <1>1, <1>2 DEF View, TypeOK

-----------------------------------------------------------------------------
(* Counting items *)

\* The items of the receipts are finitely many.
LEMMA ItemsFinite ==
  ASSUME TypeOK
  PROVE  /\ IsFiniteSet(ItemsSold)
         /\ \A e \in ItemsSold : /\ e[1] \in DOMAIN receipts
                                 /\ e[2] \in 1..receipts[e[1]].total
                                 /\ e = <<e[1], e[2]>>
  <1>1. receipts \in Seq(Receipt)
    BY DEF TypeOK
  <1>2. \A i \in DOMAIN receipts : receipts[i].total \in Nat
    <2>1. \A i \in DOMAIN receipts : receipts[i] \in Receipt
      BY <1>1
    <2>2. QED
      BY <2>1 DEF Receipt
  <1> DEFINE D == DOMAIN receipts
             n == [i \in D |-> receipts[i].total]
  <1>3. IsFiniteSet(D)
    <2>1. D = 1..Len(receipts) /\ Len(receipts) \in Nat
      BY <1>1
    <2>2. QED
      BY <2>1, FS_Interval
  <1>4. n \in [D -> Nat]
    BY <1>2
  <1>5. ItemsSold = Units(n)
    BY DEF ItemsSold, Units
  <1> HIDE DEF n, D
  <1>6. IsFiniteSet(ItemsSold)
    <2>1. IsFiniteSet(Units(n))
      BY <1>3, <1>4, SumType
    <2>2. QED
      BY <1>5, <2>1
  <1>7. \A e \in ItemsSold : /\ e[1] \in DOMAIN receipts
                             /\ e[2] \in 1..receipts[e[1]].total
                             /\ e = <<e[1], e[2]>>
    BY DEF ItemsSold
  <1>8. QED
    BY <1>6, <1>7

-----------------------------------------------------------------------------
(* The moves of a request *)

\* A request moves to a point, the others stay where they are.
LEMMA GotoFacts ==
  ASSUME TypeOK, NEW r \in Requests, NEW point \in Points, Goto(r, point)
  PROVE  /\ at' \in [Requests -> Points]
         /\ at'[r] = point
         /\ \A q \in Requests : q # r => at'[q] = at[q]
  BY DEF Goto, TypeOK

\* A transaction that ends leaves nothing behind.
LEMMA ForgetFacts ==
  ASSUME TypeOK, NEW r \in Requests, Forget(r)
  PROVE  /\ done'[r] = 0 /\ number'[r] = 0 /\ DOMAIN rows'[r] = {} /\ purse'[r] = 0
         /\ \A q \in Requests : q # r =>
              /\ done'[q] = done[q] /\ number'[q] = number[q]
              /\ rows'[q] = rows[q] /\ purse'[q] = purse[q]
         /\ done' \in [Requests -> Nat] /\ number' \in [Requests -> Nat]
         /\ purse' \in [Requests -> Int]
         /\ rows' = [q \in Requests |-> rows'[q]]
         /\ \A q \in Requests : \E S \in SUBSET Products : rows'[q] \in [S -> Int]
  <1>1. /\ done'[r] = 0 /\ number'[r] = 0 /\ purse'[r] = 0
        /\ \A q \in Requests : q # r =>
              done'[q] = done[q] /\ number'[q] = number[q] /\ purse'[q] = purse[q]
        /\ done' \in [Requests -> Nat] /\ number' \in [Requests -> Nat]
        /\ purse' \in [Requests -> Int]
    BY DEF Forget, TypeOK
  <1>2. /\ rows' = [q \in Requests |-> IF q = r THEN <<>> ELSE rows[q]]
    BY DEF Forget, TypeOK
  <1>3. rows'[r] = <<>> /\ \A q \in Requests : q # r => rows'[q] = rows[q]
    BY <1>2
  <1>4. <<>> \in [{} -> Int] /\ DOMAIN <<>> = {}
    OBVIOUS
  <1>5. \A q \in Requests : \E S \in SUBSET Products : rows'[q] \in [S -> Int]
    BY <1>3, <1>4 DEF TypeOK
  <1>6. rows' = [q \in Requests |-> rows'[q]]
    BY <1>2
  <1>7. QED
    BY <1>1, <1>3, <1>4, <1>5, <1>6

\* The steps of a request, sorted by what they do to its transaction.
Outside(r) == Send(r) \/ StartLog(r) \/ ReadReceipt(r) \/ Finish(r)
Throws(r) == at[r] \in InTransaction /\ Rollback(r)
TakesWallet(r) ==
  LET after == balance[PayerOf(r)] - Total(r) IN
  /\ at[r] = "wallet"
  /\ ~WalletHeld(r)
  /\ ~(Kind[PayerOf(r)] = "user" /\ after < 0)
  /\ Goto(r, IF Kind[PayerOf(r)] = "customer" THEN "limit" ELSE "receipt")
  /\ purse' = [purse EXCEPT ![r] = after]
  /\ UNCHANGED <<committed, log, answer, done, number, rows, lostReads, faults>>
PassesLimits(r) ==
  LET m == ModuleOf[ShopOf[Sale(r)]] IN
  /\ at[r] = "limit"
  /\ ~(SpentIn(PayerOf(r), m) + Total(r) > DailyLimit[PayerOf(r)][m])
  /\ ~(purse[r] < -Overdraft[PayerOf(r)])
  /\ Goto(r, "receipt")
  /\ UNCHANGED <<committed, log, answer, local, lostReads, faults>>
Inserts(r) ==
  /\ at[r] = "receipt"
  /\ ~InsertWaits(r) /\ ~NumberTaken(r) /\ ~KeyTaken(r)
  /\ Goto(r, "commit")
  /\ UNCHANGED <<committed, log, answer, local, lostReads, faults>>

StepOf(r) ==
  \/ Outside(r) \/ Begin(r) \/ LockProduct(r) \/ Deduct(r) \/ TakesWallet(r)
  \/ PassesLimits(r) \/ Inserts(r) \/ Commit(r) \/ Throws(r)

\* Every step is a crash, a stutter or one of the steps of a request.
LEMMA NextCases ==
  ASSUME [Next]_vars
  PROVE  \/ Crash
         \/ UNCHANGED vars
         \/ \E r \in Requests : StepOf(r)
  <1>1. ASSUME NEW r \in Requests, LockWallet(r)
        PROVE  TakesWallet(r) \/ Throws(r)
    <2> DEFINE refused == Kind[PayerOf(r)] = "user" /\ balance[PayerOf(r)] - Total(r) < 0
    <2>1. CASE refused
      BY <1>1, <2>1 DEF LockWallet, Throws, InTransaction
    <2>2. CASE ~refused
      BY <1>1, <2>2 DEF LockWallet, TakesWallet
    <2>3. QED
      BY <2>1, <2>2
  <1>2. ASSUME NEW r \in Requests, CheckLimits(r)
        PROVE  PassesLimits(r) \/ Throws(r)
    BY <1>2 DEF CheckLimits, PassesLimits, Throws, InTransaction
  <1>3. ASSUME NEW r \in Requests, InsertReceipt(r)
        PROVE  Inserts(r) \/ Throws(r)
    BY <1>3 DEF InsertReceipt, Inserts, Throws, InTransaction
  <1>4. ASSUME NEW r \in Requests, Fails(r)
        PROVE  Throws(r)
    BY <1>4 DEF Fails, Throws
  <1>5. ASSUME NEW r \in Requests, DeadlockVictim(r)
        PROVE  Throws(r)
    <2>1. \E q \in Requests : Waits(r, q)
      BY <1>5 DEF DeadlockVictim
    <2>2. at[r] \in InTransaction
      BY <2>1 DEF Waits, InTransaction
    <2>3. QED
      BY <1>5, <2>2 DEF DeadlockVictim, Throws
  <1>6. QED
    BY <1>1, <1>2, <1>3, <1>4, <1>5 DEF Next, Checkout, Outside, StepOf

-----------------------------------------------------------------------------
(* Receipts *)

\* The receipts of a shop are finitely many, each is a receipt of the request that
\* made it.
LEMMA ReceiptFacts ==
  ASSUME TypeOK
  PROVE  /\ Len(receipts) \in Nat /\ DOMAIN receipts = 1..Len(receipts)
         /\ \A i \in DOMAIN receipts :
              /\ receipts[i].by \in Requests
              /\ receipts[i].number \in Nat \ {0}
              /\ receipts[i].total \in Nat
         /\ \A h : IsFiniteSet(ShopReceipts(h)) /\ Count(h) \in Nat
  <1>1. receipts \in Seq(Receipt)
    BY DEF TypeOK
  <1>2. Len(receipts) \in Nat /\ DOMAIN receipts = 1..Len(receipts)
    BY <1>1
  <1>3. \A i \in DOMAIN receipts : receipts[i] \in Receipt
    BY <1>1
  <1>4. IsFiniteSet(DOMAIN receipts)
    BY <1>2, FS_Interval
  <1>5. ASSUME NEW h
        PROVE  IsFiniteSet(ShopReceipts(h)) /\ Count(h) \in Nat
    <2>1. ShopReceipts(h) \subseteq DOMAIN receipts
      BY DEF ShopReceipts
    <2>2. IsFiniteSet(ShopReceipts(h))
      BY <2>1, <1>4, FS_Subset
    <2>3. QED
      BY <2>2, FS_CardinalityType DEF Count
  <1>6. QED
    BY <1>2, <1>3, <1>5 DEF Receipt

\* generateReceiptNumber computes one more than the receipts of the shop: the newest
\* of them is the one whose rank is their number.
LEMMA NextNumberFacts ==
  ASSUME TypeOK, NumbersGapless, NumbersAgree, NEW h \in Shops
  PROVE  NextNumber(h) = Count(h) + 1
  <1> DEFINE S == ShopReceipts(h)
  <1>1. IsFiniteSet(S) /\ Count(h) \in Nat /\ Count(h) = Cardinality(S)
    BY ReceiptFacts DEF Count
  <1>2. CASE S = {}
    <2>1. Count(h) = 0
      BY <1>1, <1>2, FS_EmptySet
    <2>2. QED
      BY <1>2, <2>1 DEF NextNumber
  <1>3. CASE S # {}
    <2>1. Count(h) # 0
      BY <1>1, <1>3, FS_EmptySet
    <2>2. PICK i \in S : receipts[i].number = Count(h)
      <3>1. Count(h) \in 1..Count(h)
        BY <1>1, <2>1
      <3>2. \A n \in 1..Count(h) : \E i \in S : receipts[i].number = n
        BY DEF NumbersAgree
      <3> HIDE DEF S
      <3>3. QED
        BY <3>1, <3>2
    <2> DEFINE T == {j \in S : j <= i}
    <2>3. Cardinality(T) = Cardinality(S)
      BY <1>1, <2>2 DEF NumbersGapless
    <2>4. T = S
      <3>1. T \subseteq S
        OBVIOUS
      <3> HIDE DEF T, S
      <3>2. QED
        BY <1>1, <2>3, <3>1, FS_Subset
    <2>5. \A j \in S : j <= i
      BY <2>4
    <2>6. S \subseteq Nat
      BY ReceiptFacts DEF ShopReceipts
    <2>7. Max(S) = i
      <3>1. \A x \in S : (\A y \in S : x >= y) => x = i
        BY <2>5, <2>6
      <3>2. i \in S /\ \A y \in S : i >= y
        BY <2>5, <2>6
      <3> HIDE DEF S
      <3>3. QED
        BY <3>1, <3>2 DEF Max
    <2>8. QED
      BY <1>3, <2>2, <2>7 DEF NextNumber
  <1>4. QED
    BY <1>2, <1>3

\* What the receipts determine stays while they do.
LEMMA ReceiptsStay ==
  ASSUME receipts' = receipts
  PROVE  /\ ReceiptRange' = ReceiptRange
         /\ ItemsSold' = ItemsSold
         /\ \A h : ShopReceipts(h)' = ShopReceipts(h) /\ Count(h)' = Count(h)
         /\ \A p : Sold(p)' = Sold(p)
         /\ \A w : Paid(w)' = Paid(w)
         /\ \A w, m : SpentIn(w, m)' = SpentIn(w, m)
         /\ \A r : KeyTaken(r)' = KeyTaken(r) /\ Receipted(r)' = Receipted(r)
  BY DEF ReceiptRange, ItemsSold, ShopReceipts, Count, Sold, Paid, SpentIn, KeyTaken,
         Receipted

\* A commit appends one receipt.
LEMMA CommitReceipts ==
  ASSUME TypeOK, NEW r \in Requests, Commit(r), NEW k, k = Len(receipts) + 1
  PROVE  /\ receipts' \in Seq(Receipt)
         /\ DOMAIN receipts' = DOMAIN receipts \cup {k}
         /\ k \notin DOMAIN receipts /\ k \in Nat /\ \A i \in DOMAIN receipts : i < k
         /\ \A i \in DOMAIN receipts : receipts'[i] = receipts[i]
         /\ receipts'[k].by = r /\ receipts'[k].number = number[r]
         /\ receipts'[k].total = Total(r)
         /\ \A x \in ReceiptRange' : x \in ReceiptRange \/ x = receipts'[k]
         /\ receipts'[k] \in ReceiptRange' /\ ReceiptRange \subseteq ReceiptRange'
         /\ \A h : ShopReceipts(h)' = IF ShopOf[Sale(r)] = h
                                      THEN ShopReceipts(h) \cup {k} ELSE ShopReceipts(h)
  <1> DEFINE x == [by |-> r, number |-> number[r], total |-> Total(r)]
  <1>1. receipts \in Seq(Receipt) /\ Len(receipts) \in Nat
        /\ DOMAIN receipts = 1..Len(receipts)
    BY DEF TypeOK
  <1>2. x \in Receipt
    <2>1. number[r] \in Nat \ {0}
      BY DEF Commit, TypeOK, InTransaction
    <2>2. Total(r) \in Nat
      BY RequestFacts
    <2>3. QED
      BY <2>1, <2>2 DEF Receipt
  <1>3. receipts' = Append(receipts, x)
    BY DEF Commit
  <1>4. x.by = r /\ x.number = number[r] /\ x.total = Total(r)
    OBVIOUS
  <1> HIDE DEF x
  <1>5. /\ receipts' \in Seq(Receipt)
        /\ DOMAIN receipts' = DOMAIN receipts \cup {k}
        /\ k \notin DOMAIN receipts /\ k \in Nat /\ \A i \in DOMAIN receipts : i < k
        /\ \A i \in DOMAIN receipts : receipts'[i] = receipts[i]
        /\ receipts'[k] = x
    BY <1>1, <1>2, <1>3
  <1>6. /\ \A y \in ReceiptRange' : y \in ReceiptRange \/ y = receipts'[k]
        /\ receipts'[k] \in ReceiptRange' /\ ReceiptRange \subseteq ReceiptRange'
    BY <1>5 DEF ReceiptRange
  <1>7. ASSUME NEW h
        PROVE  ShopReceipts(h)' = IF ShopOf[Sale(r)] = h
                                  THEN ShopReceipts(h) \cup {k} ELSE ShopReceipts(h)
    BY <1>4, <1>5 DEF ShopReceipts
  <1>8. QED
    BY <1>4, <1>5, <1>6, <1>7

\* A commit adds the items of its cart to those sold, and to each count of them
\* the items it is a count of.
LEMMA CommitItems ==
  ASSUME TypeOK, TotalsAgree, NEW r \in Requests, Commit(r)
  PROVE  /\ \A p : /\ Sold(p)' = Sold(p) + Cardinality({n \in 1..Total(r) : Cart[Sale(r)][n] = p})
                   /\ Sold(p) \in Nat
         /\ \A w : /\ Paid(w)' = Paid(w) + (IF PayerOf(r) = w THEN Total(r) ELSE 0)
                   /\ Paid(w) \in Nat
         /\ \A w, m : /\ SpentIn(w, m)' = SpentIn(w, m) +
                           (IF PayerOf(r) = w /\ ModuleOf[ShopOf[Sale(r)]] = m
                            THEN Total(r) ELSE 0)
                      /\ SpentIn(w, m) \in Nat
  <1> DEFINE k == Len(receipts) + 1
             N == 1..Total(r)
  <1>1. /\ DOMAIN receipts' = DOMAIN receipts \cup {k}
        /\ k \notin DOMAIN receipts
        /\ \A i \in DOMAIN receipts : receipts'[i] = receipts[i]
        /\ receipts'[k].by = r /\ receipts'[k].total = Total(r)
    BY CommitReceipts
  <1>2. Total(r) \in Nat /\ IsFiniteSet(N) /\ Cardinality(N) = Total(r)
    <2>1. Total(r) \in Nat
      BY RequestFacts
    <2>2. QED
      BY <2>1, FS_Interval
  <1> HIDE DEF k
  <1>3. /\ IsFiniteSet(ItemsSold)
        /\ \A e \in ItemsSold : e[1] \in DOMAIN receipts
    BY ItemsFinite
  <1>4. ItemsSold' = ItemsSold \cup ({k} \X N)
    <2>1. ItemsSold' = UNION {{i} \X (1..receipts'[i].total) : i \in DOMAIN receipts'}
      BY DEF ItemsSold
    <2>2. \A e : e \in ItemsSold' <=>
                 \E i \in DOMAIN receipts' : e \in {i} \X (1..receipts'[i].total)
      BY <2>1
    <2>3. \A e : e \in ItemsSold <=>
                 \E i \in DOMAIN receipts : e \in {i} \X (1..receipts[i].total)
      BY DEF ItemsSold
    <2>4. \A e : e \in ItemsSold' <=> e \in ItemsSold \/ e \in {k} \X N
      BY <1>1, <2>2, <2>3
    <2>5. QED
      BY <2>4
  <1>5. \A e \in {k} \X N : e[1] = k /\ e[2] \in N /\ e = <<k, e[2]>>
    OBVIOUS
  <1>6. \A n \in N : <<k, n>> \in {k} \X N
    OBVIOUS
  <1>7. ItemsSold \cap ({k} \X N) = {}
    BY <1>1, <1>3, <1>5
  <1>8. ASSUME NEW p
        PROVE  /\ Sold(p)' = Sold(p) + Cardinality({n \in N : Cart[Sale(r)][n] = p})
               /\ Sold(p) \in Nat
    <2> DEFINE A == {e \in ItemsSold : Cart[Sale(receipts[e[1]].by)][e[2]] = p}
               M == {n \in N : Cart[Sale(r)][n] = p}
               B == {e \in ItemsSold' : Cart[Sale(receipts'[e[1]].by)][e[2]] = p}
    <2>1. \A e \in ItemsSold : e \in A <=> e \in B
      BY <1>1, <1>3, <1>4
    <2>2. \A n \in N : n \in M <=> <<k, n>> \in B
      BY <1>1, <1>4, <1>6
    <2>3. /\ A \in SUBSET ItemsSold /\ M \in SUBSET N
          /\ B \in SUBSET (ItemsSold \cup ({k} \X N))
      BY <1>4
    <2>4. Sold(p)' = Cardinality(B) /\ Sold(p) = Cardinality(A)
      BY DEF Sold
    <2> HIDE DEF A, B, M, N
    <2>5. Cardinality(B) = Cardinality(A) + Cardinality(M) /\ Cardinality(A) \in Nat
      <3>1. B = A \cup ({k} \X M)
        BY <1>5, <2>1, <2>2, <2>3
      <3>2. IsFiniteSet(A) /\ IsFiniteSet(M)
        BY <1>2, <1>3, <2>3, FS_Subset
      <3>3. A \cap ({k} \X M) = {}
        BY <1>7, <2>3
      <3>4. QED
        BY <3>1, <3>2, <3>3, CountGrows
    <2>6. QED
      BY <2>4, <2>5 DEF M
  <1>9. ASSUME NEW w
        PROVE  /\ Paid(w)' = Paid(w) + (IF PayerOf(r) = w THEN Total(r) ELSE 0)
               /\ Paid(w) \in Nat
    <2> DEFINE A == {e \in ItemsSold : PayerOf(receipts[e[1]].by) = w}
               M == IF PayerOf(r) = w THEN N ELSE {}
               B == {e \in ItemsSold' : PayerOf(receipts'[e[1]].by) = w}
    <2>1. \A e \in ItemsSold : e \in A <=> e \in B
      BY <1>1, <1>3, <1>4
    <2>2. \A n \in N : n \in M <=> <<k, n>> \in B
      BY <1>1, <1>4, <1>6
    <2>3. /\ A \in SUBSET ItemsSold /\ M \in SUBSET N
          /\ B \in SUBSET (ItemsSold \cup ({k} \X N))
      BY <1>4
    <2>4. Paid(w)' = Cardinality(B) /\ Paid(w) = Cardinality(A)
      BY DEF Paid
    <2>5. Cardinality(M) = IF PayerOf(r) = w THEN Total(r) ELSE 0
      BY <1>2, FS_EmptySet
    <2> HIDE DEF A, B, M, N
    <2>6. Cardinality(B) = Cardinality(A) + Cardinality(M) /\ Cardinality(A) \in Nat
      <3>1. B = A \cup ({k} \X M)
        BY <1>5, <2>1, <2>2, <2>3
      <3>2. IsFiniteSet(A) /\ IsFiniteSet(M)
        BY <1>2, <1>3, <2>3, FS_Subset
      <3>3. A \cap ({k} \X M) = {}
        BY <1>7, <2>3
      <3>4. QED
        BY <3>1, <3>2, <3>3, CountGrows
    <2>7. QED
      BY <2>4, <2>5, <2>6
  <1>10. ASSUME NEW w, NEW m
         PROVE  /\ SpentIn(w, m)' = SpentIn(w, m) +
                     (IF PayerOf(r) = w /\ ModuleOf[ShopOf[Sale(r)]] = m
                      THEN Total(r) ELSE 0)
                /\ SpentIn(w, m) \in Nat
    <2> DEFINE In(q) == PayerOf(q) = w /\ ModuleOf[ShopOf[Sale(q)]] = m
               A == {e \in ItemsSold : In(receipts[e[1]].by)}
               M == IF In(r) THEN N ELSE {}
               B == {e \in ItemsSold' : In(receipts'[e[1]].by)}
    <2>1. \A e \in ItemsSold : e \in A <=> e \in B
      BY <1>1, <1>3, <1>4
    <2>2. \A n \in N : n \in M <=> <<k, n>> \in B
      BY <1>1, <1>4, <1>6
    <2>3. /\ A \in SUBSET ItemsSold /\ M \in SUBSET N
          /\ B \in SUBSET (ItemsSold \cup ({k} \X N))
      BY <1>4
    <2>4. SpentIn(w, m)' = Cardinality(B) /\ SpentIn(w, m) = Cardinality(A)
      BY DEF SpentIn
    <2>5. Cardinality(M) = IF In(r) THEN Total(r) ELSE 0
      BY <1>2, FS_EmptySet
    <2> HIDE DEF A, B, M, N
    <2>6. Cardinality(B) = Cardinality(A) + Cardinality(M) /\ Cardinality(A) \in Nat
      <3>1. B = A \cup ({k} \X M)
        BY <1>5, <2>1, <2>2, <2>3
      <3>2. IsFiniteSet(A) /\ IsFiniteSet(M)
        BY <1>2, <1>3, <2>3, FS_Subset
      <3>3. A \cap ({k} \X M) = {}
        BY <1>7, <2>3
      <3>4. QED
        BY <3>1, <3>2, <3>3, CountGrows
    <2>7. QED
      BY <2>4, <2>5, <2>6
  <1>11. QED
    BY <1>8, <1>9, <1>10

-----------------------------------------------------------------------------
(* The types *)

\* At most MaxFaults faults occur.
LEMMA StepFaults ==
  ASSUME TypeOK, [Next]_vars
  PROVE  faults' \in 0..MaxFaults
  <1>1. faults \in 0..MaxFaults /\ MaxFaults \in Nat
    BY DEF TypeOK
  <1>2. CASE Crash
    BY <1>1, <1>2 DEF Crash
  <1>3. CASE UNCHANGED vars
    BY <1>1, <1>3 DEF vars
  <1>4. ASSUME NEW r \in Requests, Send(r) \/ Fails(r)
        PROVE  faults' \in 0..MaxFaults
    BY <1>1, <1>4 DEF Send, Fails
  <1>5. ASSUME NEW r \in Requests, StartLog(r) \/ ReadReceipt(r) \/ Finish(r) \/ Begin(r)
        PROVE  faults' \in 0..MaxFaults
    BY <1>1, <1>5 DEF StartLog, ReadReceipt, Finish, Begin
  <1>6. ASSUME NEW r \in Requests, LockProduct(r) \/ Deduct(r) \/ LockWallet(r)
        PROVE  faults' \in 0..MaxFaults
    BY <1>1, <1>6 DEF LockProduct, Deduct, LockWallet
  <1>7. ASSUME NEW r \in Requests,
               CheckLimits(r) \/ InsertReceipt(r) \/ Commit(r) \/ DeadlockVictim(r)
        PROVE  faults' \in 0..MaxFaults
    BY <1>1, <1>7 DEF CheckLimits, InsertReceipt, Commit, DeadlockVictim
  <1>8. QED
    BY <1>2, <1>3, <1>4, <1>5, <1>6, <1>7 DEF Next, Checkout

\* A step outside the transaction touches the log, the answer and the place of its
\* request only.
LEMMA OutsideFacts ==
  ASSUME TypeOK, NEW r \in Requests, Outside(r)
  PROVE  /\ UNCHANGED <<committed, local>>
         /\ log' \in [Requests -> {"none", "pending", "success", "failed"}]
         /\ answer' \in [Requests -> {"none", "receipt", "error"}]
         /\ at' \in [Requests -> Points]
         /\ at[r] \notin InTransaction /\ at'[r] \notin InTransaction
         /\ lostReads \subseteq lostReads' /\ lostReads' \subseteq Requests
         /\ \A q \in Requests : q # r => at'[q] = at[q] /\ log'[q] = log[q]
                                         /\ answer'[q] = answer[q]
  <1>1. CASE Send(r)
    BY <1>1 DEF Send, Goto, TypeOK, Points, InTransaction
  <1>2. CASE StartLog(r)
    BY <1>2 DEF StartLog, Goto, TypeOK, Points, InTransaction
  <1>3. CASE ReadReceipt(r)
    BY <1>3 DEF ReadReceipt, Goto, TypeOK, Points, InTransaction
  <1>4. CASE Finish(r)
    BY <1>4 DEF Finish, Goto, TypeOK, Points, InTransaction
  <1>5. QED
    BY <1>1, <1>2, <1>3, <1>4 DEF Outside

\* A step of a transaction leaves the other requests as they are.
LEMMA OthersStay ==
  ASSUME TypeOK, NEW r \in Requests, StepOf(r)
  PROVE  \A q \in Requests : q # r =>
           /\ at'[q] = at[q] /\ log'[q] = log[q] /\ answer'[q] = answer[q]
           /\ done'[q] = done[q] /\ number'[q] = number[q]
           /\ rows'[q] = rows[q] /\ purse'[q] = purse[q]
  <1> SUFFICES ASSUME NEW q \in Requests, q # r
               PROVE  /\ at'[q] = at[q] /\ log'[q] = log[q] /\ answer'[q] = answer[q]
                      /\ done'[q] = done[q] /\ number'[q] = number[q]
                      /\ rows'[q] = rows[q] /\ purse'[q] = purse[q]
    OBVIOUS
  <1>1. CASE Outside(r)
    BY <1>1, OutsideFacts DEF local
  <1>2. CASE Begin(r) \/ TakesWallet(r) \/ PassesLimits(r) \/ Inserts(r)
    BY <1>2 DEF Begin, TakesWallet, PassesLimits, Inserts, Goto, TypeOK, local
  <1>3. CASE LockProduct(r)
    BY <1>3 DEF LockProduct, Goto, TypeOK
  <1>4. CASE Deduct(r)
    BY <1>4 DEF Deduct, Goto, TypeOK
  <1>5. CASE Commit(r) \/ Throws(r)
    <2>1. Forget(r) /\ log' = log /\ answer' = answer
      BY <1>5 DEF Commit, Throws, Rollback
    <2>2. at'[q] = at[q]
      BY <1>5 DEF Commit, Throws, Rollback, Goto, TypeOK
    <2>3. QED
      BY <2>1, <2>2, ForgetFacts
  <1>6. QED
    BY <1>1, <1>2, <1>3, <1>4, <1>5 DEF StepOf

\* A lock adds the next product of the cart to what the transaction sees.
LEMMA LockFacts ==
  ASSUME TypeOK, RowsAgree, NEW r \in Requests, LockProduct(r)
  PROVE  /\ at[r] = "items" /\ at'[r] = "options" /\ at' \in [Requests -> Points]
         /\ UNCHANGED <<committed, log, answer, done, number, purse, lostReads, faults>>
         /\ rows' = [q \in Requests |-> rows'[q]]
         /\ NextItem(r) \in Products
         /\ DOMAIN rows'[r] = DOMAIN rows[r] \cup {NextItem(r)}
         /\ rows'[r] \in [DOMAIN rows[r] \cup {NextItem(r)} -> Int]
         /\ \A p \in DOMAIN rows'[r] : rows'[r][p] = View(r, p)
         /\ \A q \in Requests : q # r => NextItem(r) \notin DOMAIN rows[q]
  <1> DEFINE D == DOMAIN rows[r] \cup {NextItem(r)}
             f == [p \in D |-> View(r, p)]
  <1>1. rows' = [rows EXCEPT ![r] = f]
    BY DEF LockProduct
  <1>2. NextItem(r) \in Products
    <2>1. done[r] \in Nat /\ done[r] < Len(Cart[Sale(r)])
      BY DEF RowsAgree, RowsOf, LockProduct, TypeOK
    <2>2. done[r] + 1 \in 1..Len(Cart[Sale(r)])
      BY <2>1, RequestFacts
    <2>3. QED
      BY <2>2, RequestFacts DEF NextItem
  <1>3. f \in [D -> Int] /\ DOMAIN f = D /\ \A p \in D : f[p] = View(r, p)
    BY <1>2, RowFacts
  <1> HIDE DEF f
  <1>4. rows' = [q \in Requests |-> rows'[q]] /\ rows'[r] = f
    BY <1>1 DEF TypeOK
  <1>5. at[r] = "items" /\ at'[r] = "options" /\ at' \in [Requests -> Points]
    BY DEF LockProduct, Goto, TypeOK, Points, InTransaction
  <1>6. \A q \in Requests : q # r => NextItem(r) \notin DOMAIN rows[q]
    BY DEF LockProduct, ProductHeld, LockedBy
  <1>7. UNCHANGED <<committed, log, answer, done, number, purse, lostReads, faults>>
    BY DEF LockProduct
  <1>8. QED
    BY <1>2, <1>3, <1>4, <1>5, <1>6, <1>7

\* A deduction takes one piece of the product just locked.
LEMMA DeductFacts ==
  ASSUME TypeOK, RowsAgree, NEW r \in Requests, Deduct(r)
  PROVE  /\ at[r] = "options" /\ at' \in [Requests -> Points]
         /\ at'[r] = IF done[r] + 1 < Len(Cart[Sale(r)]) THEN "items"
                     ELSE IF PayerOf(r) = NoWallet THEN "receipt" ELSE "wallet"
         /\ UNCHANGED <<committed, log, answer, number, purse, lostReads, faults>>
         /\ done' \in [Requests -> Nat] /\ done'[r] = done[r] + 1
         /\ rows' = [q \in Requests |-> rows'[q]]
         /\ NextItem(r) \in DOMAIN rows[r]
         /\ rows'[r] \in [DOMAIN rows[r] -> Int]
         /\ \A p \in DOMAIN rows[r] :
              rows'[r][p] = IF p = NextItem(r) THEN rows[r][p] - 1 ELSE rows[r][p]
  <1>1. at[r] = "options" /\ done' = [done EXCEPT ![r] = @ + 1] /\ done[r] \in Nat
    BY DEF Deduct, TypeOK
  <1>2. done' \in [Requests -> Nat] /\ done'[r] = done[r] + 1
    BY <1>1 DEF TypeOK
  <1>3. /\ at' \in [Requests -> Points]
        /\ at'[r] = IF done[r] + 1 < Len(Cart[Sale(r)]) THEN "items"
                    ELSE IF PayerOf(r) = NoWallet THEN "receipt" ELSE "wallet"
    BY <1>2 DEF Deduct, Goto, TypeOK, Points, InTransaction
  <1>4. NextItem(r) \in DOMAIN rows[r]
    <2>1. done[r] < Len(Cart[Sale(r)])
      BY <1>1 DEF RowsAgree, RowsOf
    <2>2. done[r] + 1 \in 1..Len(Cart[Sale(r)])
      BY <1>1, <2>1, RequestFacts
    <2>3. QED
      BY <1>1, <2>2 DEF RowsAgree, RowsOf, Scanned, NextItem
  <1>5. rows[r] \in [DOMAIN rows[r] -> Int]
    BY RowFacts
  <1>6. rows' = [rows EXCEPT ![r] = [rows[r] EXCEPT ![NextItem(r)] = @ - 1]]
    BY DEF Deduct
  <1> DEFINE f == [rows[r] EXCEPT ![NextItem(r)] = @ - 1]
  <1>7. /\ f \in [DOMAIN rows[r] -> Int]
        /\ \A p \in DOMAIN rows[r] :
             f[p] = IF p = NextItem(r) THEN rows[r][p] - 1 ELSE rows[r][p]
    BY <1>4, <1>5
  <1>8. rows' = [rows EXCEPT ![r] = f]
    BY <1>6
  <1> HIDE DEF f
  <1>9. rows' = [q \in Requests |-> rows'[q]] /\ rows'[r] = f
    BY <1>8 DEF TypeOK
  <1>10. UNCHANGED <<committed, log, answer, number, purse, lostReads, faults>>
    BY DEF Deduct
  <1>11. QED
    BY <1>1, <1>2, <1>3, <1>4, <1>7, <1>9, <1>10

\* What a commit leaves of stock and balances.
LEMMA CommitFacts ==
  ASSUME TypeOK, RowsAgree, NEW r \in Requests, Commit(r)
  PROVE  /\ stock' \in [Products -> Int]
         /\ \A p \in Products : stock'[p] = View(r, p)
         /\ balance' \in [Wallets -> Int]
         /\ \A w \in Wallets :
              balance'[w] = IF w = PayerOf(r) THEN purse[r] ELSE balance[w]
         /\ at[r] = "commit" /\ at'[r] = "read" /\ at' \in [Requests -> Points]
         /\ Forget(r)
         /\ UNCHANGED <<log, answer, lostReads, faults>>
  <1>1. stock' \in [Products -> Int] /\ \A p \in Products : stock'[p] = View(r, p)
    BY RowFacts DEF Commit
  <1>2. PayerOf(r) \in Wallets \cup {NoWallet} /\ purse[r] \in Int
    BY RequestFacts DEF TypeOK
  <1>3. /\ balance' \in [Wallets -> Int]
        /\ \A w \in Wallets :
             balance'[w] = IF w = PayerOf(r) THEN purse[r] ELSE balance[w]
    BY <1>2 DEF Commit, TypeOK
  <1>4. at[r] = "commit" /\ at'[r] = "read" /\ at' \in [Requests -> Points]
    BY DEF Commit, Goto, TypeOK, Points, InTransaction
  <1>5. QED
    BY <1>1, <1>3, <1>4 DEF Commit

\* A transaction that throws leaves the books alone.
LEMMA ThrowsFacts ==
  ASSUME TypeOK, NEW r \in Requests, Throws(r)
  PROVE  /\ at[r] \in InTransaction /\ at'[r] = "log_failed"
         /\ at' \in [Requests -> Points]
         /\ Forget(r)
         /\ UNCHANGED <<committed, log, answer, lostReads>>
  BY DEF Throws, Rollback, Goto, TypeOK, Points, InTransaction

\* The steps that pass a check.
LEMMA PassFacts ==
  ASSUME TypeOK, PursesAgree, NEW r \in Requests,
         TakesWallet(r) \/ PassesLimits(r) \/ Inserts(r)
  PROVE  /\ at[r] \in {"wallet", "limit", "receipt"}
         /\ at'[r] \in {"limit", "receipt", "commit"}
         /\ at' \in [Requests -> Points]
         /\ UNCHANGED <<committed, log, answer, done, number, rows, lostReads, faults>>
         /\ purse' \in [Requests -> Int]
  <1>1. PayerOf(r) \in Wallets => balance[PayerOf(r)] - Total(r) \in Int
    BY RequestFacts DEF TypeOK
  <1>2. CASE TakesWallet(r) /\ PayerOf(r) \in Wallets
    BY <1>1, <1>2 DEF TakesWallet, Goto, TypeOK, Points, InTransaction
  <1>3. CASE PassesLimits(r) \/ Inserts(r)
    BY <1>3 DEF PassesLimits, Inserts, Goto, TypeOK, Points, InTransaction, local
  <1>4. TakesWallet(r) => PayerOf(r) \in Wallets
    BY RequestFacts DEF TakesWallet, PursesAgree, PurseOf
  <1>5. QED
    BY <1>2, <1>3, <1>4

\* Every step keeps the types.
LEMMA StepTypeOK ==
  ASSUME IInv, [Next]_vars
  PROVE  TypeOK'
  <1> TypeOK /\ RowsAgree /\ PursesAgree /\ NumbersAgree /\ NumbersGapless
    BY DEF IInv
  <1>1. faults' \in 0..MaxFaults
    BY StepFaults
  <1>2. CASE UNCHANGED vars
    BY <1>2 DEF TypeOK, vars, committed, local
  <1>3. CASE Crash
    <2>1. /\ at' \in [Requests -> Points]
          /\ \A q \in Requests : at'[q] \notin InTransaction
      BY <1>3 DEF Crash, TypeOK, Points, InTransaction
    <2>2. /\ done' \in [Requests -> Nat] /\ purse' \in [Requests -> Int]
          /\ number' \in [Requests -> Nat] /\ \A q \in Requests : number'[q] = 0
      BY <1>3 DEF Crash
    <2>3. /\ rows' = [q \in Requests |-> rows'[q]]
          /\ \A q \in Requests : \E S \in SUBSET Products : rows'[q] \in [S -> Int]
      <3>1. rows' = [q \in Requests |-> <<>>] /\ <<>> \in [{} -> Int]
        BY <1>3 DEF Crash
      <3>2. QED
        BY <3>1
    <2>4. UNCHANGED <<committed, log, answer, lostReads>>
      BY <1>3 DEF Crash
    <2>5. QED
      BY <1>1, <2>1, <2>2, <2>3, <2>4 DEF TypeOK, committed
  <1>4. ASSUME NEW r \in Requests, Outside(r)
        PROVE  TypeOK'
    <2> \A q \in Requests : q # r =>
          at'[q] = at[q] /\ rows'[q] = rows[q] /\ number'[q] = number[q]
      BY <1>4, OthersStay DEF StepOf
    <2>1. \A q \in Requests : at'[q] \in InTransaction <=> at[q] \in InTransaction
      BY <1>4, OutsideFacts
    <2>2. QED
      BY <1>1, <1>4, <2>1, OutsideFacts DEF TypeOK, committed, local
  <1>5. ASSUME NEW r \in Requests, Begin(r)
        PROVE  TypeOK'
    <2> \A q \in Requests : q # r =>
          at'[q] = at[q] /\ rows'[q] = rows[q] /\ number'[q] = number[q]
      BY <1>5, OthersStay DEF StepOf
    <2>1. NextNumber(ShopOf[Sale(r)]) \in Nat \ {0}
      BY RequestFacts, NextNumberFacts, ReceiptFacts
    <2>2. /\ number' \in [Requests -> Nat]
          /\ \A q \in Requests : number'[q] = 0 <=> at'[q] \notin InTransaction
          /\ at' \in [Requests -> Points]
      BY <1>5, <2>1 DEF Begin, Goto, TypeOK, Points, InTransaction
    <2>3. UNCHANGED <<committed, log, answer, done, rows, purse, lostReads>>
      BY <1>5 DEF Begin
    <2>4. QED
      BY <1>1, <2>2, <2>3 DEF TypeOK, committed
  <1>6. ASSUME NEW r \in Requests, LockProduct(r)
        PROVE  TypeOK'
    <2> \A q \in Requests : q # r =>
          at'[q] = at[q] /\ rows'[q] = rows[q] /\ number'[q] = number[q]
      BY <1>6, OthersStay DEF StepOf
    <2>1. \A q \in Requests : at'[q] \in InTransaction <=> at[q] \in InTransaction
      BY <1>6, LockFacts DEF InTransaction
    <2>2. DOMAIN rows[r] \cup {NextItem(r)} \in SUBSET Products
      BY <1>6, LockFacts, RowFacts
    <2>3. \A q \in Requests : \E S \in SUBSET Products : rows'[q] \in [S -> Int]
      BY <1>6, <2>2, LockFacts DEF TypeOK
    <2>4. QED
      BY <1>1, <1>6, <2>1, <2>3, LockFacts DEF TypeOK, committed
  <1>7. ASSUME NEW r \in Requests, Deduct(r)
        PROVE  TypeOK'
    <2> \A q \in Requests : q # r =>
          at'[q] = at[q] /\ rows'[q] = rows[q] /\ number'[q] = number[q]
      BY <1>7, OthersStay DEF StepOf
    <2>1. \A q \in Requests : at'[q] \in InTransaction <=> at[q] \in InTransaction
      BY <1>7, DeductFacts DEF InTransaction
    <2>2. \A q \in Requests : \E S \in SUBSET Products : rows'[q] \in [S -> Int]
      <3>1. rows'[r] \in [DOMAIN rows[r] -> Int] /\ DOMAIN rows[r] \in SUBSET Products
        BY <1>7, DeductFacts, RowFacts
      <3>2. QED
        BY <3>1 DEF TypeOK
    <2>3. QED
      BY <1>1, <1>7, <2>1, <2>2, DeductFacts DEF TypeOK, committed
  <1>8. ASSUME NEW r \in Requests, TakesWallet(r) \/ PassesLimits(r) \/ Inserts(r)
        PROVE  TypeOK'
    <2> \A q \in Requests : q # r =>
          at'[q] = at[q] /\ rows'[q] = rows[q] /\ number'[q] = number[q]
      BY <1>8, OthersStay DEF StepOf
    <2>1. \A q \in Requests : at'[q] \in InTransaction <=> at[q] \in InTransaction
      BY <1>8, PassFacts DEF InTransaction
    <2>2. QED
      BY <1>1, <1>8, <2>1, PassFacts DEF TypeOK, committed
  <1>9. ASSUME NEW r \in Requests, Commit(r) \/ Throws(r)
        PROVE  TypeOK'
    <2> \A q \in Requests : q # r =>
          at'[q] = at[q] /\ rows'[q] = rows[q] /\ number'[q] = number[q]
      BY <1>9, OthersStay DEF StepOf
    <2>1. /\ Forget(r) /\ at' \in [Requests -> Points] /\ at'[r] \notin InTransaction
          /\ UNCHANGED <<log, answer, lostReads>>
      BY <1>9, CommitFacts, ThrowsFacts DEF InTransaction
    <2>2. \A q \in Requests : number'[q] = 0 <=> at'[q] \notin InTransaction
      BY <2>1, ForgetFacts DEF TypeOK
    <2>3. /\ stock' \in [Products -> Int] /\ balance' \in [Wallets -> Int]
          /\ receipts' \in Seq(Receipt)
      <3>1. CASE Commit(r)
        BY <3>1, CommitFacts, CommitReceipts
      <3>2. CASE Throws(r)
        BY <3>2, ThrowsFacts DEF TypeOK, committed
      <3>3. QED
        BY <1>9, <3>1, <3>2
    <2>4. QED
      BY <1>1, <2>1, <2>2, <2>3, ForgetFacts DEF TypeOK
  <1>10. QED
    BY <1>2, <1>3, <1>4, <1>5, <1>6, <1>7, <1>8, <1>9, NextCases DEF StepOf

-----------------------------------------------------------------------------
(* What a transaction holds of the products *)

\* A product that a transaction has not processed is not among its items.
LEMMA TakenFacts ==
  ASSUME TypeOK, NEW r \in Requests, NEW p
  PROVE  /\ Taken(r, p) \in Nat
         /\ (\A n \in 1..done[r] : Cart[Sale(r)][n] # p) => Taken(r, p) = 0
  <1> DEFINE S == {n \in 1..done[r] : Cart[Sale(r)][n] = p}
  <1>1. S \subseteq 1..done[r] /\ IsFiniteSet(1..done[r])
    <2>1. done[r] \in Nat
      BY DEF TypeOK
    <2>2. QED
      BY <2>1, FS_Interval
  <1>2. (\A n \in 1..done[r] : Cart[Sale(r)][n] # p) => S = {}
    OBVIOUS
  <1>3. Taken(r, p) = Cardinality(S)
    BY DEF Taken
  <1> HIDE DEF S
  <1>4. IsFiniteSet(S)
    BY <1>1, FS_Subset
  <1>5. QED
    BY <1>2, <1>3, <1>4, FS_CardinalityType, FS_EmptySet

\* One more item processed is one more piece taken of its product.
LEMMA TakenGrows ==
  ASSUME TypeOK, NEW r \in Requests, done'[r] = done[r] + 1, NEW p
  PROVE  Taken(r, p)' = IF p = NextItem(r) THEN Taken(r, p) + 1 ELSE Taken(r, p)
  <1> DEFINE S == {n \in 1..done[r] : Cart[Sale(r)][n] = p}
             T == {n \in 1..(done[r] + 1) : Cart[Sale(r)][n] = p}
             k == done[r] + 1
  <1>1. done[r] \in Nat
    BY DEF TypeOK
  <1>2. T = IF p = NextItem(r) THEN S \cup {k} ELSE S
    <2>1. \A n : n \in 1..(done[r] + 1) <=> n \in 1..done[r] \/ n = k
      BY <1>1
    <2>2. NextItem(r) = Cart[Sale(r)][k]
      BY DEF NextItem
    <2>3. \A n : n \in T <=> n \in S \/ (n = k /\ p = NextItem(r))
      BY <2>1, <2>2
    <2> HIDE DEF S, T, k
    <2>4. QED
      BY <2>3
  <1>3. S \subseteq 1..done[r] /\ k \notin S
    BY <1>1
  <1>4. Taken(r, p) = Cardinality(S) /\ Taken(r, p)' = Cardinality(T)
    BY DEF Taken
  <1> HIDE DEF S, T, k
  <1>5. IsFiniteSet(S)
    <2>1. IsFiniteSet(1..done[r])
      BY <1>1, FS_Interval
    <2>2. QED
      BY <1>3, <2>1, FS_Subset
  <1>6. Cardinality(S \cup {k}) = Cardinality(S) + 1
    BY <1>3, <1>5, FS_AddElement
  <1>7. QED
    BY <1>2, <1>4, <1>6

\* When one transaction moves, the others still have their rows and nobody else's,
\* as long as it leaves the stock of their products alone.
LEMMA RowsMove ==
  ASSUME TypeOK, RowsAgree, NEW r \in Requests,
         \A q \in Requests : q # r =>
           at'[q] = at[q] /\ done'[q] = done[q] /\ rows'[q] = rows[q],
         \A q \in Requests : q # r =>
           \A p \in DOMAIN rows[q] : stock'[p] = stock[p] /\ p \notin DOMAIN rows'[r],
         RowsOf(r)'
  PROVE  RowsAgree'
  <1>1. ASSUME NEW q \in Requests, q # r
        PROVE  RowsOf(q)'
    <2>1. RowsOf(q)
      BY DEF RowsAgree
    <2>2. \A p : Taken(q, p)' = Taken(q, p)
      BY <1>1 DEF Taken
    <2>3. Scanned(q)' = Scanned(q)
      BY <1>1 DEF Scanned
    <2>4. at'[q] = at[q] /\ done'[q] = done[q] /\ rows'[q] = rows[q]
          /\ \A p \in DOMAIN rows[q] : stock'[p] = stock[p]
      BY <1>1
    <2>5. DOMAIN rows'[q] = {Cart[Sale(q)][n] : n \in 1..Scanned(q)'}
      BY <2>1, <2>3, <2>4 DEF RowsOf
    <2>6. ASSUME NEW p \in DOMAIN rows'[q]
          PROVE  rows'[q][p] = stock'[p] - Taken(q, p)'
      <3>1. rows[q][p] = stock[p] - Taken(q, p)
        BY <2>1, <2>4 DEF RowsOf
      <3>2. stock'[p] = stock[p] /\ rows'[q] = rows[q] /\ Taken(q, p)' = Taken(q, p)
        BY <2>2, <2>4
      <3>3. QED
        BY <3>1, <3>2
    <2>7. QED
      BY <2>1, <2>4, <2>5, <2>6 DEF RowsOf
  <1>2. \A q \in Requests : RowsOf(q)'
    BY <1>1
  <1>3. \A o, q \in Requests : \A p \in DOMAIN rows'[o] : p \in DOMAIN rows'[q] => o = q
    BY DEF RowsAgree, LockedBy
  <1>4. QED
    BY <1>2, <1>3 DEF RowsAgree, LockedBy

\* A request outside a transaction holds nothing.
LEMMA RowsEnd ==
  ASSUME NEW r \in Requests, at'[r] \notin InTransaction, done'[r] = 0,
         DOMAIN rows'[r] = {}
  PROVE  RowsOf(r)'
  <1>1. at'[r] \notin {"items", "options"}
    BY DEF InTransaction
  <1>2. Scanned(r)' = 0
    BY <1>1 DEF Scanned
  <1>3. {Cart[Sale(r)][n] : n \in 1..Scanned(r)'} = {}
    BY <1>2
  <1>4. QED
    BY <1>1, <1>3 DEF RowsOf

\* Every step keeps what the transactions hold.
LEMMA StepRows ==
  ASSUME IInv, [Next]_vars
  PROVE  RowsAgree'
  <1> TypeOK /\ RowsAgree /\ PursesAgree
    BY DEF IInv
  <1>1. \A q \in Requests : RowsOf(q)
    BY DEF RowsAgree
  <1>2. \A o, q \in Requests : \A p \in DOMAIN rows[o] : p \in DOMAIN rows[q] => o = q
    BY DEF RowsAgree, LockedBy
  <1>3. CASE UNCHANGED vars
    <2>1. \A q \in Requests : \A p : Taken(q, p)' = Taken(q, p)
      BY <1>3 DEF Taken, vars, local
    <2>2. \A q \in Requests : Scanned(q)' = Scanned(q)
      BY <1>3 DEF Scanned, vars, local
    <2>3. stock' = stock /\ rows' = rows /\ at' = at /\ done' = done
      BY <1>3 DEF vars, committed, local
    <2>4. ASSUME NEW q \in Requests
          PROVE  RowsOf(q)'
      <3>1. ASSUME NEW p \in DOMAIN rows'[q]
            PROVE  rows'[q][p] = stock'[p] - Taken(q, p)'
        <4>1. rows[q][p] = stock[p] - Taken(q, p)
          BY <1>1, <2>3 DEF RowsOf
        <4>2. QED
          BY <4>1, <2>1, <2>3
      <3>2. QED
        BY <1>1, <2>2, <2>3, <3>1 DEF RowsOf
    <2>5. QED
      BY <1>2, <2>3, <2>4 DEF RowsAgree, LockedBy
  <1>4. CASE Crash
    <2>1. \A q \in Requests :
            /\ done'[q] = 0 /\ at'[q] \notin InTransaction
            /\ DOMAIN rows'[q] = {}
      BY <1>4 DEF Crash, InTransaction
    <2>2. QED
      BY <2>1, RowsEnd DEF RowsAgree, LockedBy
  <1>5. ASSUME NEW r \in Requests, StepOf(r)
        PROVE  RowsAgree'
    <2>1. \A q \in Requests : q # r =>
            at'[q] = at[q] /\ done'[q] = done[q] /\ rows'[q] = rows[q]
      BY <1>5, OthersStay
    <2>2. SUFFICES /\ \A q \in Requests : q # r =>
                        \A p \in DOMAIN rows[q] : stock'[p] = stock[p] /\ p \notin DOMAIN rows'[r]
                   /\ RowsOf(r)'
      BY <2>1, RowsMove
    <2>3. \A q \in Requests : q # r => \A p \in DOMAIN rows[q] : p \notin DOMAIN rows[r]
      BY <1>2
    <2>4. done[r] \in Nat /\ RowsOf(r)
      BY <1>1 DEF TypeOK
    <2>5. CASE Outside(r)
      <3>1. stock' = stock /\ rows' = rows /\ done' = done
            /\ at[r] \notin InTransaction /\ at'[r] \notin InTransaction
        BY <2>5, OutsideFacts DEF committed, local
      <3>2. done[r] = 0 /\ Scanned(r) = 0
        BY <2>4, <3>1 DEF RowsOf, Scanned, InTransaction
      <3>3. DOMAIN rows[r] = {}
        BY <2>4, <3>2 DEF RowsOf
      <3>4. QED
        BY <2>3, <3>1, <3>2, <3>3, RowsEnd
    <2>6. CASE Begin(r)
      <3>1. stock' = stock /\ rows' = rows /\ done' = done
            /\ at[r] = "begin" /\ at'[r] = "items"
        BY <2>6 DEF Begin, committed, Goto, TypeOK
      <3>2. done[r] = 0 /\ Scanned(r) = 0 /\ Scanned(r)' = 0
        BY <2>4, <3>1 DEF RowsOf, Scanned, InTransaction
      <3>3. DOMAIN rows[r] = {}
        BY <2>4, <3>2 DEF RowsOf
      <3>4. {Cart[Sale(r)][n] : n \in 1..Scanned(r)'} = {}
        BY <3>2
      <3>5. RowsOf(r)'
        BY <3>1, <3>2, <3>3, <3>4, RequestFacts DEF RowsOf, InTransaction
      <3>6. QED
        BY <2>3, <3>1, <3>5
    <2>7. CASE LockProduct(r)
      <3>1. /\ stock' = stock /\ done' = done
            /\ at[r] = "items" /\ at'[r] = "options"
            /\ DOMAIN rows'[r] = DOMAIN rows[r] \cup {NextItem(r)}
            /\ \A p \in DOMAIN rows'[r] : rows'[r][p] = View(r, p)
            /\ \A q \in Requests : q # r => NextItem(r) \notin DOMAIN rows[q]
            /\ NextItem(r) \in Products
        BY <2>7, LockFacts DEF committed
      <3>2. Scanned(r) = done[r] /\ Scanned(r)' = done[r] + 1 /\ done[r] < Len(Cart[Sale(r)])
        BY <2>4, <3>1 DEF RowsOf, Scanned
      <3>3. \A n : n \in 1..(done[r] + 1) <=> n \in 1..done[r] \/ n = done[r] + 1
        BY <2>4
      <3>4. DOMAIN rows'[r] = {Cart[Sale(r)][n] : n \in 1..Scanned(r)'}
        BY <2>4, <3>1, <3>2, <3>3 DEF RowsOf, NextItem
      <3>5. ASSUME NEW p \in DOMAIN rows'[r]
            PROVE  rows'[r][p] = stock'[p] - Taken(r, p)'
        <4>1. Taken(r, p)' = Taken(r, p)
          BY <3>1 DEF Taken
        <4>2. CASE p \in DOMAIN rows[r]
          BY <2>4, <3>1, <4>1, <4>2 DEF RowsOf, View
        <4>3. CASE p \notin DOMAIN rows[r]
          <5>1. \A n \in 1..done[r] : Cart[Sale(r)][n] # p
            BY <2>4, <3>2, <4>3 DEF RowsOf
          <5>2. Taken(r, p) = 0
            BY <5>1, TakenFacts
          <5>3. stock[p] \in Int
            BY <3>1, RowFacts DEF TypeOK
          <5>4. QED
            BY <3>1, <4>1, <4>3, <5>2, <5>3 DEF View
        <4>4. QED
          BY <4>2, <4>3
      <3>6. RowsOf(r)'
        BY <3>1, <3>2, <3>4, <3>5 DEF RowsOf, InTransaction
      <3>7. QED
        BY <2>3, <3>1, <3>6
    <2>8. CASE Deduct(r)
      <3>1. /\ stock' = stock /\ done'[r] = done[r] + 1 /\ at[r] = "options"
            /\ at'[r] = IF done[r] + 1 < Len(Cart[Sale(r)]) THEN "items"
                        ELSE IF PayerOf(r) = NoWallet THEN "receipt" ELSE "wallet"
            /\ DOMAIN rows'[r] = DOMAIN rows[r]
            /\ \A p \in DOMAIN rows[r] :
                 rows'[r][p] = IF p = NextItem(r) THEN rows[r][p] - 1 ELSE rows[r][p]
        BY <2>8, DeductFacts DEF committed
      <3>2. Scanned(r) = done[r] + 1 /\ Scanned(r)' = done[r] + 1
            /\ done[r] < Len(Cart[Sale(r)])
        BY <2>4, <3>1 DEF RowsOf, Scanned
      <3>3. ASSUME NEW p \in DOMAIN rows'[r]
            PROVE  rows'[r][p] = stock'[p] - Taken(r, p)'
        <4>1. Taken(r, p)' = IF p = NextItem(r) THEN Taken(r, p) + 1 ELSE Taken(r, p)
          BY <3>1, TakenGrows
        <4>2. rows[r][p] = stock[p] - Taken(r, p) /\ p \in Products
          BY <2>4, <3>1, RowFacts DEF RowsOf
        <4>3. Taken(r, p) \in Nat /\ stock[p] \in Int
          BY <4>2, TakenFacts DEF TypeOK
        <4>4. QED
          BY <3>1, <4>1, <4>2, <4>3
      <3>4. /\ at'[r] \in InTransaction
            /\ at'[r] \in {"items", "options"} => done'[r] < Len(Cart[Sale(r)])
            /\ at'[r] \in InTransaction \ {"items", "options"} => done'[r] = Len(Cart[Sale(r)])
        BY <2>4, <3>1, <3>2, RequestFacts DEF InTransaction
      <3>5. RowsOf(r)'
        BY <2>4, <3>1, <3>2, <3>3, <3>4 DEF RowsOf
      <3>6. QED
        BY <2>3, <3>1, <3>5
    <2>9. CASE TakesWallet(r) \/ PassesLimits(r) \/ Inserts(r)
      <3>1. /\ stock' = stock /\ done' = done /\ rows' = rows
            /\ at[r] \in {"wallet", "limit", "receipt"}
            /\ at'[r] \in {"limit", "receipt", "commit"}
        BY <2>9, PassFacts DEF committed
      <3>2. Scanned(r)' = Scanned(r)
        BY <3>1 DEF Scanned
      <3>3. ASSUME NEW p \in DOMAIN rows'[r]
            PROVE  rows'[r][p] = stock'[p] - Taken(r, p)'
        <4>1. Taken(r, p)' = Taken(r, p)
          BY <3>1 DEF Taken
        <4>2. rows[r][p] = stock[p] - Taken(r, p)
          BY <2>4, <3>1 DEF RowsOf
        <4>3. QED
          BY <3>1, <4>1, <4>2
      <3>4. RowsOf(r)'
        BY <2>4, <3>1, <3>2, <3>3 DEF RowsOf, InTransaction
      <3>5. QED
        BY <2>3, <3>1, <3>4
    <2>10. CASE Commit(r)
      <3>1. /\ \A p \in Products : stock'[p] = View(r, p)
            /\ at'[r] \notin InTransaction /\ done'[r] = 0 /\ DOMAIN rows'[r] = {}
        BY <2>10, CommitFacts, ForgetFacts DEF InTransaction
      <3>2. ASSUME NEW q \in Requests, q # r, NEW p \in DOMAIN rows[q]
            PROVE  stock'[p] = stock[p]
        <4>1. p \in Products
          BY RowFacts
        <4>2. QED
          BY <2>3, <3>1, <3>2, <4>1 DEF View
      <3>3. QED
        BY <3>1, <3>2, RowsEnd
    <2>11. CASE Throws(r)
      <3>1. /\ stock' = stock
            /\ at'[r] \notin InTransaction /\ done'[r] = 0 /\ DOMAIN rows'[r] = {}
        BY <2>11, ThrowsFacts, ForgetFacts DEF InTransaction, committed
      <3>2. QED
        BY <3>1, RowsEnd
    <2>12. QED
      BY <1>5, <2>5, <2>6, <2>7, <2>8, <2>9, <2>10, <2>11 DEF StepOf
  <1>6. QED
    BY <1>3, <1>4, <1>5, NextCases

-----------------------------------------------------------------------------
(* What a transaction knows of the wallet *)

\* What was sold, paid and spent is a natural number.
LEMMA CountsAreNat ==
  ASSUME TypeOK
  PROVE  /\ \A p : Sold(p) \in Nat
         /\ \A w : Paid(w) \in Nat
         /\ \A w, m : SpentIn(w, m) \in Nat
  <1>1. \A S \in SUBSET ItemsSold : Cardinality(S) \in Nat
    BY ItemsFinite, FS_Subset, FS_CardinalityType
  <1>2. QED
    BY <1>1 DEF Sold, Paid, SpentIn

\* When one transaction moves, the others still know their wallets and have them
\* alone, as long as it leaves those balances and receipts as they are.
LEMMA PursesMove ==
  ASSUME TypeOK, PursesAgree, NEW r \in Requests,
         \A q \in Requests : q # r => at'[q] = at[q] /\ purse'[q] = purse[q],
         \A q \in Requests : q # r /\ HasWallet(q) =>
           /\ balance'[PayerOf(q)] = balance[PayerOf(q)]
           /\ \A m : SpentIn(PayerOf(q), m)' = SpentIn(PayerOf(q), m)
           /\ HasWallet(r)' => PayerOf(q) # PayerOf(r),
         PurseOf(r)'
  PROVE  PursesAgree'
  <1>1. \A q \in Requests : q # r => (HasWallet(q)' <=> HasWallet(q))
    BY DEF HasWallet
  <1>2. ASSUME NEW q \in Requests, q # r
        PROVE  PurseOf(q)'
    <2>1. PurseOf(q) /\ at'[q] = at[q] /\ purse'[q] = purse[q]
          /\ (HasWallet(q)' <=> HasWallet(q))
      BY <1>1, <1>2 DEF PursesAgree
    <2>2. CASE ~HasWallet(q)
      BY <2>1, <2>2 DEF PurseOf
    <2>3. CASE HasWallet(q)
      <3> DEFINE m == ModuleOf[ShopOf[Sale(q)]]
      <3>1. /\ balance'[PayerOf(q)] = balance[PayerOf(q)]
            /\ SpentIn(PayerOf(q), m)' = SpentIn(PayerOf(q), m)
        BY <1>2, <2>3
      <3>2. QED
        BY <2>1, <2>3, <3>1 DEF PurseOf
    <2>4. QED
      BY <2>2, <2>3
  <1>3. \A o, q \in Requests :
          HasWallet(o)' /\ HasWallet(q)' /\ PayerOf(o) = PayerOf(q) => o = q
    BY <1>1 DEF PursesAgree
  <1>4. QED
    BY <1>2, <1>3 DEF PursesAgree

\* A request away from the wallet knows nothing of it.
LEMMA PurseAway ==
  ASSUME NEW r \in Requests,
         \/ at'[r] \notin {"wallet", "limit", "receipt", "commit"}
         \/ at'[r] \notin {"wallet", "limit"} /\ PayerOf(r) = NoWallet
  PROVE  PurseOf(r)' /\ ~HasWallet(r)'
  BY DEF PurseOf, HasWallet

\* Every step keeps what the transactions know of their wallets.
LEMMA StepPurses ==
  ASSUME IInv, [Next]_vars
  PROVE  PursesAgree'
  <1> TypeOK /\ PursesAgree /\ RowsAgree /\ TotalsAgree
    BY DEF IInv
  <1>1. CASE UNCHANGED vars
    <2>1. at' = at /\ purse' = purse /\ balance' = balance /\ receipts' = receipts
      BY <1>1 DEF vars, committed, local
    <2>2. \A w, m : SpentIn(w, m)' = SpentIn(w, m)
      BY <2>1, ReceiptsStay
    <2>3. \A q \in Requests : HasWallet(q)' <=> HasWallet(q)
      BY <2>1 DEF HasWallet
    <2>4. ASSUME NEW q \in Requests
          PROVE  PurseOf(q)'
      <3> DEFINE m == ModuleOf[ShopOf[Sale(q)]]
      <3>1. PurseOf(q) /\ SpentIn(PayerOf(q), m)' = SpentIn(PayerOf(q), m)
        BY <2>2 DEF PursesAgree
      <3>2. QED
        BY <2>1, <2>3, <3>1 DEF PurseOf
    <2>5. QED
      BY <2>3, <2>4 DEF PursesAgree
  <1>2. CASE Crash
    <2>1. \A q \in Requests : at'[q] \notin {"wallet", "limit", "receipt", "commit"}
      BY <1>2 DEF Crash
    <2>2. QED
      BY <2>1, PurseAway DEF PursesAgree
  <1>3. ASSUME NEW r \in Requests, StepOf(r)
        PROVE  PursesAgree'
    <2>1. \A q \in Requests : q # r => at'[q] = at[q] /\ purse'[q] = purse[q]
      BY <1>3, OthersStay
    <2>2. ASSUME \A q \in Requests : q # r /\ HasWallet(q) =>
                   /\ balance'[PayerOf(q)] = balance[PayerOf(q)]
                   /\ \A m : SpentIn(PayerOf(q), m)' = SpentIn(PayerOf(q), m)
                   /\ HasWallet(r)' => PayerOf(q) # PayerOf(r),
                 PurseOf(r)'
          PROVE  PursesAgree'
      BY <2>1, <2>2, PursesMove
    <2>3. PurseOf(r) /\ \A q \in Requests :
            q # r /\ HasWallet(q) /\ HasWallet(r) => PayerOf(q) # PayerOf(r)
      BY DEF PursesAgree
    <2>4. ASSUME balance' = balance, receipts' = receipts,
                 PurseOf(r)', ~HasWallet(r)'
          PROVE  PursesAgree'
      <3>1. \A w, m : SpentIn(w, m)' = SpentIn(w, m)
        BY <2>4, ReceiptsStay
      <3>2. QED
        BY <2>1, <2>4, <3>1, PursesMove
    <2>5. CASE Outside(r) \/ Begin(r) \/ LockProduct(r) \/ Throws(r)
      <3>1. CASE Outside(r)
        <4>1. balance' = balance /\ receipts' = receipts /\ at'[r] \notin InTransaction
          BY <3>1, OutsideFacts DEF committed
        <4>2. QED
          BY <2>4, <4>1, PurseAway DEF InTransaction
      <3>2. CASE Begin(r)
        <4>1. balance' = balance /\ receipts' = receipts /\ at'[r] = "items"
          BY <3>2 DEF Begin, committed, Goto, TypeOK
        <4>2. QED
          BY <2>4, <4>1, PurseAway
      <3>3. CASE LockProduct(r)
        <4>1. balance' = balance /\ receipts' = receipts /\ at'[r] = "options"
          BY <3>3, LockFacts DEF committed
        <4>2. QED
          BY <2>4, <4>1, PurseAway
      <3>4. CASE Throws(r)
        <4>1. balance' = balance /\ receipts' = receipts /\ at'[r] = "log_failed"
          BY <3>4, ThrowsFacts DEF committed
        <4>2. QED
          BY <2>4, <4>1, PurseAway
      <3>5. QED
        BY <2>5, <3>1, <3>2, <3>3, <3>4
    <2>6. CASE Deduct(r)
      <3>1. /\ balance' = balance /\ receipts' = receipts
            /\ \/ at'[r] = "items"
               \/ at'[r] = "receipt" /\ PayerOf(r) = NoWallet
               \/ at'[r] = "wallet" /\ PayerOf(r) # NoWallet
        BY <2>6, DeductFacts DEF committed
      <3>2. CASE at'[r] = "wallet"
        <4>1. PurseOf(r)' /\ ~HasWallet(r)'
          BY <3>1, <3>2 DEF PurseOf, HasWallet
        <4>2. QED
          BY <2>4, <3>1, <4>1
      <3>3. CASE at'[r] # "wallet"
        BY <2>4, <3>1, <3>3, PurseAway
      <3>4. QED
        BY <3>2, <3>3
    <2>7. CASE TakesWallet(r)
      <3> DEFINE w == PayerOf(r)
      <3>1. /\ at[r] = "wallet" /\ ~WalletHeld(r)
            /\ at'[r] = IF Kind[w] = "customer" THEN "limit" ELSE "receipt"
            /\ purse'[r] = balance[w] - Total(r)
            /\ balance' = balance /\ receipts' = receipts
            /\ ~(Kind[w] = "user" /\ balance[w] - Total(r) < 0)
        BY <2>7 DEF TakesWallet, committed, Goto, TypeOK
      <3>2. w \in Wallets /\ w # NoWallet
        BY <2>3, <3>1, RequestFacts DEF PurseOf
      <3>3. balance[w] \in Int /\ Total(r) \in Nat
        BY <3>2, RequestFacts DEF TypeOK
      <3>4. PurseOf(r)'
        BY <3>1, <3>2, <3>3 DEF PurseOf, HasWallet
      <3>5. \A v, m : SpentIn(v, m)' = SpentIn(v, m)
        BY <3>1, ReceiptsStay
      <3>6. \A q \in Requests : q # r /\ HasWallet(q) => PayerOf(q) # PayerOf(r)
        BY <3>1 DEF WalletHeld
      <3>7. QED
        BY <2>2, <3>1, <3>4, <3>5, <3>6
    <2>8. CASE PassesLimits(r)
      <3> DEFINE w == PayerOf(r)
                 m == ModuleOf[ShopOf[Sale(r)]]
      <3>1. /\ at[r] = "limit" /\ at'[r] = "receipt" /\ purse' = purse
            /\ balance' = balance /\ receipts' = receipts
            /\ ~(SpentIn(w, m) + Total(r) > DailyLimit[w][m])
            /\ ~(purse[r] < -Overdraft[w])
        BY <2>8 DEF PassesLimits, committed, local, Goto, TypeOK
      <3>2. w \in Wallets /\ w # NoWallet /\ HasWallet(r)
        BY <2>3, <3>1, RequestFacts DEF PurseOf, HasWallet
      <3>3. /\ SpentIn(w, m) \in Nat /\ Total(r) \in Nat /\ DailyLimit[w][m] \in Nat
            /\ purse[r] \in Int /\ Overdraft[w] \in Nat
        <4>1. m \in Modules /\ Total(r) \in Nat
          BY RequestFacts
        <4>2. DailyLimit[w] \in [Modules -> Nat]
          BY <3>2
        <4>3. DailyLimit[w][m] \in Nat
          BY <4>1, <4>2
        <4>4. SpentIn(w, m) \in Nat
          BY CountsAreNat
        <4>5. QED
          BY <3>2, <4>1, <4>3, <4>4 DEF TypeOK
      <3>4. \A v, n : SpentIn(v, n)' = SpentIn(v, n)
        BY <3>1, ReceiptsStay
      <3>5. SpentIn(w, m) + Total(r) <= DailyLimit[w][m] /\ purse[r] >= -Overdraft[w]
        BY <3>1, <3>3
      <3>6. PurseOf(r)'
        <4>1. SpentIn(w, m)' = SpentIn(w, m)
          BY <3>4
        <4>2. /\ purse[r] = balance[w] - Total(r)
              /\ Kind[w] = "user" => purse[r] >= 0
          BY <2>3, <3>2 DEF PurseOf
        <4>3. QED
          BY <3>1, <3>2, <3>5, <4>1, <4>2 DEF PurseOf
      <3>7. QED
        BY <2>2, <2>3, <3>1, <3>2, <3>4, <3>6
    <2>9. CASE Inserts(r)
      <3> DEFINE m == ModuleOf[ShopOf[Sale(r)]]
      <3>1. /\ at[r] = "receipt" /\ at'[r] = "commit" /\ purse' = purse
            /\ balance' = balance /\ receipts' = receipts
        BY <2>9 DEF Inserts, committed, local, Goto, TypeOK
      <3>2. HasWallet(r)' <=> HasWallet(r)
        BY <3>1 DEF HasWallet
      <3>3. \A v, n : SpentIn(v, n)' = SpentIn(v, n)
        BY <3>1, ReceiptsStay
      <3>4. PurseOf(r)'
        <4>1. SpentIn(PayerOf(r), m)' = SpentIn(PayerOf(r), m)
          BY <3>3
        <4>2. QED
          BY <2>3, <3>1, <3>2, <4>1 DEF PurseOf
      <3>5. QED
        BY <2>2, <2>3, <3>1, <3>2, <3>3, <3>4
    <2>10. CASE Commit(r)
      <3>1. /\ at[r] = "commit" /\ at'[r] = "read"
            /\ \A w \in Wallets :
                 balance'[w] = IF w = PayerOf(r) THEN purse[r] ELSE balance[w]
        BY <2>10, CommitFacts
      <3>2. PurseOf(r)' /\ ~HasWallet(r)'
        BY <3>1, PurseAway
      <3>3. ASSUME NEW q \in Requests, q # r, HasWallet(q)
            PROVE  /\ balance'[PayerOf(q)] = balance[PayerOf(q)]
                   /\ \A m : SpentIn(PayerOf(q), m)' = SpentIn(PayerOf(q), m)
        <4>1. PayerOf(q) \in Wallets /\ PayerOf(q) # PayerOf(r)
          BY <2>3, <3>1, <3>3, RequestFacts DEF HasWallet
        <4>2. ASSUME NEW m
              PROVE  SpentIn(PayerOf(q), m)' = SpentIn(PayerOf(q), m)
          <5>1. SpentIn(PayerOf(q), m)' = SpentIn(PayerOf(q), m) + 0
                /\ SpentIn(PayerOf(q), m) \in Nat
            BY <2>10, <4>1, CommitItems
          <5>2. QED
            BY <5>1
        <4>3. QED
          BY <3>1, <4>1, <4>2
      <3>4. QED
        BY <2>2, <3>2, <3>3
    <2>11. QED
      BY <1>3, <2>5, <2>6, <2>7, <2>8, <2>9, <2>10 DEF StepOf
  <1>4. QED
    BY <1>1, <1>2, <1>3, NextCases

-----------------------------------------------------------------------------
(* The numbers *)

\* The receipts of a shop after a commit.
LEMMA CommitCounts ==
  ASSUME TypeOK, NEW r \in Requests, Commit(r), NEW h
  PROVE  /\ Count(h)' = IF ShopOf[Sale(r)] = h THEN Count(h) + 1 ELSE Count(h)
         /\ Count(h) \in Nat
  <1> DEFINE k == Len(receipts) + 1
             S == ShopReceipts(h)
  <1>1. /\ k \notin DOMAIN receipts
        /\ ShopReceipts(h)' = IF ShopOf[Sale(r)] = h THEN S \cup {k} ELSE S
    BY CommitReceipts
  <1>2. IsFiniteSet(S) /\ Count(h) \in Nat /\ Count(h) = Cardinality(S) /\ k \notin S
    BY <1>1, ReceiptFacts DEF Count, ShopReceipts
  <1> HIDE DEF k, S
  <1>3. CASE ShopOf[Sale(r)] = h
    <2>1. ShopReceipts(h)' = S \cup {k}
      BY <1>1, <1>3
    <2>2. Cardinality(S \cup {k}) = Cardinality(S) + 1
      BY <1>2, FS_AddElement
    <2>3. QED
      BY <1>2, <1>3, <2>1, <2>2 DEF Count
  <1>4. CASE ShopOf[Sale(r)] # h
    <2>1. ShopReceipts(h)' = S
      BY <1>1, <1>4
    <2>2. QED
      BY <1>2, <1>4, <2>1 DEF Count
  <1>5. QED
    BY <1>3, <1>4

\* A commit gives a shop the next number.
LEMMA CommitNumbers ==
  ASSUME TypeOK, NumbersGapless, NumbersAgree, NEW r \in Requests, Commit(r)
  PROVE  /\ NumbersGapless'
         /\ \A h \in Shops : \A n \in 1..Count(h)' :
              \E i \in ShopReceipts(h)' : receipts'[i].number = n
  <1> DEFINE k == Len(receipts) + 1
             g == ShopOf[Sale(r)]
  <1>1. /\ k \notin DOMAIN receipts /\ k \in Nat /\ \A i \in DOMAIN receipts : i < k
        /\ \A i \in DOMAIN receipts : receipts'[i] = receipts[i]
        /\ receipts'[k].number = number[r]
        /\ \A h : ShopReceipts(h)' = IF g = h THEN ShopReceipts(h) \cup {k}
                                     ELSE ShopReceipts(h)
    BY CommitReceipts
  <1>2. \A h : ShopReceipts(h) \subseteq DOMAIN receipts /\ ShopReceipts(h) \subseteq Nat
    BY ReceiptFacts DEF ShopReceipts
  <1>3. number[r] = Count(g) + 1
    BY DEF Commit, NumbersAgree, NumberOf
  <1>4. \A h : /\ Count(h)' = IF g = h THEN Count(h) + 1 ELSE Count(h)
               /\ Count(h) \in Nat
    BY CommitCounts
  <1>5. \A h : \A i \in ShopReceipts(h)' : i = k => g = h
    BY <1>1, <1>2
  <1>6. \A h : \A i \in ShopReceipts(h)' : i = k \/ i \in ShopReceipts(h)
    BY <1>1
  <1>7. \A h : ShopReceipts(h) \subseteq ShopReceipts(h)'
    BY <1>1
  <1>8. k \in ShopReceipts(g)'
    BY <1>1
  <1> HIDE DEF k
  <1>9. ASSUME NEW h \in Shops, NEW i \in ShopReceipts(h)'
        PROVE  receipts'[i].number = Cardinality({j \in ShopReceipts(h)' : j <= i})
    <2>1. CASE i = k
      <3>1. g = h
        BY <1>5, <2>1
      <3>2. \A j \in ShopReceipts(h)' : j <= i
        BY <1>1, <1>2, <1>6, <2>1
      <3>3. {j \in ShopReceipts(h)' : j <= i} = ShopReceipts(h)'
        BY <3>2
      <3>4. QED
        BY <1>1, <1>3, <1>4, <2>1, <3>1, <3>3 DEF Count
    <2>2. CASE i # k
      <3>1. i \in ShopReceipts(h) /\ i \in Nat /\ i < k
        BY <1>1, <1>2, <1>6, <2>2
      <3>2. {j \in ShopReceipts(h)' : j <= i} = {j \in ShopReceipts(h) : j <= i}
        <4>1. \A j \in ShopReceipts(h)' : j <= i => j \in ShopReceipts(h)
          BY <1>1, <1>6, <3>1
        <4>2. QED
          BY <1>7, <4>1
      <3>3. receipts'[i] = receipts[i]
        BY <1>1, <1>2, <3>1
      <3>4. QED
        BY <3>1, <3>2, <3>3 DEF NumbersGapless
    <2>3. QED
      BY <2>1, <2>2
  <1>10. ASSUME NEW h \in Shops, NEW n \in 1..Count(h)'
         PROVE  \E i \in ShopReceipts(h)' : receipts'[i].number = n
    <2>1. Count(h) \in Nat
      BY <1>4
    <2>2. CASE n \in 1..Count(h)
      <3>1. PICK i \in ShopReceipts(h) : receipts[i].number = n
        BY <2>2 DEF NumbersAgree
      <3>2. i \in ShopReceipts(h)' /\ receipts'[i] = receipts[i]
        BY <1>1, <1>2, <1>7, <3>1
      <3>3. QED
        BY <3>1, <3>2
    <2>3. CASE n \notin 1..Count(h)
      <3>1. Count(h)' = IF g = h THEN Count(h) + 1 ELSE Count(h)
        BY <1>4
      <3>2. g = h /\ n = Count(h) + 1
        BY <2>1, <2>3, <3>1
      <3>3. QED
        BY <1>1, <1>3, <1>8, <3>2
    <2>4. QED
      BY <2>2, <2>3
  <1>11. NumbersGapless'
    BY <1>9 DEF NumbersGapless
  <1>12. QED
    BY <1>10, <1>11

\* A number that is free and at most one ahead is the next one.
LEMMA NumberFree ==
  ASSUME TypeOK, NumbersAgree, NEW r \in Requests, at[r] \in InTransaction,
         ~NumberTaken(r)
  PROVE  number[r] = Count(ShopOf[Sale(r)]) + 1
  <1> DEFINE c == Count(ShopOf[Sale(r)])
  <1>1. c \in Nat /\ number[r] \in Nat \ {0} /\ number[r] <= c + 1
    BY ReceiptFacts DEF NumbersAgree, NumberOf, TypeOK
  <1>2. number[r] \notin 1..c
    <2>1. ShopOf[Sale(r)] \in Shops
      BY RequestFacts
    <2>2. \A n \in 1..c : \E i \in ShopReceipts(ShopOf[Sale(r)]) : receipts[i].number = n
      BY <2>1 DEF NumbersAgree
    <2>3. \A i \in ShopReceipts(ShopOf[Sale(r)]) : receipts[i].number # number[r]
      BY DEF NumberTaken, ShopReceipts
    <2> HIDE DEF c
    <2>4. QED
      BY <2>2, <2>3
  <1> HIDE DEF c
  <1>3. number[r] = c + 1
    BY <1>1, <1>2
  <1>4. QED
    BY <1>3 DEF c

\* Every step keeps the numbers of each shop, and one receipt per key.
LEMMA StepNumbers ==
  ASSUME IInv, [Next]_vars
  PROVE  NumbersAgree' /\ NumbersGapless' /\ OneReceiptPerKey'
  <1> TypeOK /\ NumbersAgree /\ NumbersGapless /\ OneReceiptPerKey /\ RowsAgree /\ PursesAgree
    BY DEF IInv
  <1>1. /\ \A q \in Requests : NumberOf(q)
        /\ \A o, q \in Requests :
             /\ at[o] = "commit" /\ at[q] = "commit"
             /\ ShopOf[Sale(o)] = ShopOf[Sale(q)] \/ Sale(o) = Sale(q)
             => o = q
    BY DEF NumbersAgree
  <1>2. \A h : Count(h) \in Nat
    BY ReceiptFacts
  <1>3. ASSUME receipts' = receipts,
               \A q \in Requests : NumberOf(q)',
               \A o, q \in Requests :
                  /\ at'[o] = "commit" /\ at'[q] = "commit"
                  /\ ShopOf[Sale(o)] = ShopOf[Sale(q)] \/ Sale(o) = Sale(q)
                  => o = q
        PROVE  NumbersAgree' /\ NumbersGapless' /\ OneReceiptPerKey'
    <2>1. \A h : ShopReceipts(h)' = ShopReceipts(h) /\ Count(h)' = Count(h)
      BY <1>3, ReceiptsStay
    <2>2. \A h \in Shops : \A n \in 1..Count(h)' :
            \E i \in ShopReceipts(h)' : receipts'[i].number = n
      BY <1>3, <2>1 DEF NumbersAgree
    <2>3. NumbersGapless'
      <3>1. ASSUME NEW h \in Shops, NEW i \in ShopReceipts(h)'
            PROVE  receipts'[i].number = Cardinality({j \in ShopReceipts(h)' : j <= i})
        <4>1. ShopReceipts(h)' = ShopReceipts(h)
          BY <2>1
        <4>2. receipts[i].number = Cardinality({j \in ShopReceipts(h) : j <= i})
          <5>1. i \in ShopReceipts(h)
            BY <4>1
          <5>2. QED
            BY <5>1 DEF NumbersGapless
        <4>3. {j \in ShopReceipts(h)' : j <= i} = {j \in ShopReceipts(h) : j <= i}
          BY <4>1
        <4>4. QED
          BY <1>3, <4>2, <4>3
      <3>2. QED
        BY <3>1 DEF NumbersGapless
    <2>4. QED
      BY <1>3, <2>2, <2>3 DEF NumbersAgree, OneReceiptPerKey
  <1>4. ASSUME receipts' = receipts, NEW q \in Requests,
               number'[q] = number[q] \/ number'[q] = 0,
               at'[q] = "commit" => at[q] = "commit" /\ number'[q] = number[q]
        PROVE  NumberOf(q)'
    <2>1. /\ Count(ShopOf[Sale(q)])' = Count(ShopOf[Sale(q)])
          /\ KeyTaken(q)' = KeyTaken(q)
      BY <1>4, ReceiptsStay
    <2>2. Count(ShopOf[Sale(q)]) \in Nat
      BY <1>2
    <2>3. QED
      BY <1>1, <1>4, <2>1, <2>2 DEF NumberOf
  <1>5. ASSUME receipts' = receipts,
               \A q \in Requests :
                 /\ number'[q] = number[q] \/ number'[q] = 0
                 /\ at'[q] = "commit" => at[q] = "commit" /\ number'[q] = number[q]
        PROVE  NumbersAgree' /\ NumbersGapless' /\ OneReceiptPerKey'
    <2>1. \A q \in Requests : NumberOf(q)'
      BY <1>4, <1>5
    <2>2. QED
      BY <1>3, <1>5, <2>1 DEF NumbersAgree
  <1>6. CASE UNCHANGED vars
    BY <1>5, <1>6 DEF vars, committed, local
  <1>7. CASE Crash
    <2>1. receipts' = receipts
          /\ \A q \in Requests : number'[q] = 0 /\ at'[q] # "commit"
      BY <1>7 DEF Crash, committed
    <2>2. QED
      BY <1>5, <2>1
  <1>8. ASSUME NEW r \in Requests, StepOf(r)
        PROVE  NumbersAgree' /\ NumbersGapless' /\ OneReceiptPerKey'
    <2>1. \A q \in Requests : q # r => at'[q] = at[q] /\ number'[q] = number[q]
      BY <1>8, OthersStay
    <2>2. ASSUME receipts' = receipts, at'[r] # "commit",
                 number'[r] = number[r] \/ number'[r] = 0
          PROVE  NumbersAgree' /\ NumbersGapless' /\ OneReceiptPerKey'
      BY <1>5, <2>1, <2>2
    <2>3. CASE Outside(r)
      <3>1. receipts' = receipts /\ number' = number /\ at'[r] # "commit"
        BY <2>3, OutsideFacts DEF committed, local, InTransaction
      <3>2. QED
        BY <2>2, <3>1
    <2>4. CASE LockProduct(r)
      <3>1. receipts' = receipts /\ number' = number /\ at'[r] # "commit"
        BY <2>4, LockFacts DEF committed
      <3>2. QED
        BY <2>2, <3>1
    <2>5. CASE Deduct(r)
      <3>1. receipts' = receipts /\ number' = number /\ at'[r] # "commit"
        BY <2>5, DeductFacts DEF committed
      <3>2. QED
        BY <2>2, <3>1
    <2>6. CASE TakesWallet(r) \/ PassesLimits(r)
      <3>1. receipts' = receipts /\ number' = number
        BY <2>6, PassFacts DEF committed
      <3>2. at'[r] # "commit"
        BY <2>6 DEF TakesWallet, PassesLimits, Goto, TypeOK
      <3>3. QED
        BY <2>2, <3>1, <3>2
    <2>7. CASE Throws(r)
      <3>1. receipts' = receipts /\ number'[r] = 0 /\ at'[r] # "commit"
        BY <2>7, ThrowsFacts, ForgetFacts DEF committed
      <3>2. QED
        BY <2>2, <3>1
    <2>8. CASE Begin(r)
      <3> DEFINE h == ShopOf[Sale(r)]
      <3>1. /\ receipts' = receipts /\ at'[r] = "items"
            /\ number'[r] = Count(h) + 1
        <4>1. NextNumber(h) = Count(h) + 1
          BY RequestFacts, NextNumberFacts
        <4>2. QED
          BY <2>8, <4>1 DEF Begin, committed, Goto, TypeOK
      <3>2. Count(h)' = Count(h) /\ Count(h) \in Nat
        BY <1>2, <3>1, ReceiptsStay
      <3>3. NumberOf(r)'
        BY <3>1, <3>2 DEF NumberOf
      <3>4. \A q \in Requests : NumberOf(q)'
        BY <1>4, <2>1, <3>1, <3>3
      <3>5. \A o, q \in Requests :
              /\ at'[o] = "commit" /\ at'[q] = "commit"
              /\ ShopOf[Sale(o)] = ShopOf[Sale(q)] \/ Sale(o) = Sale(q)
              => o = q
        <4>1. \A q \in Requests : at'[q] = "commit" => at[q] = "commit"
          BY <2>1, <3>1
        <4>2. QED
          BY <1>1, <4>1
      <3>6. QED
        BY <1>3, <3>1, <3>4, <3>5
    <2>9. CASE Inserts(r)
      <3> DEFINE h == ShopOf[Sale(r)]
      <3>1. /\ receipts' = receipts /\ number' = number
            /\ at[r] = "receipt" /\ at'[r] = "commit"
            /\ ~InsertWaits(r) /\ ~NumberTaken(r) /\ ~KeyTaken(r)
        BY <2>9 DEF Inserts, committed, local, Goto, TypeOK
      <3>2. number[r] = Count(h) + 1
        BY <3>1, NumberFree DEF InTransaction
      <3>3. Count(h)' = Count(h) /\ Count(h) \in Nat /\ KeyTaken(r)' = KeyTaken(r)
        BY <1>2, <3>1, ReceiptsStay
      <3>4. NumberOf(r)'
        BY <3>1, <3>2, <3>3 DEF NumberOf
      <3>5. \A q \in Requests : NumberOf(q)'
        BY <1>4, <2>1, <3>1, <3>4
      <3>6. ASSUME NEW q \in Requests, q # r, at[q] = "commit"
            PROVE  ShopOf[Sale(q)] # h /\ Sale(q) # Sale(r)
        <4>1. number[q] = Count(ShopOf[Sale(q)]) + 1
          BY <1>1, <3>6 DEF NumberOf
        <4>2. ~SameNumber(r, q) /\ Sale(r) # Sale(q)
          BY <3>1, <3>6 DEF InsertWaits
        <4>3. QED
          BY <3>2, <4>1, <4>2 DEF SameNumber
      <3>7. \A o, q \in Requests :
              /\ at'[o] = "commit" /\ at'[q] = "commit"
              /\ ShopOf[Sale(o)] = ShopOf[Sale(q)] \/ Sale(o) = Sale(q)
              => o = q
        <4>1. \A q \in Requests : q # r /\ at'[q] = "commit" =>
                ShopOf[Sale(q)] # h /\ Sale(q) # Sale(r)
          BY <2>1, <3>6
        <4>2. \A o, q \in Requests :
                /\ o # r /\ q # r /\ at'[o] = "commit" /\ at'[q] = "commit"
                /\ ShopOf[Sale(o)] = ShopOf[Sale(q)] \/ Sale(o) = Sale(q)
                => o = q
          BY <2>1 DEF NumbersAgree
        <4>3. QED
          BY <4>1, <4>2
      <3>8. QED
        BY <1>3, <3>1, <3>5, <3>7
    <2>10. CASE Commit(r)
      <3> DEFINE h == ShopOf[Sale(r)]
                 k == Len(receipts) + 1
      <3>1. /\ NumbersGapless'
            /\ \A g \in Shops : \A n \in 1..Count(g)' :
                 \E i \in ShopReceipts(g)' : receipts'[i].number = n
        BY <2>10, CommitNumbers
      <3>2. at[r] = "commit" /\ at'[r] = "read" /\ number'[r] = 0 /\ ~KeyTaken(r)
        BY <1>1, <2>10, CommitFacts, ForgetFacts DEF NumberOf
      <3>3. \A g : /\ Count(g)' = IF h = g THEN Count(g) + 1 ELSE Count(g)
                   /\ Count(g) \in Nat
        BY <2>10, CommitCounts
      <3>4. /\ DOMAIN receipts' = DOMAIN receipts \cup {k} /\ k \notin DOMAIN receipts
            /\ \A i \in DOMAIN receipts : receipts'[i] = receipts[i]
            /\ receipts'[k].by = r
        BY <2>10, CommitReceipts
      <3>5. OneReceiptPerKey'
        <4>1. \A i \in DOMAIN receipts : Sale(receipts[i].by) # Sale(r)
          BY <3>2 DEF KeyTaken
        <4>2. QED
          BY <3>4, <4>1 DEF OneReceiptPerKey
      <3>6. ASSUME NEW q \in Requests
            PROVE  NumberOf(q)'
        <4>1. Count(ShopOf[Sale(q)])' >= Count(ShopOf[Sale(q)])
              /\ Count(ShopOf[Sale(q)]) \in Nat /\ Count(ShopOf[Sale(q)])' \in Nat
          <5> DEFINE g == ShopOf[Sale(q)]
          <5>1. /\ Count(g)' = Count(g) + 1 \/ Count(g)' = Count(g)
                /\ Count(g) \in Nat
            BY <3>3
          <5>2. QED
            BY <5>1
        <4>2. number'[q] <= Count(ShopOf[Sale(q)])' + 1
          <5>1. number'[q] = 0 \/ number'[q] = number[q]
            BY <2>1, <3>2
          <5>2. number[q] <= Count(ShopOf[Sale(q)]) + 1 /\ number[q] \in Nat
            BY <1>1 DEF NumberOf, TypeOK
          <5>3. QED
            BY <4>1, <5>1, <5>2
        <4>3. ASSUME at'[q] = "commit"
              PROVE  number'[q] = Count(ShopOf[Sale(q)])' + 1 /\ ~KeyTaken(q)'
          <5>1. q # r /\ at[q] = "commit" /\ number'[q] = number[q]
            BY <2>1, <3>2, <4>3
          <5>2. ShopOf[Sale(q)] # h /\ Sale(q) # Sale(r)
            BY <3>2, <5>1 DEF NumbersAgree
          <5>3. number[q] = Count(ShopOf[Sale(q)]) + 1 /\ ~KeyTaken(q)
            BY <1>1, <5>1 DEF NumberOf
          <5>4. Count(ShopOf[Sale(q)])' = Count(ShopOf[Sale(q)])
            BY <3>3, <5>2
          <5>5. ~KeyTaken(q)'
            BY <3>4, <5>2, <5>3 DEF KeyTaken
          <5>6. QED
            BY <5>1, <5>3, <5>4, <5>5
        <4>4. QED
          BY <4>2, <4>3 DEF NumberOf
      <3>7. \A o, q \in Requests :
              /\ at'[o] = "commit" /\ at'[q] = "commit"
              /\ ShopOf[Sale(o)] = ShopOf[Sale(q)] \/ Sale(o) = Sale(q)
              => o = q
        <4>1. \A q \in Requests : at'[q] = "commit" => at[q] = "commit"
          BY <2>1, <3>2
        <4>2. QED
          BY <1>1, <4>1
      <3>8. QED
        BY <3>1, <3>5, <3>6, <3>7 DEF NumbersAgree
    <2>11. QED
      BY <1>8, <2>3, <2>4, <2>5, <2>6, <2>7, <2>8, <2>9, <2>10 DEF StepOf
  <1>9. QED
    BY <1>6, <1>7, <1>8, NextCases

-----------------------------------------------------------------------------
(* The books *)

\* Every step keeps stock and balances what the receipts say, and the limits.
LEMMA StepBooks ==
  ASSUME IInv, [Next]_vars
  PROVE  BooksMatchReceipts' /\ LimitsHold' /\ TotalsAgree'
  <1> TypeOK /\ RowsAgree /\ PursesAgree /\ BooksMatchReceipts /\ LimitsHold /\ TotalsAgree
    BY DEF IInv
  <1>1. ASSUME committed' = committed
        PROVE  BooksMatchReceipts' /\ LimitsHold' /\ TotalsAgree'
    <2>1. /\ \A p : Sold(p)' = Sold(p)
          /\ \A w : Paid(w)' = Paid(w)
          /\ \A w, m : SpentIn(w, m)' = SpentIn(w, m)
          /\ ReceiptRange' = ReceiptRange
          /\ stock' = stock /\ balance' = balance
      BY <1>1, ReceiptsStay DEF committed
    <2>2. BooksMatchReceipts'
      BY <2>1 DEF BooksMatchReceipts
    <2>3. LimitsHold'
      BY <2>1 DEF LimitsHold
    <2>4. TotalsAgree'
      BY <2>1 DEF TotalsAgree
    <2>5. QED
      BY <2>2, <2>3, <2>4
  <1>2. ASSUME NEW r \in Requests, Commit(r)
        PROVE  BooksMatchReceipts' /\ LimitsHold' /\ TotalsAgree'
    <2> DEFINE v == PayerOf(r)
               n == ModuleOf[ShopOf[Sale(r)]]
    <2>1. /\ \A p \in Products : stock'[p] = View(r, p)
          /\ \A w \in Wallets :
               balance'[w] = IF w = v THEN purse[r] ELSE balance[w]
          /\ at[r] = "commit"
      BY <1>2, CommitFacts
    <2>2. /\ \A p : Sold(p)' = Sold(p) + Cardinality({i \in 1..Total(r) : Cart[Sale(r)][i] = p})
          /\ \A w : Paid(w)' = Paid(w) + (IF v = w THEN Total(r) ELSE 0)
          /\ \A w, m : SpentIn(w, m)' =
                         SpentIn(w, m) + (IF v = w /\ n = m THEN Total(r) ELSE 0)
      BY <1>2, CommitItems
    <2>3. /\ \A p : Sold(p) \in Nat
          /\ \A w : Paid(w) \in Nat
          /\ \A w, m : SpentIn(w, m) \in Nat
      BY CountsAreNat
    <2>4. Total(r) \in Nat \ {0} /\ Total(r) = Len(Cart[Sale(r)])
      BY RequestFacts
    <2>5. RowsOf(r) /\ PurseOf(r)
      BY DEF RowsAgree, PursesAgree
    <2>6. done[r] = Total(r) /\ Scanned(r) = done[r] /\ done[r] \in Nat
      BY <2>1, <2>4, <2>5 DEF RowsOf, Scanned, InTransaction
    <2>7. v \in Wallets =>
            /\ purse[r] = balance[v] - Total(r)
            /\ Kind[v] = "user" => purse[r] >= 0
            /\ Kind[v] = "customer" =>
                 /\ SpentIn(v, n) + Total(r) <= DailyLimit[v][n]
                 /\ purse[r] >= -Overdraft[v]
      BY <2>1, <2>5 DEF PurseOf, HasWallet
    <2>8. \A p \in Products : stock'[p] = stock[p] - Taken(r, p)
      <3>1. ASSUME NEW p \in Products
            PROVE  stock'[p] = stock[p] - Taken(r, p)
        <4>1. stock'[p] = View(r, p)
          BY <2>1
        <4>2. CASE p \in DOMAIN rows[r]
          BY <2>5, <4>1, <4>2 DEF RowsOf, View
        <4>3. CASE p \notin DOMAIN rows[r]
          <5>1. \A i \in 1..done[r] : Cart[Sale(r)][i] # p
            BY <2>5, <2>6, <4>3 DEF RowsOf
          <5>2. Taken(r, p) = 0 /\ stock[p] \in Int
            BY <5>1, TakenFacts DEF TypeOK
          <5>3. QED
            BY <4>1, <4>3, <5>2 DEF View
        <4>4. QED
          BY <4>2, <4>3
      <3>2. QED
        BY <3>1
    <2>9. \A p : Sold(p)' = Sold(p) + Taken(r, p) /\ Taken(r, p) \in Nat
      <3>1. ASSUME NEW p
            PROVE  Sold(p)' = Sold(p) + Taken(r, p) /\ Taken(r, p) \in Nat
        <4>1. Taken(r, p) = Cardinality({i \in 1..done[r] : Cart[Sale(r)][i] = p})
          BY DEF Taken
        <4>2. Taken(r, p) = Cardinality({i \in 1..Total(r) : Cart[Sale(r)][i] = p})
          BY <2>6, <4>1
        <4>3. QED
          BY <2>2, <4>2, TakenFacts
      <3>2. QED
        BY <3>1
    <2> HIDE DEF v, n
    <2>10. BooksMatchReceipts'
      <3>1. ASSUME NEW p \in Products
            PROVE  stock'[p] = OpeningStock[p] - Sold(p)'
        <4>1. stock[p] = OpeningStock[p] - Sold(p) /\ OpeningStock[p] \in Int
          BY DEF BooksMatchReceipts
        <4>2. Sold(p)' = Sold(p) + Taken(r, p) /\ Taken(r, p) \in Nat /\ Sold(p) \in Nat
          BY <2>3, <2>9
        <4>3. stock'[p] = stock[p] - Taken(r, p)
          BY <2>8
        <4>4. QED
          BY <4>1, <4>2, <4>3
      <3>2. ASSUME NEW w \in Wallets
            PROVE  balance'[w] = OpeningBalance[w] - Paid(w)'
        <4>1. balance[w] = OpeningBalance[w] - Paid(w) /\ OpeningBalance[w] \in Int
          BY DEF BooksMatchReceipts
        <4>2. Paid(w)' = Paid(w) + (IF v = w THEN Total(r) ELSE 0) /\ Paid(w) \in Nat
          BY <2>2, <2>3
        <4>3. QED
          BY <2>1, <2>4, <2>7, <4>1, <4>2
      <3>3. QED
        BY <3>1, <3>2 DEF BooksMatchReceipts
    <2>11. LimitsHold'
      <3>1. ASSUME NEW w \in Wallets, Kind[w] = "customer", NEW m \in Modules
            PROVE  SpentIn(w, m)' <= DailyLimit[w][m]
        <4>1. SpentIn(w, m) <= DailyLimit[w][m] /\ SpentIn(w, m) \in Nat
          BY <2>3, <3>1 DEF LimitsHold
        <4>2. SpentIn(w, m)' = SpentIn(w, m) + (IF v = w /\ n = m THEN Total(r) ELSE 0)
          BY <2>2
        <4>3. QED
          BY <2>4, <2>7, <3>1, <4>1, <4>2
      <3>2. ASSUME NEW w \in Wallets,
                   \/ Kind[w] = "customer" /\ balance'[w] < -Overdraft[w]
                   \/ Kind[w] = "user" /\ balance'[w] < 0
            PROVE  balance'[w] = OpeningBalance[w]
        <4>1. w # v
          <5>1. SUFFICES ASSUME w = v
                         PROVE  FALSE
            OBVIOUS
          <5>2. purse[r] \in Int /\ Overdraft[w] \in Nat /\ balance'[w] = purse[r]
            BY <2>1, <5>1 DEF TypeOK
          <5>3. QED
            BY <2>7, <3>2, <5>1, <5>2
        <4>2. balance'[w] = balance[w]
          BY <2>1, <4>1
        <4>3. QED
          BY <3>2, <4>2 DEF LimitsHold
      <3>3. QED
        BY <3>1, <3>2 DEF LimitsHold
    <2>12. TotalsAgree'
      BY <1>2, CommitReceipts DEF TotalsAgree
    <2>13. QED
      BY <2>10, <2>11, <2>12
  <1>3. CASE Crash
    BY <1>1, <1>3 DEF Crash
  <1>4. CASE UNCHANGED vars
    BY <1>1, <1>4 DEF vars
  <1>5. ASSUME NEW r \in Requests, StepOf(r), ~Commit(r)
        PROVE  committed' = committed
    <2>1. CASE Outside(r)
      BY <2>1, OutsideFacts
    <2>2. CASE Begin(r) \/ LockProduct(r) \/ Deduct(r)
      BY <2>2 DEF Begin, LockProduct, Deduct
    <2>3. CASE TakesWallet(r) \/ PassesLimits(r) \/ Inserts(r) \/ Throws(r)
      BY <2>3 DEF TakesWallet, PassesLimits, Inserts, Throws, Rollback
    <2>4. QED
      BY <1>5, <2>1, <2>2, <2>3 DEF StepOf
  <1>6. QED
    BY <1>1, <1>2, <1>3, <1>4, <1>5, NextCases

-----------------------------------------------------------------------------
(* The log and the answers *)

\* Every step keeps what the place of a request says of its receipt.
LEMMA StepPoints ==
  ASSUME IInv, [Next]_vars
  PROVE  PointsAgree' /\ LogAgrees'
  <1> TypeOK /\ PointsAgree /\ LogAgrees /\ RowsAgree /\ PursesAgree
    BY DEF IInv
  <1> DEFINE Logged(q) ==
               /\ log[q] = "success" \/ answer[q] = "receipt" => Receipted(q)
               /\ log[q] = "failed" \/ answer[q] = "error" => ~Receipted(q) \/ q \in lostReads
  <1>1. \A q \in Requests : PointOf(q) /\ Logged(q)
    BY DEF PointsAgree, LogAgrees, Receipted
  <1>2. ASSUME \A q \in Requests : PointOf(q)' /\ Logged(q)'
        PROVE  PointsAgree' /\ LogAgrees'
    BY <1>2 DEF PointsAgree, LogAgrees, Receipted
  <1>3. ASSUME NEW q \in Requests, at'[q] = at[q], log'[q] = log[q], answer'[q] = answer[q],
               Receipted(q)' = Receipted(q), lostReads \subseteq lostReads'
        PROVE  PointOf(q)' /\ Logged(q)'
    BY <1>1, <1>3 DEF PointOf
  <1>4. CASE UNCHANGED vars
    <2>1. \A q \in Requests : Receipted(q)' = Receipted(q)
      BY <1>4, ReceiptsStay DEF vars, committed
    <2>2. \A q \in Requests : PointOf(q)' /\ Logged(q)'
      BY <1>3, <1>4, <2>1 DEF vars
    <2>3. QED
      BY <1>2, <2>2
  <1>5. CASE Crash
    <2>1. /\ \A q \in Requests : Receipted(q)' = Receipted(q)
          /\ log' = log /\ answer' = answer /\ lostReads' = lostReads
      BY <1>5, ReceiptsStay DEF Crash, committed
    <2>2. \A q \in Requests : at'[q] \in {"ended", at[q]}
      BY <1>5 DEF Crash
    <2>3. ASSUME NEW q \in Requests
          PROVE  PointOf(q)' /\ Logged(q)'
      <3>1. CASE at'[q] = at[q]
        BY <1>3, <2>1, <3>1
      <3>2. CASE at'[q] = "ended"
        BY <1>1, <2>1, <3>2 DEF PointOf, InTransaction
      <3>3. QED
        BY <2>2, <3>1, <3>2
    <2>4. QED
      BY <1>2, <2>3
  <1>6. ASSUME NEW r \in Requests, StepOf(r)
        PROVE  PointsAgree' /\ LogAgrees'
    <2>1. \A q \in Requests : q # r => at'[q] = at[q] /\ log'[q] = log[q]
                                       /\ answer'[q] = answer[q]
      BY <1>6, OthersStay
    <2>2. PointOf(r) /\ Logged(r)
      BY <1>1
    <2>3. ASSUME \A q \in Requests : q # r => Receipted(q)' = Receipted(q),
                 lostReads \subseteq lostReads', PointOf(r)', Logged(r)'
          PROVE  PointsAgree' /\ LogAgrees'
      <3>1. \A q \in Requests : PointOf(q)' /\ Logged(q)'
        BY <1>3, <2>1, <2>3
      <3>2. QED
        BY <1>2, <3>1
    <2>4. ASSUME receipts' = receipts
          PROVE  \A q \in Requests : Receipted(q)' = Receipted(q)
      BY <2>4, ReceiptsStay
    <2>5. CASE Send(r)
      <3>1. /\ at[r] = "unsent" /\ at'[r] = "log" /\ receipts' = receipts
            /\ log' = log /\ answer' = answer /\ lostReads' = lostReads
        BY <2>5 DEF Send, Goto, TypeOK, committed
      <3>2. PointOf(r)' /\ Logged(r)'
        BY <2>2, <2>4, <3>1 DEF PointOf, InTransaction
      <3>3. QED
        BY <2>3, <2>4, <3>1, <3>2
    <2>6. CASE StartLog(r)
      <3>1. /\ at[r] = "log" /\ at'[r] = "begin" /\ receipts' = receipts
            /\ log'[r] = log[r] \/ log'[r] = "pending"
            /\ answer' = answer /\ lostReads' = lostReads
        BY <2>6 DEF StartLog, Goto, TypeOK, committed
      <3>2. PointOf(r)' /\ Logged(r)'
        BY <2>2, <2>4, <3>1 DEF PointOf, InTransaction
      <3>3. QED
        BY <2>3, <2>4, <3>1, <3>2
    <2>7. CASE ReadReceipt(r)
      <3>1. /\ at[r] = "read" /\ receipts' = receipts
            /\ \/ at'[r] = "log_success" /\ lostReads' = lostReads
               \/ at'[r] = "log_failed" /\ lostReads' = lostReads \cup {r}
            /\ log' = log /\ answer' = answer
        BY <2>7 DEF ReadReceipt, Goto, TypeOK, committed
      <3>2. PointOf(r)' /\ Logged(r)'
        BY <2>2, <2>4, <3>1 DEF PointOf, InTransaction
      <3>3. QED
        BY <2>3, <2>4, <3>1, <3>2
    <2>8. CASE Finish(r)
      <3>1. /\ receipts' = receipts /\ at'[r] = "ended" /\ lostReads' = lostReads
            /\ \/ /\ at[r] = "log_success"
                  /\ log'[r] \in {log[r], "success"} /\ answer'[r] = "receipt"
               \/ /\ at[r] = "log_failed"
                  /\ log'[r] \in {log[r], "failed"} /\ answer'[r] = "error"
        BY <2>8 DEF Finish, Goto, TypeOK, committed
      <3>2. PointOf(r)' /\ Logged(r)'
        BY <2>2, <2>4, <3>1 DEF PointOf, InTransaction
      <3>3. QED
        BY <2>3, <2>4, <3>1, <3>2
    <2>9. CASE ~Outside(r) /\ ~Commit(r)
      <3>1. /\ receipts' = receipts /\ log' = log /\ answer' = answer
            /\ lostReads' = lostReads
            /\ at[r] \in InTransaction \cup {"begin"}
            /\ at'[r] \in InTransaction \cup {"log_failed"}
        <4>1. CASE Begin(r)
          BY <4>1 DEF Begin, Goto, TypeOK, committed, InTransaction
        <4>2. CASE LockProduct(r)
          BY <4>2, LockFacts DEF committed, InTransaction
        <4>3. CASE Deduct(r)
          BY <4>3, DeductFacts DEF committed, InTransaction
        <4>4. CASE TakesWallet(r) \/ PassesLimits(r) \/ Inserts(r)
          BY <4>4, PassFacts DEF committed, InTransaction
        <4>5. CASE Throws(r)
          BY <4>5, ThrowsFacts DEF committed
        <4>6. QED
          BY <1>6, <2>9, <4>1, <4>2, <4>3, <4>4, <4>5 DEF StepOf
      <3>2. PointOf(r)' /\ Logged(r)'
        BY <2>2, <2>4, <3>1 DEF PointOf, InTransaction
      <3>3. QED
        BY <2>3, <2>4, <3>1, <3>2
    <2>10. CASE Commit(r)
      <3> DEFINE k == Len(receipts) + 1
      <3>1. /\ at[r] = "commit" /\ at'[r] = "read"
            /\ log' = log /\ answer' = answer /\ lostReads' = lostReads
        BY <2>10, CommitFacts
      <3>2. /\ \A x \in ReceiptRange' : x \in ReceiptRange \/ x = receipts'[k]
            /\ receipts'[k] \in ReceiptRange' /\ ReceiptRange \subseteq ReceiptRange'
            /\ receipts'[k].by = r
        BY <2>10, CommitReceipts
      <3>3. Receipted(r)' /\ \A q \in Requests : q # r => Receipted(q)' = Receipted(q)
        BY <3>2 DEF Receipted
      <3>4. PointOf(r)' /\ Logged(r)'
        BY <2>2, <3>1, <3>3 DEF PointOf, InTransaction
      <3>5. QED
        BY <2>3, <3>1, <3>3, <3>4
    <2>11. QED
      BY <1>6, <2>5, <2>6, <2>7, <2>8, <2>9, <2>10 DEF StepOf, Outside
  <1>7. QED
    BY <1>4, <1>5, <1>6, NextCases

-----------------------------------------------------------------------------
(* The theorems *)

\* The invariant holds at first: nothing is sold, and nobody is in the shop.
LEMMA InitIInv ==
  ASSUME Init
  PROVE  IInv
  <1>1. /\ stock = OpeningStock /\ balance = OpeningBalance
        /\ receipts = <<>> /\ DOMAIN receipts = {} /\ ReceiptRange = {}
        /\ \A q \in Requests :
             /\ log[q] = "none" /\ answer[q] = "none" /\ at[q] = "unsent"
             /\ done[q] = 0 /\ number[q] = 0 /\ purse[q] = 0 /\ DOMAIN rows[q] = {}
    BY DEF Init, ReceiptRange
  <1>2. TypeOK
    <2>1. \A q \in Requests : rows[q] = <<>> /\ <<>> \in [{} -> Int]
      BY DEF Init
    <2>2. \A q \in Requests : \E S \in SUBSET Products : rows[q] \in [S -> Int]
      BY <2>1
    <2>3. rows = [q \in Requests |-> rows[q]]
      BY DEF Init
    <2>4. receipts \in Seq(Receipt)
      BY <1>1
    <2>5. stock \in [Products -> Int] /\ balance \in [Wallets -> Int]
      BY DEF Init
    <2>6. /\ log \in [Requests -> {"none", "pending", "success", "failed"}]
          /\ answer \in [Requests -> {"none", "receipt", "error"}]
          /\ at \in [Requests -> Points]
          /\ done \in [Requests -> Nat] /\ number \in [Requests -> Nat]
          /\ purse \in [Requests -> Int]
      BY DEF Init, Points
    <2>7. \A q \in Requests : number[q] = 0 <=> at[q] \notin InTransaction
      BY <1>1 DEF InTransaction
    <2>8. faults \in 0..MaxFaults /\ lostReads \subseteq Requests
      BY DEF Init
    <2>9. QED
      BY <2>2, <2>3, <2>4, <2>5, <2>6, <2>7, <2>8 DEF TypeOK
  <1>3. RowsAgree
    <2>1. ASSUME NEW q \in Requests
          PROVE  RowsOf(q)
      <3>1. Scanned(q) = 0
        BY <1>1 DEF Scanned
      <3>2. {Cart[Sale(q)][n] : n \in 1..Scanned(q)} = {}
        BY <3>1
      <3>3. QED
        BY <1>1, <3>2 DEF RowsOf, InTransaction
    <2>2. QED
      BY <1>1, <2>1 DEF RowsAgree, LockedBy
  <1>4. PursesAgree
    BY <1>1 DEF PursesAgree, PurseOf, HasWallet
  <1>5. \A h : ShopReceipts(h) = {} /\ Count(h) = 0
    BY <1>1, FS_EmptySet DEF ShopReceipts, Count
  <1>6. NumbersAgree /\ NumbersGapless /\ OneReceiptPerKey
    BY <1>1, <1>5 DEF NumbersAgree, NumberOf, NumbersGapless, OneReceiptPerKey
  <1>7. PointsAgree /\ LogAgrees /\ TotalsAgree
    BY <1>1 DEF PointsAgree, PointOf, Receipted, LogAgrees, TotalsAgree
  <1>8. ItemsSold = {}
    BY <1>1 DEF ItemsSold
  <1>9. /\ \A p : Sold(p) = 0
        /\ \A w : Paid(w) = 0
        /\ \A w, m : SpentIn(w, m) = 0
    <2>1. \A S \in SUBSET ItemsSold : Cardinality(S) = 0
      BY <1>8, FS_EmptySet
    <2>2. QED
      BY <2>1 DEF Sold, Paid, SpentIn
  <1>10. BooksMatchReceipts
    BY <1>1, <1>9 DEF BooksMatchReceipts
  <1>11. LimitsHold
    BY <1>1, <1>9 DEF LimitsHold
  <1>12. QED
    BY <1>2, <1>3, <1>4, <1>6, <1>7, <1>10, <1>11 DEF IInv

\* Every step keeps the invariant.
LEMMA StepIInv ==
  ASSUME IInv, [Next]_vars
  PROVE  IInv'
  BY StepTypeOK, StepRows, StepPurses, StepNumbers, StepPoints, StepBooks DEF IInv

\* The conjunction of the invariants below, with what they rest on, holds in every
\* state of the checkout.
THEOREM Invariance == Spec => []IInv
  <1>1. Init => IInv
    BY InitIInv
  <1>2. IInv /\ [Next]_vars => IInv'
    BY StepIInv
  <1>3. QED
    BY <1>1, <1>2, PTL DEF Spec

\* Every variable of the checkout keeps its type.
THEOREM TypeCorrect == Spec => []TypeOK
  <1>1. IInv => TypeOK
    BY DEF IInv
  <1>2. QED
    BY <1>1, Invariance, PTL

\* Stock and wallets are always what the committed receipts say.
THEOREM BooksAlwaysMatch == Spec => []BooksMatchReceipts
  <1>1. IInv => BooksMatchReceipts
    BY DEF IInv
  <1>2. QED
    BY <1>1, Invariance, PTL

\* No idempotency key ever makes two receipts.
THEOREM KeysSellOnce == Spec => []OneReceiptPerKey
  <1>1. IInv => OneReceiptPerKey
    BY DEF IInv
  <1>2. QED
    BY <1>1, Invariance, PTL

\* The receipts of every shop are numbered from 1 without a gap, in commit order.
THEOREM NumbersAreGapless == Spec => []NumbersGapless
  <1>1. IInv => NumbersGapless
    BY DEF IInv
  <1>2. QED
    BY <1>1, Invariance, PTL

\* No customer spends more than the daily limit of a module, no purchase takes a
\* wallet beyond its overdraft.
THEOREM LimitsAlwaysHold == Spec => []LimitsHold
  <1>1. IInv => LimitsHold
    BY DEF IInv
  <1>2. QED
    BY <1>1, Invariance, PTL

\* The attempt log and the till's answer always agree with the receipts.
THEOREM LogAlwaysAgrees == Spec => []LogAgrees
  <1>1. IInv => LogAgrees
    BY DEF IInv
  <1>2. QED
    BY <1>1, Invariance, PTL
=============================================================================
