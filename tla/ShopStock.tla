----------------------------- MODULE ShopStock -----------------------------
(***************************************************************************)
(* The stock of a shop's products in backend-bun/src/services: receiving   *)
(* and adjusting (shop_product_service.ts), what a sale, a void and a      *)
(* return do to a product (pos_checkout_service.ts, pos_service.ts,        *)
(* returns_service.ts), the lots of a FIFO product (inventory_fifo.ts) and *)
(* the month close (close_month_service.ts).                               *)
(*                                                                         *)
(* tx[w] is a transaction that has begun and waits for its product's row;  *)
(* with the row locked, reading, writing and committing are one step, as   *)
(* nothing else can come between.  A confirmation of the close does read   *)
(* without the lock, so each of its steps is an action.  Transactions over *)
(* several products are the subject of PosCheckout and ReceiptReversal.    *)
(***************************************************************************)
EXTENDS FifoLots, FiniteSets

CONSTANTS
  Products,
  FifoProducts,   \* those of a shop of type fifo, the others are avg_cost
  Workers, Confirmers,
  Menu,           \* the changes asked for: [kind, product, quantity, cost]
  NoCost,         \* an adjustment without cost_per_unit
  Uncounted,      \* physical_qty is null
  Counts,         \* the quantities counted
  ItemOrder,      \* the products by name
  OpeningCost,    \* the avg_cost the products are created with
  MaxChanges,     \* bound on transactions begun
  MaxCounts,      \* bound on counts entered
  MaxEvents       \* bound on midnights and crashes together

Kinds == {"receive", "adjust", "sale", "void"}
Change == [kind : Kinds, product : Products, quantity : Int \ {0}, cost : Nat \cup {NoCost}]

ASSUME ConstantsAssumption ==
  /\ FifoProducts \subseteq Products
  /\ Menu \subseteq Change
  /\ \A m \in Menu : m.kind = "receive" => m.cost \in Nat
  /\ NoCost \notin Nat /\ Uncounted \notin Nat
  /\ Counts \subseteq Nat
  /\ \A p \in Products : OpeningCost[p] \in Nat
  /\ ItemOrder \in Seq(Products)
  /\ \A p \in Products : \E i \in DOMAIN ItemOrder : ItemOrder[i] = p
  /\ \A i, j \in DOMAIN ItemOrder : i # j => ItemOrder[i] # ItemOrder[j]
  /\ {MaxChanges, MaxCounts, MaxEvents} \subseteq Nat

VARIABLES
  stock, avg,     \* shop_products.stock and avg_cost
  lots,           \* fifo_lots of a product
  movements,      \* shop_movements of a product, by id
  tx, changes,    \* the transactions begun, and how many
  clock,          \* in half days, so that it is midnight in Bangkok or in UTC
  status,         \* of the close: "none", "draft" or "closed"
  opening,        \* createClose: "none", "opened", "read", "ended" or "died"
  items,          \* stock_period_close_items by product, <<>> before they are made
  counting,       \* bulkUpdateItems between its check and its update
  counts,         \* how many counts were entered
  confirm,        \* the confirmations under way
  applied,        \* how many of them have committed
  overlapped,     \* two of them were under way at once
  overwritten,    \* products whose stock a confirmation set from a stale read
  late,           \* products counted after a confirmation had read the counts
  events

products == <<stock, avg, lots, movements>>
close == <<status, opening, items, counting, counts, confirm, applied, overlapped,
           overwritten, late>>
vars == <<products, tx, changes, clock, close, events>>

Movement ==
  {m \in [type : Kinds \cup {"close"}, quantity : Int, cost : Int \cup {NoCost},
          before : Int, after : Int,
          date : Nat, began : Nat] : m.type = "receive" => m.cost \in Nat}
\* included is history: how many movements the snapshot includes.
Item == [system : Int, cost : Int, physical : Nat \cup {Uncounted}, variance : Int,
         included : Nat]
NoChange == [at |-> "idle"]
NoConfirm == [at |-> "idle", left |-> <<>>, variance |-> <<>>, seen |-> 0,
              wrote |-> <<>>, date |-> 0, began |-> 0]

Init ==
  /\ stock = [p \in Products |-> 0]
  /\ avg = [p \in Products |-> OpeningCost[p]]
  /\ lots = [p \in Products |-> <<>>]
  /\ movements = [p \in Products |-> <<>>]
  /\ tx = [w \in Workers |-> NoChange]
  /\ changes = 0
  /\ clock = 1
  /\ status = "none"
  /\ opening = "none"
  /\ items = <<>>
  /\ counting = <<>>
  /\ counts = 0
  /\ confirm = [c \in Confirmers |-> NoConfirm]
  /\ applied = 0
  /\ overlapped = FALSE
  /\ overwritten = {}
  /\ late = {}
  /\ events = 0

-----------------------------------------------------------------------------
\* The date in UTC, of lots, receipts and adjustments, and that in Bangkok, of
\* sales and voids: some hours of the day it is a day ahead.
today == clock \div 2
bangkokToday == (clock + 1) \div 2

(* What a change does to the product whose row it has locked: the possible
   [stock, avg, lots] after it.                                            *)

After(s, a, l) == [stock |-> s, avg |-> a, lots |-> l]
NewLot(quantity, cost) == [date |-> today, quantity |-> quantity, cost |-> cost]
OfLots(l) == After(Quantity(l), calcFifoAvgCost(l), l)

\* fifoDeductInTx: stock and average are those of the lots that are left.
Deducted(p, quantity) ==
  {OfLots(deductFifoLots(sorted, quantity, today)) : sorted \in ByDate(lots[p])}

\* The cost of a lot for goods found: the one given, else the newest lot's,
\* else the average.
FoundCosts(p, cost) ==
  IF cost # NoCost THEN {cost}
  ELSE IF lots[p] = <<>> THEN {avg[p]}
  ELSE {Last(sorted).cost : sorted \in ByDate(lots[p])}

\* fifoAdjustInTx
Adjusted(p, delta, cost) ==
  IF delta < 0 THEN Deducted(p, delta)
  ELSE {OfLots(Append(lots[p], NewLot(delta, found))) : found \in FoundCosts(p, cost)}

\* receiveStock; a negative quantity goes back to the supplier.
Received(p, quantity, cost) ==
  IF p \notin FifoProducts
  THEN {After(stock[p] + quantity, calcNewAvgCost(stock[p], avg[p], quantity, cost), <<>>)}
  ELSE IF quantity < 0 THEN Adjusted(p, quantity, NoCost)
  ELSE LET l == Append(lots[p], NewLot(quantity, cost))
       IN  {After(stock[p] + quantity, calcFifoAvgCost(l), l)}

\* adjustStock
AdjustedBy(p, delta, cost) ==
  IF p \in FifoProducts THEN Adjusted(p, delta, cost)
  ELSE {After(stock[p] + delta,
              IF cost = NoCost THEN avg[p] ELSE calcNewAvgCost(stock[p], avg[p], delta, cost),
              <<>>)}

\* A line of a checkout.  A line of negative quantity gives goods back, but a
\* FIFO product's lots are drained by its magnitude.
Sold(p, quantity) ==
  IF p \in FifoProducts THEN Deducted(p, quantity)
  ELSE {After(stock[p] - quantity, avg[p], <<>>)}

\* Faulty: the returned goods are put into no lot, or into one that cost nothing.
PutBackWithoutLot(p, quantity) == {After(stock[p] + quantity, avg[p], lots[p])}
PutBackAtNoCost(p, quantity) ==
  {After(stock[p] + quantity, avg[p],
         IF p \in FifoProducts THEN Append(lots[p], NewLot(quantity, 0)) ELSE <<>>)}
\* A line of a void or return: a FIFO product gets a lot at its average cost.
PutBack(p, quantity) ==
  {After(stock[p] + quantity, avg[p],
         IF p \in FifoProducts THEN Append(lots[p], NewLot(quantity, avg[p])) ELSE <<>>)}

Outcomes(t) ==
  CASE t.kind = "receive" -> Received(t.product, t.quantity, t.cost)
    [] t.kind = "adjust" -> AdjustedBy(t.product, t.quantity, t.cost)
    [] t.kind = "sale" -> Sold(t.product, t.quantity)
    [] t.kind = "void" -> PutBack(t.product, t.quantity)

\* The row of shop_movements: a sale is written with the sign turned, a sale
\* and a void with the average cost before the change.
Entry(t, before, after) ==
  [type |-> t.kind,
   quantity |-> IF t.kind = "sale" THEN -t.quantity ELSE t.quantity,
   cost |-> IF t.kind \in {"sale", "void"} THEN avg[t.product] ELSE t.cost,
   before |-> before, after |-> after, date |-> t.date, began |-> t.began]

-----------------------------------------------------------------------------
(* The transactions on one product *)

SalesMade ==
  FoldFunction(+, 0, [p \in Products |-> Len(SelectSeq(movements[p], LAMBDA m : m.type = "sale"))])

\* The units of a product on receipts that can still be voided: a void holds
\* its receipt's row, so those that have begun count.
OnReceipts(p) ==
  LET sum(n, m) == IF m.type \in {"sale", "void"} THEN n - m.quantity ELSE n
      voiding == {w \in Workers : tx[w].at = "begun" /\ tx[w].kind = "void" /\ tx[w].product = p}
  IN  FoldLeft(sum, 0, movements[p]) - FoldSet(LAMBDA w, n : n + tx[w].quantity, 0, voiding)

\* BEGIN, from which created_at of its movement is taken, and its date.  preloaded is what a
\* void has read of the product before, number the receipt number of a sale.
Begin(w, m) ==
  /\ tx[w].at = "idle"
  /\ m.kind = "void" => m.quantity <= OnReceipts(m.product)
  /\ changes < MaxChanges
  /\ changes' = changes + 1
  /\ tx' = [tx EXCEPT ![w] =
              [at |-> "begun", kind |-> m.kind, product |-> m.product,
               quantity |-> m.quantity, cost |-> m.cost, began |-> changes',
               date |-> IF m.kind \in {"sale", "void"} THEN bangkokToday ELSE today,
               preloaded |-> stock[m.product],
               number |-> IF m.kind = "sale" THEN SalesMade + 1 ELSE 0]]
  /\ UNCHANGED <<products, clock, close, events>>

\* A confirmation has the row of a product from its movement's foreign key on.
RowFree(p) == \A c \in Confirmers : p \notin DOMAIN confirm[c].wrote

\* Faulty: the stock of the product as it was read before the transaction.
StockPreloaded(t) == t.preloaded
StockBefore(t) == stock[t.product]

ChangeProduct(w) ==
  LET t == tx[w]
      p == t.product
  IN  /\ t.at = "begun"
      /\ t.kind = "sale" => t.number = SalesMade + 1
      /\ RowFree(p)
      /\ \E r \in Outcomes(t) :
           LET after == r.stock - stock[p] + StockBefore(t)
           IN  /\ stock' = [stock EXCEPT ![p] = after]
               /\ avg' = [avg EXCEPT ![p] = r.avg]
               /\ lots' = [lots EXCEPT ![p] = r.lots]
               /\ movements' = [movements EXCEPT
                    ![p] = Append(@, Entry(t, StockBefore(t), after))]
      /\ tx' = [tx EXCEPT ![w] = NoChange]
      /\ UNCHANGED <<changes, clock, close, events>>

\* A sale whose receipt number another sale of the shop has taken meanwhile is
\* rolled back when it inserts its receipt.
SaleFails(w) ==
  /\ tx[w].at = "begun"
  /\ tx[w].kind = "sale" /\ tx[w].number # SalesMade + 1
  /\ tx' = [tx EXCEPT ![w] = NoChange]
  /\ UNCHANGED <<products, changes, clock, close, events>>

Midnight ==
  /\ events < MaxEvents
  /\ events' = events + 1
  /\ clock' = clock + 1
  /\ UNCHANGED <<products, tx, changes, close>>

-----------------------------------------------------------------------------
(* createClose: the close, the products' stock and the items are three
   statements outside any transaction.                                     *)

OpenClose ==
  /\ opening = "none"
  /\ status' = "draft"
  /\ opening' = "opened"
  /\ UNCHANGED <<products, tx, changes, clock, items, counting, counts, confirm, applied,
                 overlapped, overwritten, late, events>>

\* The snapshot of all active products.
Snapshot ==
  /\ opening = "opened"
  /\ opening' = "read"
  /\ items' = [p \in Products |->
       [system |-> stock[p], cost |-> avg[p], physical |-> Uncounted, variance |-> 0,
        included |-> Len(movements[p])]]
  /\ UNCHANGED <<products, tx, changes, clock, status, counting, counts, confirm, applied,
                 overlapped, overwritten, late, events>>

InsertItems ==
  /\ opening = "read"
  /\ opening' = "ended"
  /\ UNCHANGED <<products, tx, changes, clock, status, items, counting, counts, confirm,
                 applied, overlapped, overwritten, late, events>>

\* The rows that exist, and fetchItems, which orders them by name.
Items == IF opening = "ended" THEN DOMAIN items ELSE {}
fetchItems == IF opening = "ended" THEN ItemOrder ELSE <<>>

-----------------------------------------------------------------------------
(* bulkUpdateItems and importExcel *)

CountCheck(p, n) ==
  /\ counting = <<>>
  /\ counts < MaxCounts
  /\ counts' = counts + 1
  /\ p \in Items
  /\ status = "draft"
  /\ counting' = <<p, n>>
  /\ UNCHANGED <<products, tx, changes, clock, status, opening, items, confirm, applied,
                 overlapped, overwritten, late, events>>

CountWrite ==
  /\ counting # <<>>
  /\ LET p == counting[1]
     IN  /\ items' = [items EXCEPT ![p].physical = counting[2]]
         /\ late' = IF \/ status = "closed"
                       \/ \E c \in Confirmers : confirm[c].at # "idle"
                    THEN late \cup {p} ELSE late
  /\ counting' = <<>>
  /\ UNCHANGED <<products, tx, changes, clock, status, opening, counts, confirm, applied,
                 overlapped, overwritten, events>>

-----------------------------------------------------------------------------
(* confirmClose *)

Accepts(s) == s = "draft"

\* Faulty: the stock becomes what was counted, whatever was sold since.
VarianceFromStock(p) == items[p].physical - stock[p]
Variance(p) == items[p].physical - items[p].system

\* The status and the items are read before the transaction begins.
ConfirmRead(c) ==
  /\ confirm[c].at = "idle"
  /\ Accepts(status)
  /\ \A p \in Items : items[p].physical # Uncounted
  /\ changes < MaxChanges
  /\ changes' = changes + 1
  /\ confirm' = [confirm EXCEPT ![c] =
       [NoConfirm EXCEPT !.at = "item",
                         !.left = fetchItems,
                         !.variance = [p \in Items |-> Variance(p)],
                         !.date = today,
                         !.began = changes']]
  /\ overlapped' = (overlapped \/ \E d \in Confirmers : confirm[d].at # "idle")
  /\ UNCHANGED <<products, tx, clock, status, opening, items, counting, counts, applied,
                 overwritten, late, events>>

\* An item that was counted right is passed over; of another's product the
\* stock is read, without a lock.
ConfirmItem(c) ==
  LET k == confirm[c]
      p == Head(k.left)
  IN  /\ k.at = "item" /\ k.left # <<>>
      /\ IF k.variance[p] = 0
         THEN confirm' = [confirm EXCEPT ![c] = [k EXCEPT !.left = Tail(k.left)]]
         ELSE confirm' = [confirm EXCEPT ![c] = [k EXCEPT !.at = "write", !.seen = stock[p]]]
      /\ UNCHANGED <<products, tx, changes, clock, status, opening, items, counting, counts,
                     applied, overlapped, overwritten, late, events>>

\* stock_before and stock_after of the movement, and the stock.
Wrote(seen, variance) == [before |-> seen, after |-> seen + variance]

\* The movement is inserted and the stock set to what was read plus the
\* variance; both wait for another confirmation that has written the row.
ConfirmWrite(c) ==
  LET k == confirm[c]
      p == Head(k.left)
      wrote == [o \in DOMAIN k.wrote \cup {p} |->
                  IF o = p THEN Wrote(k.seen, k.variance[p]) ELSE k.wrote[o]]
  IN  /\ k.at = "write"
      /\ RowFree(p)
      /\ confirm' = [confirm EXCEPT
           ![c] = [k EXCEPT !.at = "item", !.left = Tail(k.left), !.wrote = wrote]]
      /\ overwritten' = IF stock[p] # k.seen THEN overwritten \cup {p} ELSE overwritten
      /\ UNCHANGED <<products, tx, changes, clock, status, opening, items, counting, counts,
                     applied, overlapped, late, events>>

\* Every item gets its variance, the close its status, whatever it is now.
ConfirmCommit(c) ==
  LET k == confirm[c]
      entry(p) == [type |-> "close", quantity |-> k.variance[p], cost |-> items[p].cost,
                   before |-> k.wrote[p].before, after |-> k.wrote[p].after,
                   date |-> k.date, began |-> k.began]
  IN  /\ k.at = "item" /\ k.left = <<>>
      /\ stock' = [p \in Products |->
           IF p \in DOMAIN k.wrote THEN k.wrote[p].after ELSE stock[p]]
      /\ movements' = [p \in Products |->
           IF p \in DOMAIN k.wrote THEN Append(movements[p], entry(p)) ELSE movements[p]]
      /\ items' = [p \in DOMAIN items |->
           IF p \in DOMAIN k.variance THEN [items[p] EXCEPT !.variance = k.variance[p]] ELSE items[p]]
      /\ status' = "closed"
      /\ applied' = applied + 1
      /\ confirm' = [confirm EXCEPT ![c] = NoConfirm]
      /\ UNCHANGED <<avg, lots, tx, changes, clock, opening, counting, counts, overlapped,
                     overwritten, late, events>>

-----------------------------------------------------------------------------
\* The server dies: transactions are rolled back, createClose stops where it is.
Crash ==
  /\ events < MaxEvents
  /\ events' = events + 1
  /\ tx' = [w \in Workers |-> NoChange]
  /\ confirm' = [c \in Confirmers |-> NoConfirm]
  /\ counting' = <<>>
  /\ opening' = IF opening \in {"opened", "read"} THEN "died" ELSE opening
  /\ UNCHANGED <<products, changes, clock, status, items, counts, applied, overlapped,
                 overwritten, late>>

Next ==
  \/ \E w \in Workers : ChangeProduct(w) \/ SaleFails(w) \/ \E m \in Menu : Begin(w, m)
  \/ Midnight
  \/ OpenClose \/ Snapshot \/ InsertItems
  \/ \E p \in Products, n \in Counts : CountCheck(p, n)
  \/ CountWrite
  \/ \E c \in Confirmers :
       ConfirmRead(c) \/ ConfirmItem(c) \/ ConfirmWrite(c) \/ ConfirmCommit(c)
  \/ Crash

Spec == Init /\ [][Next]_vars
-----------------------------------------------------------------------------
(* Properties *)

Begun(t) ==
  /\ t.kind \in Kinds /\ t.product \in Products /\ t.quantity \in Int \ {0}
  /\ t.cost \in Nat \cup {NoCost}
  /\ t.kind = "receive" => t.cost \in Nat
  /\ t.date \in Nat /\ t.began \in Nat
Confirmation(k) ==
  /\ k = [at |-> k.at, left |-> k.left, variance |-> k.variance, seen |-> k.seen,
          wrote |-> k.wrote, date |-> k.date, began |-> k.began]
  /\ k.at \in {"idle", "item", "write"}
  /\ k.left \in Seq(Products)
  /\ k.at = "write" => k.left # <<>>
  /\ DOMAIN k.variance \subseteq Products
  /\ \A p \in DOMAIN k.variance : k.variance[p] \in Int
  /\ k.seen \in Int /\ k.date \in Nat /\ k.began \in Nat
  /\ DOMAIN k.wrote \subseteq DOMAIN k.variance
  /\ \A p \in DOMAIN k.wrote : k.wrote[p] \in [before : Int, after : Int]

\* Every variable has its type.
TypeOK ==
  /\ stock \in [Products -> Int]
  /\ avg \in [Products -> Int]
  /\ lots \in [Products -> Seq(Lot)]
  /\ \A p \in Products \ FifoProducts : lots[p] = <<>>
  /\ movements \in [Products -> Seq(Movement)]
  /\ tx = [w \in Workers |-> tx[w]]
  /\ \A w \in Workers : tx[w].at \in {"idle", "begun"} /\ (tx[w].at = "begun" => Begun(tx[w]))
  /\ changes \in Nat /\ clock \in Nat
  /\ status \in {"none", "draft", "closed"}
  /\ opening \in {"none", "opened", "read", "ended", "died"}
  /\ DOMAIN items \in {{}, Products} /\ \A p \in DOMAIN items : items[p] \in Item
  /\ counting = <<>> \/ (counting \in Products \X Nat /\ opening = "ended")
  /\ confirm = [c \in Confirmers |-> confirm[c]]
  /\ \A c \in Confirmers : /\ Confirmation(confirm[c])
                           /\ DOMAIN confirm[c].variance \subseteq DOMAIN items
  /\ applied \in Nat
  /\ overwritten \cup late \subseteq Products

\* Consecutive movements of a product join, in the given order.
Joined(ms) ==
  /\ ms # <<>> => Head(ms).before = 0
  /\ \A i \in 1..(Len(ms) - 1) : ms[i].after = ms[i + 1].before

\* The movements of a product, in the order of their ids, lead from nothing to
\* its stock without a gap: no change is lost or written twice, except where a
\* confirmation of a close wrote a stock it had read before another change.
MovementsExplainStock ==
  \A p \in Products \ overwritten :
    /\ Joined(movements[p])
    /\ stock[p] = IF movements[p] = <<>> THEN 0 ELSE Last(movements[p]).after

ClosedProducts ==
  {p \in Products : \E i \in DOMAIN movements[p] : movements[p][i].type = "close"}

\* The lots of a FIFO product hold its stock, phantom lots and the lots of
\* returned goods included, until a close changes the stock: a close leaves
\* the lots alone.
StockIsLots ==
  \A p \in FifoProducts \ ClosedProducts : stock[p] = Quantity(lots[p])

PutBackOnNothing(ms) ==
  \E i \in DOMAIN ms : ms[i].type = "void" /\ (ms[i].before <= 0 \/ ms[i].quantity < 0)

\* The average of a FIFO product is that of its lots up to rounding, although
\* a void adds a lot without computing it again: what is put back at a rounded
\* average does not add to the error.  But what is put back on no stock at all
\* gets the average of nothing, which is 0, and on a debt of many units the
\* error of few; so does a void of goods that were themselves given back.
AverageIsLots ==
  \A p \in FifoProducts \ ClosedProducts :
    ~PutBackOnNothing(movements[p]) /\ Quantity(lots[p]) # 0 =>
      Magnitude(avg[p] - calcFifoAvgCost(lots[p])) <= 1

\* The order in which the reports read the movements of a product: by date,
\* created_at (the begin of the transaction) and id.
Precedes(ms, i, j) ==
  \/ ms[i].date < ms[j].date
  \/ ms[i].date = ms[j].date /\ ms[i].began < ms[j].began
  \/ ms[i].date = ms[j].date /\ ms[i].began = ms[j].began /\ i < j
Ledger(ms) ==
  [k \in DOMAIN ms |->
     ms[CHOOSE i \in DOMAIN ms : Cardinality({j \in DOMAIN ms : Precedes(ms, j, i)}) = k - 1]]
\* That order is the one of the ids: that of the row's locks.
InOrder(ms) == \A i, j \in DOMAIN ms : i < j => Precedes(ms, i, j)

\* nextCostState of balance_file_service.ts.  It does not round its average,
\* which is num / den.  slack is history: what rounding every receipt's average
\* to an integer can make, as a bound on twice the error, times den.
CostState == [quantity : Int, num : Int, den : Nat \ {0}, slack : Nat]
Unrounded(quantity, cost) == [quantity |-> quantity, num |-> cost, den |-> 1, slack |-> 0]
nextCostState ==
  [s \in CostState |-> [m \in Movement |->
     LET n == s.quantity + m.quantity
     IN  IF m.type # "receive" THEN [s EXCEPT !.quantity = m.after]
         ELSE IF n <= 0 THEN Unrounded(n, m.cost)
         ELSE [quantity |-> n,
               num |-> s.quantity * s.num + m.quantity * m.cost * s.den,
               den |-> n * s.den,
               slack |-> Magnitude(s.quantity) * s.slack + n * s.den]]]

\* The average a report starts from whose period begins on a day: that of the
\* history, which starts from 0; a product without history has its avg_cost.
Base(p, from) ==
  IF \E i \in DOMAIN movements[p] : movements[p][i].date < from THEN 0 ELSE avg[p]
\* getBalanceFile: the last balance of a period that has not ended.
Replay(p, from) == Folded(nextCostState, Unrounded(0, Base(p, from)), Ledger(movements[p]))

\* An average is that of the replay but for the rounding of avg_cost.
Within(r, a) == 2 * Magnitude(r.num - a * r.den) <= r.slack

\* What only one of the two computations of the average looks at.
Diverges(ms) ==
  \E i \in DOMAIN ms : \/ ms[i].type = "adjust" /\ ms[i].cost # NoCost
                       \/ ms[i].type = "receive" /\ ms[i].after <= 0
\* A receipt into an empty stock: it sets the average, whatever it was.
OnEmpty(ms) == \E i \in DOMAIN ms : ms[i].type = "receive" /\ ms[i].before = 0

\* The cost ledger that the reports replay from the movements ends, for every
\* period, with the stock the product has, and with its average but for the
\* rounding of avg_cost.  It need not: if it starts from another cost than the
\* product did and no receipt came into an empty stock since; if dates and
\* begins are in another order than the ids; after an adjustment with a cost, a
\* receipt that leaves nothing in stock, or a stale close.
ReplayFindsProduct ==
  \A p \in Products \ (FifoProducts \cup overwritten) :
    InOrder(movements[p]) /\ ~Diverges(movements[p]) =>
      \A from \in 0..(bangkokToday + 1) :
        LET r == Replay(p, from)
        IN  /\ r.quantity = stock[p]
            /\ Base(p, from) = OpeningCost[p] \/ OnEmpty(movements[p]) => Within(r, avg[p])

\* A sale takes the oldest units, or all of them and leaves a debt: what is
\* left of any lots the shop can have is what the row of their units says.
TakesOldest(p, n) ==
  (\A i \in DOMAIN lots[p] : lots[p][i].quantity > 0) =>
    \A r \in Deducted(p, n) :
      \E sorted \in {s \in Orders(lots[p]) : OldestFirst(s)} :
        LET units == Units(sorted)
        IN  IF n <= Len(units) THEN Units(r.lots) = SubSeq(units, n + 1, Len(units))
            ELSE Len(r.lots) = 1 /\ r.stock = Len(units) - n
SalesTakeOldest == \A p \in FifoProducts : \A n \in 1..3 : TakesOldest(p, n)

\* What moved on a product since the snapshot of the close, the close apart.
MovedSince(p) ==
  Folded([sum \in Int |-> [m \in Movement |->
            IF m.type = "close" THEN sum ELSE sum + m.after - m.before]],
         0, SubSeq(movements[p], items[p].included + 1, Len(movements[p])))

\* A close sets every product that was counted to its count, and keeps what
\* was sold and received while it was open: unless two confirmations ran at
\* once, a count came in late, or the stock it read was stale.
CloseKeepsCount ==
  applied = 1 /\ ~overlapped =>
    \A p \in Items \ (overwritten \cup late) :
      items[p].physical # Uncounted => stock[p] = items[p].physical + MovedSince(p)

\* A close is applied once, unless two confirmations were under way at once.
AppliedOnce == applied > 1 => overlapped

\* A confirmation under way: what is left are different products, those done
\* are written unless they were counted right, nobody else has their rows, and
\* what was written is the stock they still have, moved by the variance.
ConfirmationsAgree ==
  \A c \in Confirmers :
    LET k == confirm[c]
    IN  /\ k.at = "idle" => k = NoConfirm
        /\ \A i, j \in DOMAIN k.left : i # j => k.left[i] # k.left[j]
        /\ \A i \in DOMAIN k.left : k.left[i] \in DOMAIN k.variance \ DOMAIN k.wrote
        /\ k.at = "write" => k.variance[Head(k.left)] # 0
        /\ \A p \in DOMAIN k.variance :
             \/ \E i \in DOMAIN k.left : k.left[i] = p
             \/ IF k.variance[p] = 0 THEN p \notin DOMAIN k.wrote ELSE p \in DOMAIN k.wrote
        /\ \A p \in DOMAIN k.wrote :
             /\ k.wrote[p].after = k.wrote[p].before + k.variance[p]
             /\ p \notin overwritten => k.wrote[p].before = stock[p]
             /\ \A d \in Confirmers \ {c} : p \notin DOMAIN confirm[d].wrote

\* The close, its items and their counts: nothing is counted before the items
\* are there, and a confirmation has the counts of all but the late ones.
CloseAgrees ==
  /\ opening = "none" => status = "none"
  /\ status = "none" => applied = 0 /\ \A c \in Confirmers : confirm[c].at = "idle"
  /\ opening \in {"none", "opened"} => DOMAIN items = {}
  /\ opening \in {"read", "ended"} => DOMAIN items = Products
  /\ opening # "ended" => \A p \in DOMAIN items : items[p].physical = Uncounted
  /\ applied > 0 => status = "closed"
  /\ ~overlapped => \A c, d \in Confirmers :
       confirm[c].at # "idle" => applied = 0 /\ (confirm[d].at # "idle" => c = d)
  /\ \A c \in Confirmers : \A p \in Items \ late :
       confirm[c].at # "idle" /\ items[p].physical # Uncounted =>
         p \in DOMAIN confirm[c].variance /\ confirm[c].variance[p] = Variance(p)

\* Until the close is applied, a product has its stock at the snapshot and what
\* moved since.
SnapshotKept ==
  \A p \in DOMAIN items :
    /\ items[p].included <= Len(movements[p])
    /\ applied = 0 /\ p \notin overwritten => stock[p] = items[p].system + MovedSince(p)

\* What is lost by rounding the average of a FIFO product is at most half of a
\* unit of cost for each unit of its lots.
AverageRounded ==
  \A p \in FifoProducts \ ClosedProducts :
    ~PutBackOnNothing(movements[p]) /\ Quantity(lots[p]) # 0 =>
      2 * Magnitude(avg[p] * Quantity(lots[p]) - Value(lots[p])) <= Magnitude(Quantity(lots[p]))

\* Over the movements in the order of their ids, from any cost to start with,
\* the replay has the stock and the average of the product.
Tracks(p, base) ==
  LET r == Folded(nextCostState, Unrounded(0, base), movements[p])
  IN  /\ r.quantity = stock[p]
      /\ base = OpeningCost[p] \/ OnEmpty(movements[p]) => Within(r, avg[p])
ReplayTracks ==
  \A p \in Products \ (FifoProducts \cup overwritten) :
    ~Diverges(movements[p]) => \A base \in Int : Tracks(p, base)

\* The inductive invariant.
IInv ==
  /\ TypeOK
  /\ ConfirmationsAgree /\ CloseAgrees
  /\ MovementsExplainStock /\ StockIsLots /\ AverageRounded /\ ReplayTracks
  /\ SnapshotKept /\ CloseKeepsCount

-----------------------------------------------------------------------------
(* What the repository says and the code does not do *)

\* "stock_before / stock_after are contiguous per product when ordered by
\* created_at" (docs/STOCK_SYSTEM.md): the begin of the transaction.
ByCreation(ms) == SortSeq(ms, LAMBDA m, n : m.began < n.began)
ContiguousByCreation == \A p \in Products : Joined(ByCreation(movements[p]))

\* Rows "are locked FOR UPDATE before any read-modify-write" (docs/STOCK_SYSTEM.md):
\* no change of a product's stock is lost.
NoChangeLost == \A p \in Products : Joined(movements[p])

\* "Period already confirmed" (close_month_service.ts): a close is applied once.
ConfirmedOnce == applied <= 1

\* "every sale before the product's first delivery would be valued at 0" is what
\* the fallback of the Balance File is to prevent (balance_file_service.ts): a
\* product that was never delivered is valued at its avg_cost, in every period.
UndeliveredKeepsCost ==
  \A p \in Products \ FifoProducts :
    ~Diverges(movements[p])
    /\ (\A i \in DOMAIN movements[p] : movements[p][i].type # "receive") =>
      \A from \in 0..(bangkokToday + 1) :
        LET r == Replay(p, from)
        IN  r.num = avg[p] * r.den
=============================================================================
