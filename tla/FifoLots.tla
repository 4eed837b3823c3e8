------------------------------ MODULE FifoLots ------------------------------
(***************************************************************************)
(* The costing of backend-bun/src/lib/fifo.ts: the lots of a product, what *)
(* a sale takes of them, and the two averages.  Costs are in ten-          *)
(* thousandths, the scale of numeric(10,4), so rounding is to an integer.  *)
(***************************************************************************)
EXTENDS Integers, Sequences, SequencesExt

\* What step makes of base and the elements of s from left to right.  The step
\* is a function and not an operator, so that a proof can be about any of them.
Folded(step, base, s) ==
  LET upTo[n \in 0..Len(s)] == IF n = 0 THEN base ELSE step[upTo[n - 1]][s[n]]
  IN  upTo[Len(s)]

Lot == [date : Nat, quantity : Int \ {0}, cost : Int]

Smaller(a, b) == IF a < b THEN a ELSE b
Magnitude(n) == IF n < 0 THEN -n ELSE n

\* Math.round of a / b, b # 0: to the nearest, halves up.
RoundDiv(a, b) ==
  IF b > 0 THEN (2 * a + b) \div (2 * b) ELSE (-2 * a - b) \div (-2 * b)

Quantity(lots) == Folded([sum \in Int |-> [l \in Lot |-> sum + l.quantity]], 0, lots)
Value(lots) == Folded([sum \in Int |-> [l \in Lot |-> sum + l.quantity * l.cost]], 0, lots)

calcFifoAvgCost(lots) ==
  IF Quantity(lots) = 0 THEN 0 ELSE RoundDiv(Value(lots), Quantity(lots))

\* Faulty: the units that come in are counted as held before.
NewAvgCostOfNewStock(stock, avg, quantity, cost) ==
  IF stock + quantity <= 0 THEN avg
  ELSE RoundDiv((stock + quantity) * avg + quantity * cost, stock + 2 * quantity)
\* The weighted average after receiving quantity at cost, and its rounding.
calcNewAvgCost(stock, avg, quantity, cost) ==
  IF stock + quantity <= 0 THEN avg
  ELSE RoundDiv(stock * avg + quantity * cost, stock + quantity)

Orders(lots) == {[i \in DOMAIN lots |-> lots[o[i]]] : o \in SetToSeqs(DOMAIN lots)}
OldestFirst(lots) == \A i, j \in DOMAIN lots : i < j => lots[i].date <= lots[j].date
\* Faulty: the newest lot first.
NewestFirst(lots) == {s \in Orders(lots) : OldestFirst(Reverse(s))}
\* The orders in which lots may be looked at: by date, and in any order within
\* a date, as the table is read without an ORDER BY.
ByDate(lots) == {s \in Orders(lots) : OldestFirst(s)}

\* One round of the loop: a lot is left alone, used in part or dropped; a
\* negative one is dropped and raises what remains.
Drained == [remaining : Int, kept : Seq(Lot)]
Drain ==
  [sofar \in Drained |-> [lot \in Lot |->
     IF sofar.remaining <= 0 THEN [sofar EXCEPT !.kept = Append(@, lot)]
     ELSE LET taken == Smaller(lot.quantity, sofar.remaining)
              left == lot.quantity - taken
          IN  [remaining |-> sofar.remaining - taken,
               kept |-> IF left > 0 THEN Append(sofar.kept, [lot EXCEPT !.quantity = left])
                        ELSE sofar.kept]]]

\* deductFifoLotsInMemory over sorted lots: what the lots do not hold becomes
\* a phantom lot of negative quantity, at the cost of the newest lot.
deductFifoLots(sorted, quantity, today) ==
  LET end == Folded(Drain, [remaining |-> Magnitude(quantity), kept |-> <<>>], sorted)
      phantom == [date |-> today, quantity |-> -end.remaining,
                  cost |-> IF sorted = <<>> THEN 0 ELSE Last(sorted).cost]
  IN  IF end.remaining > 0 THEN Append(end.kept, phantom) ELSE end.kept

\* The reference: lots as the row of units they stand for, oldest first.
UnitsOf(lot) == [u \in 1..lot.quantity |-> <<lot.date, lot.cost>>]
Row == Seq(Nat \X Int)
Units(sorted) == Folded([row \in Row |-> [lot \in Lot |-> row \o UnitsOf(lot)]], <<>>, sorted)
=============================================================================
