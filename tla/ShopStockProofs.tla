-------------------------- MODULE ShopStockProofs ---------------------------
(* Proofs about FifoLots and ShopStock, for every value of the constants.   *)
EXTENDS ShopStock, FiniteSetTheorems, SequenceTheorems, WellFoundedInduction, TLAPS

-----------------------------------------------------------------------------
(* Induction over the natural numbers, as a fact about sets of them *)

\* A set of natural numbers with a member has a least one.
LEMMA LeastMember ==
  ASSUME NEW T \in SUBSET Nat, T # {}
  PROVE  \E x \in T : \A y \in T : x <= y
  <1> DEFINE R == OpToRel(<, Nat)
  <1>1. IsWellFoundedOn(R, Nat)
    BY NatLessThanWellFounded
  <1>2. \A x, y \in Nat : <<y, x>> \in R <=> y < x
    BY DEF OpToRel
  <1> HIDE DEF R
  <1>3. PICK x \in T : \A y \in T : ~(<<y, x>> \in R)
    BY <1>1, WFMin
  <1>4. \A y \in T : x <= y
    <2> TAKE y \in T
    <2>1. x \in Nat /\ y \in Nat
      OBVIOUS
    <2>2. ~(<<y, x>> \in R)
      BY <1>3
    <2>3. ~(y < x)
      BY <1>2, <2>1, <2>2
    <2>4. QED
      BY <2>1, <2>3
  <1>5. QED
    BY <1>3, <1>4

\* A set that contains 0, and with a number below n the next, contains 0..n.
LEMMA UpTo ==
  ASSUME NEW n \in Nat, NEW S, 0 \in S, \A m \in 0..(n - 1) : m \in S => m + 1 \in S
  PROVE  0..n \subseteq S
  <1> DEFINE T == {m \in 0..n : m \notin S}
  <1>1. SUFFICES ASSUME T # {} PROVE FALSE
    OBVIOUS
  <1>2. T \in SUBSET Nat
    OBVIOUS
  <1>3. PICK x \in T : \A y \in T : x <= y
    BY <1>1, <1>2, LeastMember
  <1>4. x # 0 /\ x \in 0..n /\ x \notin S
    OBVIOUS
  <1>5. x - 1 \in 0..(n - 1) /\ x - 1 \notin T
    BY <1>3, <1>4
  <1>6. QED
    BY <1>4, <1>5

-----------------------------------------------------------------------------
(* Folded *)

\* The values a fold goes through, as a function of how far it has come.
Course(step, base, s, g) ==
  g = [n \in 0..Len(s) |-> IF n = 0 THEN base ELSE step[g[n - 1]][s[n]]]

\* A course goes on from what it has come to.
LEMMA CourseSteps ==
  ASSUME NEW step, NEW base, NEW X, NEW s \in Seq(X), NEW g, Course(step, base, s, g)
  PROVE  /\ g[0] = base
         /\ \A n \in 0..(Len(s) - 1) : g[n + 1] = step[g[n]][s[n + 1]]
  <1>0. Len(s) \in Nat
    OBVIOUS
  <1>1. g[0] = base
    BY <1>0 DEF Course
  <1>2. \A i \in 1..Len(s) : g[i] = step[g[i - 1]][s[i]]
    BY <1>0 DEF Course
  <1>3. \A n \in 0..(Len(s) - 1) : n + 1 \in 1..Len(s) /\ (n + 1) - 1 = n
    OBVIOUS
  <1>4. QED
    BY <1>1, <1>2, <1>3

\* A fold has a course.
LEMMA CourseExists ==
  ASSUME NEW V, NEW X, NEW base \in V, NEW s \in Seq(X),
         NEW step, \A v \in V : \A x \in X : step[v][x] \in V
  PROVE  \E g : Course(step, base, s, g)
  <1> DEFINE Part(m) == {g \in [0..m -> V] :
                           /\ g[0] = base
                           /\ \A n \in 1..m : g[n] = step[g[n - 1]][s[n]]}
             S == {m \in Nat : Part(m) # {}}
  <1>1. Len(s) \in Nat /\ \A n \in 1..Len(s) : s[n] \in X
    OBVIOUS
  <1>2. 0 \in S
    <2>1. [n \in 0..0 |-> base] \in Part(0)
      OBVIOUS
    <2>2. QED
      BY <2>1
  <1>3. ASSUME NEW m \in 0..(Len(s) - 1), m \in S
        PROVE  m + 1 \in S
    <2>1. PICK g \in [0..m -> V] : g \in Part(m)
      BY <1>3
    <2>2. s[m + 1] \in X /\ g[m] \in V
      BY <1>1, <2>1
    <2> DEFINE last == step[g[m]][s[m + 1]]
               h == [n \in 0..(m + 1) |-> IF n <= m THEN g[n] ELSE last]
    <2>3. last \in V
      BY <2>2
    <2> HIDE DEF last
    <2>4. h \in [0..(m + 1) -> V]
      BY <2>3
    <2>5. h[0] = base
      BY <2>1
    <2>6. \A n \in 1..m : h[n] = step[h[n - 1]][s[n]]
      BY <2>1
    <2>7. h[m + 1] = step[h[m]][s[m + 1]]
      BY DEF last
    <2> HIDE DEF h
    <2>8. \A n \in 1..(m + 1) : h[n] = step[h[n - 1]][s[n]]
      <3>1. \A n \in 1..(m + 1) : n \in 1..m \/ (n = m + 1 /\ n - 1 = m)
        OBVIOUS
      <3>2. QED
        BY <2>6, <2>7, <3>1
    <2>9. h \in Part(m + 1)
      BY <2>4, <2>5, <2>8
    <2> HIDE DEF Part
    <2>10. QED
      BY <2>9
  <1> HIDE DEF S
  <1>4. \A m \in 0..(Len(s) - 1) : m \in S => m + 1 \in S
    BY <1>3
  <1>5. 0..Len(s) \subseteq S
    BY <1>1, <1>2, <1>4, UpTo
  <1>6. PICK g : g \in Part(Len(s))
    BY <1>1, <1>5 DEF S
  <1>7. Course(step, base, s, g)
    BY <1>6 DEF Course
  <1>8. QED
    BY <1>7

\* Courses of two sequences that agree so far agree so far, and keep to V.
LEMMA CoursesAgree ==
  ASSUME NEW V, NEW X, NEW base \in V, NEW step, \A v \in V : \A x \in X : step[v][x] \in V,
         NEW s \in Seq(X), NEW t \in Seq(X), NEW m \in Nat, m <= Len(s), m <= Len(t),
         \A n \in 1..m : s[n] = t[n],
         NEW g, NEW h, Course(step, base, s, g), Course(step, base, t, h)
  PROVE  g[m] = h[m] /\ g[m] \in V
  <1> DEFINE S == {n \in 0..m : g[n] = h[n] /\ g[n] \in V}
  <1>1. /\ g[0] = base /\ \A n \in 0..(Len(s) - 1) : g[n + 1] = step[g[n]][s[n + 1]]
        /\ h[0] = base /\ \A n \in 0..(Len(t) - 1) : h[n + 1] = step[h[n]][t[n + 1]]
    <2>1. Len(s) \in Nat /\ Len(t) \in Nat
      OBVIOUS
    <2>2. g[0] = base /\ \A n \in 0..(Len(s) - 1) : g[n + 1] = step[g[n]][s[n + 1]]
      BY <2>1, CourseSteps, Z3
    <2>3. h[0] = base /\ \A n \in 0..(Len(t) - 1) : h[n + 1] = step[h[n]][t[n + 1]]
      BY <2>1, CourseSteps, Z3
    <2>4. QED
      BY <2>2, <2>3
  <1>2. 0 \in S
    BY <1>1
  <1>3. \A n \in 0..(m - 1) : n \in S => n + 1 \in S
    <2> TAKE n \in 0..(m - 1)
    <2> HAVE n \in S
    <2>1. n + 1 \in 1..m /\ n \in 0..(Len(s) - 1) /\ n \in 0..(Len(t) - 1)
      OBVIOUS
    <2>2. s[n + 1] = t[n + 1] /\ s[n + 1] \in X
      BY <2>1
    <2>3. QED
      BY <1>1, <2>1, <2>2
  <1> HIDE DEF S
  <1>4. 0..m \subseteq S
    BY <1>2, <1>3, UpTo
  <1>5. QED
    BY <1>4 DEF S

\* A fold is where its course ends.
LEMMA FoldedCourse ==
  ASSUME NEW V, NEW X, NEW base \in V, NEW s \in Seq(X),
         NEW step, \A v \in V : \A x \in X : step[v][x] \in V
  PROVE  \E g : Course(step, base, s, g) /\ Folded(step, base, s) = g[Len(s)]
  <1> DEFINE upTo == CHOOSE g : Course(step, base, s, g)
  <1>1. Course(step, base, s, upTo)
    BY CourseExists
  <1>2. Folded(step, base, s) = upTo[Len(s)]
    BY DEF Folded, Course
  <1> HIDE DEF upTo
  <1>3. QED
    BY <1>1, <1>2

\* A fold of nothing is its base; of one more element, one more step.
LEMMA FoldedFacts ==
  ASSUME NEW V, NEW X, NEW base \in V, NEW s \in Seq(X),
         NEW step, \A v \in V : \A x \in X : step[v][x] \in V
  PROVE  /\ Folded(step, base, s) \in V
         /\ s = <<>> => Folded(step, base, s) = base
         /\ \A x \in X :
              Folded(step, base, Append(s, x)) = step[Folded(step, base, s)][x]
  <1>1. PICK g : Course(step, base, s, g) /\ Folded(step, base, s) = g[Len(s)]
    BY FoldedCourse
  <1>2. Course(step, base, s, g)
    BY <1>1
  <1>3. Len(s) \in Nat
    OBVIOUS
  <1>4. g[Len(s)] \in V
    BY <1>2, <1>3, CoursesAgree, Z3
  <1>5. s = <<>> => g[Len(s)] = base
    <2>1. g[0] = base
      BY <1>2, <1>3 DEF Course
    <2>2. QED
      BY <2>1
  <1>6. ASSUME NEW x \in X
        PROVE  Folded(step, base, Append(s, x)) = step[Folded(step, base, s)][x]
    <2>1. PICK t : t = Append(s, x)
      OBVIOUS
    <2>2. /\ t \in Seq(X) /\ Len(t) = Len(s) + 1 /\ t[Len(s) + 1] = x
          /\ \A n \in 1..Len(s) : s[n] = t[n]
      BY <2>1
    <2>3. PICK h : Course(step, base, t, h) /\ Folded(step, base, t) = h[Len(t)]
      BY <2>2, FoldedCourse
    <2>4. Course(step, base, t, h)
      BY <2>3
    <2>5. h[Len(s) + 1] = step[h[Len(s)]][x]
      <3>1. t \in Seq(X)
        BY <2>2
      <3>2. \A n \in 0..(Len(t) - 1) : h[n + 1] = step[h[n]][t[n + 1]]
        BY <2>4, <3>1, CourseSteps, Z3
      <3>3. QED
        BY <1>3, <2>2, <3>2
    <2>6. g[Len(s)] = h[Len(s)]
      <3>1. PICK m \in Nat : m = Len(s)
        BY <1>3
      <3>2. m <= Len(s) /\ m <= Len(t) /\ \A n \in 1..m : s[n] = t[n]
        BY <2>2, <3>1
      <3>3. t \in Seq(X)
        BY <2>2
      <3>4. g[m] = h[m]
        BY <1>2, <2>4, <3>2, <3>3, CoursesAgree
      <3>5. QED
        BY <3>1, <3>4
    <2>7. QED
      BY <1>1, <2>1, <2>2, <2>3, <2>5, <2>6
  <1>7. QED
    BY <1>1, <1>4, <1>5, <1>6
-----------------------------------------------------------------------------
(* The costing of FifoLots *)

\* The quantity of lots is a number, and that of one more lot is added to it.
LEMMA QuantityFacts ==
  ASSUME NEW l \in Seq(Lot)
  PROVE  /\ Quantity(l) \in Int
         /\ l = <<>> => Quantity(l) = 0
         /\ \A x \in Lot : Quantity(Append(l, x)) = Quantity(l) + x.quantity
  <1> DEFINE step == [sum \in Int |-> [x \in Lot |-> sum + x.quantity]]
  <1>0. \A v \in Int : \A x \in Lot : step[v][x] \in Int
    BY DEF Lot
  <1>1. \A v \in Int : \A x \in Lot : step[v][x] = v + x.quantity
    OBVIOUS
  <1>2. \A t : Quantity(t) = Folded(step, 0, t)
    BY DEF Quantity
  <1> HIDE DEF step
  <1>3. PICK V, base, f : V = Int /\ base = 0 /\ f = step
    OBVIOUS
  <1>4. base \in V /\ \A v \in V : \A x \in Lot : f[v][x] \in V
    BY <1>0, <1>3
  <1>5. /\ Folded(f, base, l) \in V
        /\ l = <<>> => Folded(f, base, l) = base
        /\ \A x \in Lot : Folded(f, base, Append(l, x)) = f[Folded(f, base, l)][x]
    BY <1>4, FoldedFacts
  <1>6. QED
    BY <1>1, <1>2, <1>3, <1>5

\* And so their value.
LEMMA ValueFacts ==
  ASSUME NEW l \in Seq(Lot)
  PROVE  /\ Value(l) \in Int
         /\ \A x \in Lot : Value(Append(l, x)) = Value(l) + x.quantity * x.cost
  <1> DEFINE step == [sum \in Int |-> [x \in Lot |-> sum + x.quantity * x.cost]]
  <1>0. \A v \in Int : \A x \in Lot : step[v][x] \in Int
    BY DEF Lot
  <1>1. \A v \in Int : \A x \in Lot : step[v][x] = v + x.quantity * x.cost
    OBVIOUS
  <1>2. \A t : Value(t) = Folded(step, 0, t)
    BY DEF Value
  <1> HIDE DEF step
  <1>3. PICK V, base, f : V = Int /\ base = 0 /\ f = step
    OBVIOUS
  <1>4. base \in V /\ \A v \in V : \A x \in Lot : f[v][x] \in V
    BY <1>0, <1>3
  <1>5. /\ Folded(f, base, l) \in V
        /\ l = <<>> => Folded(f, base, l) = base
        /\ \A x \in Lot : Folded(f, base, Append(l, x)) = f[Folded(f, base, l)][x]
    BY <1>4, FoldedFacts
  <1>6. QED
    BY <1>1, <1>2, <1>3, <1>5

\* Rounding is off by at most half of the divisor.
LEMMA Rounding ==
  ASSUME NEW a \in Int, NEW b \in Int, b # 0
  PROVE  /\ RoundDiv(a, b) \in Int
         /\ 2 * Magnitude(RoundDiv(a, b) * b - a) <= Magnitude(b)
  <1>1. \A n, d \in Int : d > 0 =>
          n \div d \in Int /\ d * (n \div d) <= n /\ n < d * (n \div d) + d
    OBVIOUS
  <1>2. CASE b > 0
    <2> DEFINE k == (2 * a + b) \div (2 * b)
    <2>1. 2 * b > 0 /\ 2 * b \in Int /\ 2 * a + b \in Int
      BY <1>2
    <2>2. k \in Int /\ (2 * b) * k <= 2 * a + b /\ 2 * a + b < (2 * b) * k + 2 * b
      BY <1>1, <2>1
    <2>3. RoundDiv(a, b) = k
      BY <1>2 DEF RoundDiv
    <2> HIDE DEF k
    <2>4. (2 * b) * k = 2 * (k * b) /\ k * b \in Int
      BY <2>2
    <2>5. QED
      BY <1>2, <2>2, <2>3, <2>4 DEF Magnitude
  <1>3. CASE b < 0
    <2> DEFINE k == (-2 * a - b) \div (-2 * b)
    <2>1. -2 * b > 0 /\ -2 * b \in Int /\ -2 * a - b \in Int
      BY <1>3
    <2>2. k \in Int /\ (-2 * b) * k <= -2 * a - b /\ -2 * a - b < (-2 * b) * k + (-2 * b)
      BY <1>1, <2>1
    <2>3. RoundDiv(a, b) = k
      BY <1>3 DEF RoundDiv
    <2> HIDE DEF k
    <2>4. (-2 * b) * k = -2 * (k * b) /\ k * b \in Int
      BY <2>2
    <2>5. QED
      BY <1>3, <2>2, <2>3, <2>4 DEF Magnitude
  <1>4. QED
    BY <1>2, <1>3

\* Two averages that round the same quotient are at most one apart.
LEMMA RoundedTwice ==
  ASSUME NEW a \in Int, NEW c \in Int, NEW b \in Int, NEW v \in Int, b # 0,
         2 * Magnitude(a * b - v) <= Magnitude(b), 2 * Magnitude(c * b - v) <= Magnitude(b)
  PROVE  Magnitude(a - c) <= 1
  <1> DEFINE d == a - c
  <1>1. d \in Int /\ a * b = c * b + d * b
    OBVIOUS
  <1>2. a * b \in Int /\ c * b \in Int /\ d * b \in Int
    OBVIOUS
  <1> HIDE DEF d
  <1>3. Magnitude(d * b) <= Magnitude(b)
    BY <1>1, <1>2 DEF Magnitude
  <1>4. d >= 2 \/ d <= -2 => FALSE
    <2>1. CASE b > 0
      <3>1. d >= 2 => d * b >= 2 * b
        BY <1>1, <2>1
      <3>2. d <= -2 => d * b <= -2 * b
        BY <1>1, <2>1
      <3>3. QED
        BY <1>2, <1>3, <2>1, <3>1, <3>2 DEF Magnitude
    <2>2. CASE b < 0
      <3>1. d >= 2 => d * b <= 2 * b
        BY <1>1, <2>2
      <3>2. d <= -2 => d * b >= -2 * b
        BY <1>1, <2>2
      <3>3. QED
        BY <1>2, <1>3, <2>2, <3>1, <3>2 DEF Magnitude
    <2>3. QED
      BY <2>1, <2>2
  <1>5. QED
    BY <1>1, <1>4 DEF Magnitude, d

\* The average that is computed anew is that of the lots, up to rounding.
LEMMA AverageOfLots ==
  ASSUME NEW l \in Seq(Lot)
  PROVE  /\ calcFifoAvgCost(l) \in Int
         /\ Quantity(l) # 0 =>
              2 * Magnitude(calcFifoAvgCost(l) * Quantity(l) - Value(l)) <= Magnitude(Quantity(l))
  <1>1. Quantity(l) \in Int /\ Value(l) \in Int
    BY QuantityFacts, ValueFacts
  <1>2. QED
    BY <1>1, Rounding DEF calcFifoAvgCost

\* The average of an avg_cost product is a number.
LEMMA NewAverage ==
  ASSUME NEW s \in Int, NEW a \in Int, NEW q \in Int, NEW c \in Int
  PROVE  calcNewAvgCost(s, a, q, c) \in Int
  BY Rounding DEF calcNewAvgCost
\* A round of the draining loop keeps to lots.
LEMMA DrainType ==
  ASSUME NEW v \in Drained, NEW x \in Lot
  PROVE  Drain[v][x] \in Drained
  <1> DEFINE taken == Smaller(x.quantity, v.remaining)
             left == x.quantity - taken
             kept == IF left > 0 THEN Append(v.kept, [x EXCEPT !.quantity = left]) ELSE v.kept
  <1>1. v.remaining \in Int /\ v.kept \in Seq(Lot) /\ x.quantity \in Int
    BY DEF Drained, Lot
  <1>2. taken \in Int
    BY <1>1 DEF Smaller
  <1>3. left > 0 => [x EXCEPT !.quantity = left] \in Lot
    BY <1>1, <1>2 DEF Lot
  <1>4. kept \in Seq(Lot) /\ Append(v.kept, x) \in Seq(Lot)
    BY <1>1, <1>3
  <1>5. [remaining |-> v.remaining - taken, kept |-> kept] \in Drained
    BY <1>1, <1>2, <1>4 DEF Drained
  <1>6. [v EXCEPT !.kept = Append(@, x)] \in Drained
    BY <1>1, <1>4 DEF Drained
  <1>7. Drain[v][x] = IF v.remaining <= 0 THEN [v EXCEPT !.kept = Append(@, x)]
                      ELSE [remaining |-> v.remaining - taken, kept |-> kept]
    BY DEF Drain
  <1>8. QED
    BY <1>5, <1>6, <1>7

\* What is left of lots are lots.
LEMMA DeductedLots ==
  ASSUME NEW sorted \in Seq(Lot), NEW quantity \in Int, NEW date \in Nat
  PROVE  deductFifoLots(sorted, quantity, date) \in Seq(Lot)
  <1> DEFINE base == [remaining |-> Magnitude(quantity), kept |-> <<>>]
             end == Folded(Drain, base, sorted)
             phantom == [date |-> date, quantity |-> -end.remaining,
                         cost |-> IF sorted = <<>> THEN 0 ELSE Last(sorted).cost]
  <1>1. base \in Drained
    BY DEF Drained, Magnitude
  <1>2. \A v \in Drained : \A x \in Lot : Drain[v][x] \in Drained
    BY DrainType
  <1>3. end \in Drained
    <2> HIDE DEF base
    <2>1. PICK V, f : V = Drained /\ f = Drain
      OBVIOUS
    <2>2. Folded(f, base, sorted) \in V
      BY <1>1, <1>2, <2>1, FoldedFacts
    <2>3. QED
      BY <2>1, <2>2
  <1> HIDE DEF end
  <1>4. end.remaining \in Int /\ end.kept \in Seq(Lot)
    BY <1>3 DEF Drained
  <1>5. end.remaining > 0 => phantom \in Lot
    <2>1. sorted # <<>> => sorted[Len(sorted)] \in Lot
      OBVIOUS
    <2>2. QED
      BY <1>4, <2>1 DEF Lot, Last
  <1> HIDE DEF phantom
  <1>6. (IF end.remaining > 0 THEN Append(end.kept, phantom) ELSE end.kept) \in Seq(Lot)
    BY <1>4, <1>5
  <1>7. QED
    BY <1>6 DEF deductFifoLots, end, phantom

\* Lots in another order are lots.
LEMMA SortedLots ==
  ASSUME NEW l \in Seq(Lot), NEW sorted \in ByDate(l)
  PROVE  sorted \in Seq(Lot) /\ Len(sorted) = Len(l)
  <1>1. PICK o \in SetToSeqs(DOMAIN l) : sorted = [i \in DOMAIN l |-> l[o[i]]]
    BY DEF ByDate, Orders
  <1>2. Len(l) \in Nat /\ DOMAIN l = 1..Len(l) /\ \A i \in 1..Len(l) : l[i] \in Lot
    OBVIOUS
  <1>3. Cardinality(DOMAIN l) = Len(l)
    <2>1. PICK n \in Nat : n = Len(l)
      BY <1>2
    <2>2. Cardinality(1..n) = IF 1 > n THEN 0 ELSE n - 1 + 1
      BY FS_Interval
    <2>3. QED
      BY <1>2, <2>1, <2>2
  <1>4. \A i \in 1..Len(l) : o[i] \in 1..Len(l)
    BY <1>1, <1>2, <1>3 DEF SetToSeqs
  <1>5. \A i \in 1..Len(l) : l[o[i]] \in Lot
    BY <1>2, <1>4
  <1>6. sorted = [i \in 1..Len(l) |-> l[o[i]]]
    BY <1>1, <1>2
  <1>7. QED
    BY <1>2, <1>5, <1>6

-----------------------------------------------------------------------------
(* Lots as rows of units *)

\* A sequence without its first n elements.
LEMMA DropFacts ==
  ASSUME NEW S, NEW s \in Seq(S), NEW n \in Nat, n <= Len(s)
  PROVE  /\ SubSeq(s, n + 1, Len(s)) \in Seq(S)
         /\ Len(SubSeq(s, n + 1, Len(s))) = Len(s) - n
         /\ \A i \in 1..(Len(s) - n) : SubSeq(s, n + 1, Len(s))[i] = s[n + i]
  <1>1. PICK f, e, l : f = n + 1 /\ e = Len(s) /\ l = SubSeq(s, f, e)
    OBVIOUS
  <1>2. /\ f \in Int /\ e \in Int /\ e \in Nat /\ n <= e
        /\ e - f + 1 = e - n /\ \A i \in Int : f + i - 1 = n + i
    BY <1>1
  <1>3. \A i \in f..e : s[i] \in S
    <2>1. \A i \in f..e : i \in 1..Len(s)
      BY <1>1, <1>2
    <2>2. QED
      BY <2>1
  <1>4. /\ l \in Seq(S)
        /\ Len(l) = IF f <= e THEN e - f + 1 ELSE 0
        /\ \A i \in 1..(e - f + 1) : l[i] = s[f + i - 1]
    BY <1>1, <1>2, <1>3, SubSeqProperties
  <1>5. Len(l) = e - n
    BY <1>1, <1>2, <1>4
  <1>6. ASSUME NEW i \in 1..(e - n)
        PROVE  l[i] = s[n + i]
    <2>1. i \in 1..(e - f + 1) /\ f + i - 1 = n + i
      BY <1>2
    <2>2. l[i] = s[f + i - 1]
      BY <1>4, <2>1
    <2>3. QED
      BY <2>1, <2>2
  <1>7. l \in Seq(S) /\ Len(l) = e - n /\ \A i \in 1..(e - n) : l[i] = s[n + i]
    BY <1>4, <1>5, <1>6
  <1>8. QED
    BY <1>1, <1>7

\* What n elements less make of two sequences that are joined.
LEMMA DropConcat ==
  ASSUME NEW S, NEW a \in Seq(S), NEW b \in Seq(S), NEW n \in Nat, n <= Len(a) + Len(b)
  PROVE  SubSeq(a \o b, n + 1, Len(a \o b)) =
           IF n <= Len(a) THEN SubSeq(a, n + 1, Len(a)) \o b
           ELSE SubSeq(b, n - Len(a) + 1, Len(b))
  <1>1. PICK j, k, t : j = Len(a) /\ k = Len(b) /\ t = a \o b
    OBVIOUS
  <1>2. /\ j \in Nat /\ k \in Nat /\ t \in Seq(S) /\ Len(t) = j + k
        /\ \A i \in 1..(j + k) : t[i] = IF i <= j THEN a[i] ELSE b[i - j]
    BY <1>1, ConcatProperties
  <1>3. /\ \A i \in 1..(j + k) : t[i] \in S
        /\ \A i \in 1..j : a[i] \in S
        /\ \A i \in 1..k : b[i] \in S
    BY <1>1, <1>2
  <1>4. PICK l : l = SubSeq(t, n + 1, j + k)
    OBVIOUS
  <1>5. /\ l \in Seq(S) /\ Len(l) = j + k - n
        /\ \A i \in 1..(j + k - n) : l[i] = t[n + i]
    <2>1. t \in Seq(S) /\ n <= Len(t)
      BY <1>1, <1>2
    <2>2. /\ SubSeq(t, n + 1, Len(t)) \in Seq(S)
          /\ Len(SubSeq(t, n + 1, Len(t))) = Len(t) - n
          /\ \A i \in 1..(Len(t) - n) : SubSeq(t, n + 1, Len(t))[i] = t[n + i]
      BY <2>1, DropFacts
    <2>3. QED
      BY <1>2, <1>4, <2>2
  <1>6. CASE n <= j
    <2>1. PICK h : h = SubSeq(a, n + 1, j)
      OBVIOUS
    <2>2. h \in Seq(S) /\ Len(h) = j - n /\ \A i \in 1..(j - n) : h[i] = a[n + i]
      <3>1. n <= Len(a)
        BY <1>1, <1>6
      <3>2. /\ SubSeq(a, n + 1, Len(a)) \in Seq(S)
            /\ Len(SubSeq(a, n + 1, Len(a))) = Len(a) - n
            /\ \A i \in 1..(Len(a) - n) : SubSeq(a, n + 1, Len(a))[i] = a[n + i]
        BY <3>1, DropFacts
      <3>3. QED
        BY <1>1, <2>1, <3>2
    <2>3. PICK r : r = h \o b
      OBVIOUS
    <2>4. /\ r \in Seq(S) /\ Len(r) = j - n + k
          /\ \A i \in 1..(j - n + k) : r[i] = IF i <= j - n THEN h[i] ELSE b[i - (j - n)]
      <3>1. h \in Seq(S)
        BY <2>2
      <3>2. /\ h \o b \in Seq(S)
            /\ Len(h \o b) = Len(h) + Len(b)
            /\ \A i \in 1..(Len(h) + Len(b)) :
                 (h \o b)[i] = IF i <= Len(h) THEN h[i] ELSE b[i - Len(h)]
        BY <3>1, ConcatProperties
      <3>3. Len(h) = j - n /\ Len(b) = k
        BY <1>1, <2>2
      <3>4. QED
        BY <2>3, <3>2, <3>3
    <2>5. ASSUME NEW i \in 1..(j + k - n)
          PROVE  l[i] = r[i]
      <3>1. l[i] = t[n + i] /\ i \in 1..(j - n + k) /\ n + i \in 1..(j + k)
        BY <1>2, <1>5, <1>6
      <3>2. CASE i <= j - n
        <4>1. i \in 1..(j - n) /\ n + i <= j
          BY <1>2, <1>6, <3>2
        <4>2. QED
          BY <1>2, <2>2, <2>4, <3>1, <3>2, <4>1
      <3>3. CASE ~(i <= j - n)
        <4>1. ~(n + i <= j) /\ (n + i) - j = i - (j - n)
          BY <1>2, <1>6, <3>3
        <4>2. QED
          BY <1>2, <2>4, <3>1, <3>3, <4>1
      <3>4. QED
        BY <3>2, <3>3
    <2>6. Len(l) = Len(r)
      BY <1>2, <1>5, <2>4
    <2>7. \A i \in 1..Len(l) : l[i] = r[i]
      BY <1>5, <2>5
    <2>8. l = r
      BY <1>5, <2>4, <2>6, <2>7, SeqEqual
    <2>9. QED
      BY <1>1, <1>2, <1>4, <1>6, <2>1, <2>3, <2>8
  <1>7. CASE ~(n <= j)
    <2>1. PICK r : r = SubSeq(b, n - j + 1, k)
      OBVIOUS
    <2>2. /\ r \in Seq(S) /\ Len(r) = j + k - n
          /\ \A i \in 1..(j + k - n) : r[i] = b[n - j + i]
      <3>1. PICK m : m = n - j
        OBVIOUS
      <3>2. m \in Nat /\ m <= k /\ k - m = j + k - n
        BY <1>1, <1>2, <1>7, <3>1
      <3>3. m <= Len(b)
        BY <1>1, <3>2
      <3>4. /\ SubSeq(b, m + 1, Len(b)) \in Seq(S)
            /\ Len(SubSeq(b, m + 1, Len(b))) = Len(b) - m
            /\ \A i \in 1..(Len(b) - m) : SubSeq(b, m + 1, Len(b))[i] = b[m + i]
        BY <3>2, <3>3, DropFacts
      <3>5. r = SubSeq(b, m + 1, Len(b)) /\ Len(b) - m = j + k - n
        BY <1>1, <2>1, <3>1, <3>2
      <3>6. QED
        BY <3>1, <3>4, <3>5
    <2>3. ASSUME NEW i \in 1..(j + k - n)
          PROVE  l[i] = r[i]
      <3>1. n + i \in 1..(j + k) /\ ~(n + i <= j) /\ (n + i) - j = n - j + i
        BY <1>2, <1>7
      <3>2. QED
        BY <1>2, <1>5, <2>2, <3>1
    <2>4. Len(l) = Len(r) /\ \A i \in 1..Len(l) : l[i] = r[i]
      BY <1>5, <2>2, <2>3
    <2>5. l = r
      BY <1>5, <2>2, <2>4, SeqEqual
    <2>6. QED
      BY <1>1, <1>2, <1>4, <1>7, <2>1, <2>5
  <1>8. QED
    BY <1>6, <1>7

\* A lot of goods that are there is as many units as its quantity.
LEMMA UnitsOfFacts ==
  ASSUME NEW x \in Lot
  PROVE  /\ UnitsOf(x) \in Row
         /\ x.quantity > 0 =>
              /\ Len(UnitsOf(x)) = x.quantity
              /\ \A i \in 1..x.quantity : UnitsOf(x)[i] = <<x.date, x.cost>>
  <1>1. PICK q, u : q = x.quantity /\ u = <<x.date, x.cost>>
    OBVIOUS
  <1>2. q \in Int /\ u \in Nat \X Int
    BY <1>1 DEF Lot
  <1>3. UnitsOf(x) = [i \in 1..q |-> u]
    BY <1>1 DEF UnitsOf
  <1>4. CASE q > 0
    <2>1. q \in Nat
      BY <1>2, <1>4
    <2>2. PICK f : f = [i \in 1..q |-> u]
      OBVIOUS
    <2>3. f \in Seq(Nat \X Int) /\ Len(f) = q /\ \A i \in 1..q : f[i] = u
      BY <1>2, <2>1, <2>2
    <2>4. QED
      BY <1>1, <1>3, <2>2, <2>3 DEF Row
  <1>5. CASE ~(q > 0)
    <2>1. 1..q = {}
      BY <1>2, <1>5
    <2>2. [i \in 1..q |-> u] = <<>>
      BY <2>1
    <2>3. UnitsOf(x) = <<>>
      BY <1>3, <2>2
    <2>4. UnitsOf(x) \in Row
      BY <2>3 DEF Row
    <2>5. QED
      BY <1>1, <1>5, <2>4
  <1>6. QED
    BY <1>4, <1>5

\* The units of one more lot come after those of the others.
LEMMA UnitsFacts ==
  ASSUME NEW s \in Seq(Lot)
  PROVE  /\ Units(s) \in Row
         /\ s = <<>> => Units(s) = <<>>
         /\ \A x \in Lot : Units(Append(s, x)) = Units(s) \o UnitsOf(x)
  <1> DEFINE step == [row \in Row |-> [lot \in Lot |-> row \o UnitsOf(lot)]]
  <1>0. \A v \in Row : \A x \in Lot : step[v][x] = v \o UnitsOf(x)
    OBVIOUS
  <1>1. ASSUME NEW v \in Row, NEW x \in Lot
        PROVE  v \o UnitsOf(x) \in Row
    <2>1. PICK u : u = UnitsOf(x)
      OBVIOUS
    <2>2. v \in Seq(Nat \X Int) /\ u \in Seq(Nat \X Int)
      BY <2>1, UnitsOfFacts DEF Row
    <2>3. v \o u \in Seq(Nat \X Int)
      BY <2>2, ConcatProperties
    <2>4. QED
      BY <2>1, <2>3 DEF Row
  <1>2. \A t : Units(t) = Folded(step, <<>>, t)
    BY DEF Units
  <1> HIDE DEF step
  <1>3. PICK V, base, f : V = Row /\ base = <<>> /\ f = step
    OBVIOUS
  <1>4. base \in V /\ \A v \in V : \A x \in Lot : f[v][x] \in V
    <2>1. base \in V
      BY <1>3 DEF Row
    <2>2. QED
      BY <1>0, <1>1, <1>3, <2>1
  <1>5. /\ Folded(f, base, s) \in V
        /\ s = <<>> => Folded(f, base, s) = base
        /\ \A x \in Lot : Folded(f, base, Append(s, x)) = f[Folded(f, base, s)][x]
    BY <1>4, FoldedFacts
  <1>6. QED
    BY <1>0, <1>2, <1>3, <1>5

\* A lot is kept once nothing is wanted any more, dropped while more is wanted
\* than it holds, and else what is left of it is kept.
LEMMA DrainFacts ==
  ASSUME NEW v \in Drained, NEW x \in Lot, x.quantity > 0
  PROVE  /\ v.remaining = 0 =>
              Drain[v][x].remaining = 0 /\ Drain[v][x].kept = Append(v.kept, x)
         /\ v.remaining > 0 /\ x.quantity <= v.remaining =>
              /\ Drain[v][x].remaining = v.remaining - x.quantity
              /\ Drain[v][x].kept = v.kept
         /\ v.remaining > 0 /\ ~(x.quantity <= v.remaining) =>
              /\ Drain[v][x].remaining = 0
              /\ \E y \in Lot : /\ y.quantity = x.quantity - v.remaining
                                /\ y.date = x.date /\ y.cost = x.cost
                                /\ Drain[v][x].kept = Append(v.kept, y)
  <1> DEFINE taken == Smaller(x.quantity, v.remaining)
             left == x.quantity - taken
             kept == IF left > 0 THEN Append(v.kept, [x EXCEPT !.quantity = left]) ELSE v.kept
  <1>1. v.remaining \in Int /\ v.kept \in Seq(Lot) /\ x.quantity \in Int
    BY DEF Drained, Lot
  <1>2. Drain[v][x] = IF v.remaining <= 0 THEN [v EXCEPT !.kept = Append(@, x)]
                      ELSE [remaining |-> v.remaining - taken, kept |-> kept]
    BY DEF Drain
  <1>3. ASSUME v.remaining = 0
        PROVE  Drain[v][x].remaining = 0 /\ Drain[v][x].kept = Append(v.kept, x)
    <2>1. Drain[v][x] = [v EXCEPT !.kept = Append(@, x)]
      BY <1>2, <1>3
    <2>2. QED
      BY <1>3, <2>1 DEF Drained
  <1>4. ASSUME v.remaining > 0
        PROVE  Drain[v][x].remaining = v.remaining - taken /\ Drain[v][x].kept = kept
    <2>1. ~(v.remaining <= 0)
      BY <1>1, <1>4
    <2> HIDE DEF taken, kept
    <2>2. Drain[v][x] = [remaining |-> v.remaining - taken, kept |-> kept]
      BY <1>2, <2>1
    <2>3. QED
      BY <2>2
  <1>5. ASSUME v.remaining > 0, x.quantity <= v.remaining
        PROVE  Drain[v][x].remaining = v.remaining - x.quantity /\ Drain[v][x].kept = v.kept
    <2>1. taken = x.quantity
      BY <1>1, <1>5 DEF Smaller
    <2>2. ~(left > 0)
      BY <1>1, <2>1
    <2>3. QED
      BY <1>4, <1>5, <2>1, <2>2
  <1>6. ASSUME v.remaining > 0, ~(x.quantity <= v.remaining)
        PROVE  /\ Drain[v][x].remaining = 0
               /\ \E y \in Lot : /\ y.quantity = x.quantity - v.remaining
                                 /\ y.date = x.date /\ y.cost = x.cost
                                 /\ Drain[v][x].kept = Append(v.kept, y)
    <2>1. taken = v.remaining
      BY <1>1, <1>6 DEF Smaller
    <2>2. left = x.quantity - v.remaining /\ left > 0 /\ left \in Int /\ left # 0
      BY <1>1, <1>6, <2>1
    <2>3. PICK y : y = [x EXCEPT !.quantity = left]
      OBVIOUS
    <2> HIDE DEF left
    <2>4. y \in Lot /\ y.quantity = left /\ y.date = x.date /\ y.cost = x.cost
      BY <2>2, <2>3 DEF Lot
    <2>5. kept = Append(v.kept, y)
      BY <2>2, <2>3
    <2>6. Drain[v][x].remaining = 0
      BY <1>1, <1>4, <1>6, <2>1
    <2>7. QED
      BY <1>4, <1>6, <2>2, <2>4, <2>5, <2>6
  <1>7. QED
    BY <1>3, <1>5, <1>6

\* What the loop over s has come to when n are wanted: nothing is kept while
\* more is wanted than there were units; then the units after the first n.
FirstTaken(s, n) ==
  LET d == Folded(Drain, [remaining |-> n, kept |-> <<>>], s)
      row == Units(s)
  IN  /\ d \in Drained
      /\ \/ d.remaining > 0 /\ d.kept = <<>> /\ d.remaining = n - Len(row)
         \/ d.remaining = 0 /\ n <= Len(row) /\ Units(d.kept) = SubSeq(row, n + 1, Len(row))

LEMMA FirstTakenStep ==
  ASSUME NEW s \in Seq(Lot), NEW x \in Lot, x.quantity > 0, NEW n \in Nat \ {0},
         FirstTaken(s, n)
  PROVE  FirstTaken(Append(s, x), n)
  <1>1. PICK base : base = [remaining |-> n, kept |-> <<>>]
    OBVIOUS
  <1>2. base \in Drained
    BY <1>1 DEF Drained
  <1>3. \A v \in Drained : \A l \in Lot : Drain[v][l] \in Drained
    BY DrainType
  <1>4. PICK d, e, row, more, xs :
          /\ d = Folded(Drain, base, s) /\ e = Folded(Drain, base, Append(s, x))
          /\ row = Units(s) /\ more = Units(Append(s, x)) /\ xs = UnitsOf(x)
    OBVIOUS
  <1>5. PICK q : q = x.quantity
    OBVIOUS
  <1>6. d \in Drained /\ e = Drain[d][x] /\ e \in Drained
    <2>1. PICK V, f : V = Drained /\ f = Drain
      OBVIOUS
    <2>2. base \in V /\ \A v \in V : \A l \in Lot : f[v][l] \in V
      BY <1>2, <1>3, <2>1
    <2>3. /\ Folded(f, base, s) \in V
          /\ \A l \in Lot : Folded(f, base, Append(s, l)) = f[Folded(f, base, s)][l]
      BY <2>2, FoldedFacts
    <2>4. d \in Drained /\ e = Drain[d][x]
      BY <1>4, <2>1, <2>3
    <2>5. QED
      BY <1>3, <2>4
  <1>7. /\ row \in Seq(Nat \X Int) /\ xs \in Seq(Nat \X Int) /\ more = row \o xs
        /\ Len(xs) = q /\ \A i \in 1..q : xs[i] = <<x.date, x.cost>>
    <2>1. row \in Row /\ more = row \o xs
      BY <1>4, UnitsFacts
    <2>2. xs \in Row /\ Len(xs) = q /\ \A i \in 1..q : xs[i] = <<x.date, x.cost>>
      BY <1>4, <1>5, UnitsOfFacts
    <2>3. QED
      BY <2>1, <2>2 DEF Row
  <1>8. Len(row) \in Nat /\ Len(more) = Len(row) + q /\ q \in Nat /\ q > 0
    <2>1. Len(row \o xs) = Len(row) + Len(xs)
      BY <1>7, ConcatProperties
    <2>2. q \in Int
      BY <1>5 DEF Lot
    <2>3. QED
      BY <1>5, <1>7, <2>1, <2>2
  <1>9. n <= Len(more) =>
          SubSeq(more, n + 1, Len(more)) =
            IF n <= Len(row) THEN SubSeq(row, n + 1, Len(row)) \o xs
            ELSE SubSeq(xs, n - Len(row) + 1, q)
    <2>1. PICK S : S = Nat \X Int
      OBVIOUS
    <2>2. row \in Seq(S) /\ xs \in Seq(S)
      BY <1>7, <2>1
    <2>3. n <= Len(row) + Len(xs) =>
            SubSeq(row \o xs, n + 1, Len(row \o xs)) =
              IF n <= Len(row) THEN SubSeq(row, n + 1, Len(row)) \o xs
              ELSE SubSeq(xs, n - Len(row) + 1, Len(xs))
      BY <2>2, DropConcat
    <2>4. QED
      BY <1>7, <1>8, <2>3
  <1>10. /\ d.remaining \in Int /\ d.kept \in Seq(Lot)
         /\ \/ d.remaining > 0 /\ d.kept = <<>> /\ d.remaining = n - Len(row)
            \/ d.remaining = 0 /\ n <= Len(row) /\ Units(d.kept) = SubSeq(row, n + 1, Len(row))
    BY <1>1, <1>4, <1>6 DEF FirstTaken, Drained
  <1>11. /\ d.remaining = 0 => e.remaining = 0 /\ e.kept = Append(d.kept, x)
         /\ d.remaining > 0 /\ q <= d.remaining =>
              e.remaining = d.remaining - q /\ e.kept = d.kept
         /\ d.remaining > 0 /\ ~(q <= d.remaining) =>
              /\ e.remaining = 0
              /\ \E y \in Lot : /\ y.quantity = q - d.remaining
                                /\ y.date = x.date /\ y.cost = x.cost
                                /\ e.kept = Append(d.kept, y)
    BY <1>5, <1>6, DrainFacts
  <1>12. \/ e.remaining > 0 /\ e.kept = <<>> /\ e.remaining = n - Len(more)
         \/ e.remaining = 0 /\ n <= Len(more) /\ Units(e.kept) = SubSeq(more, n + 1, Len(more))
    <2>1. CASE d.remaining = 0
      <3>1. n <= Len(row) /\ Units(d.kept) = SubSeq(row, n + 1, Len(row))
        BY <1>10, <2>1
      <3>2. Units(Append(d.kept, x)) = Units(d.kept) \o xs
        BY <1>4, <1>10, UnitsFacts
      <3>3. n <= Len(more)
        BY <1>8, <3>1
      <3>4. SubSeq(more, n + 1, Len(more)) = SubSeq(row, n + 1, Len(row)) \o xs
        BY <1>9, <3>1, <3>3
      <3>5. e.remaining = 0 /\ e.kept = Append(d.kept, x)
        BY <1>11, <2>1
      <3>6. QED
        BY <3>1, <3>2, <3>3, <3>4, <3>5
    <2>2. CASE d.remaining > 0 /\ q <= d.remaining
      <3>1. d.kept = <<>> /\ d.remaining = n - Len(row)
        BY <1>10, <2>2
      <3>2. e.remaining = n - Len(more) /\ e.kept = <<>>
        BY <1>8, <1>11, <2>2, <3>1
      <3>3. CASE e.remaining > 0
        BY <3>2, <3>3
      <3>4. CASE ~(e.remaining > 0)
        <4>1. n = Len(more) /\ e.remaining = 0
          BY <1>8, <1>10, <1>11, <2>2, <3>1, <3>2, <3>4
        <4>2. ~(n <= Len(row)) /\ n - Len(row) + 1 = q + 1
          BY <1>8, <4>1
        <4>3. SubSeq(more, n + 1, Len(more)) = SubSeq(xs, q + 1, q)
          BY <1>8, <1>9, <4>1, <4>2
        <4>4. SubSeq(xs, q + 1, q) = <<>>
          BY <1>7, <1>8, SubSeqEmpty
        <4>5. Units(e.kept) = <<>>
          <5>1. e.kept \in Seq(Lot) /\ e.kept = <<>>
            BY <1>10, <1>11, <2>2, <3>2
          <5>2. QED
            BY <5>1, UnitsFacts
        <4>6. n <= Len(more)
          BY <1>8, <4>1
        <4>7. QED
          BY <4>1, <4>3, <4>4, <4>5, <4>6
      <3>5. QED
        BY <3>3, <3>4
    <2>3. CASE d.remaining > 0 /\ ~(q <= d.remaining)
      <3>1. d.kept = <<>> /\ d.remaining = n - Len(row)
        BY <1>10, <2>3
      <3>2. PICK y \in Lot : /\ y.quantity = q - d.remaining
                             /\ y.date = x.date /\ y.cost = x.cost
                             /\ e.kept = Append(d.kept, y)
        BY <1>11, <2>3
      <3>3. PICK m : m = q - d.remaining
        OBVIOUS
      <3>4. m \in Nat /\ m > 0 /\ y.quantity = m /\ n <= Len(more) /\ ~(n <= Len(row))
            /\ n - Len(row) + 1 = q - m + 1 /\ m <= q
        <4>1. PICK j, k, left : j = Len(row) /\ k = Len(more) /\ left = d.remaining
          OBVIOUS
        <4>2. /\ j \in Nat /\ k = j + q /\ q \in Nat /\ left \in Int /\ left > 0 /\ ~(q <= left)
              /\ left = n - j /\ m = q - left
          BY <1>8, <1>10, <2>3, <3>1, <3>3, <4>1
        <4>3. m \in Nat /\ m > 0 /\ n <= k /\ ~(n <= j) /\ n - j + 1 = q - m + 1 /\ m <= q
          BY <4>2
        <4>4. y.quantity = m
          BY <3>2, <3>3
        <4>5. QED
          BY <4>1, <4>3, <4>4
      <3>5. SubSeq(more, n + 1, Len(more)) = SubSeq(xs, q - m + 1, q)
        BY <1>9, <3>4
      <3>6. PICK ys : ys = UnitsOf(y)
        OBVIOUS
      <3>7. ys \in Seq(Nat \X Int) /\ Len(ys) = m /\ \A i \in 1..m : ys[i] = <<x.date, x.cost>>
        BY <3>2, <3>4, <3>6, UnitsOfFacts DEF Row
      <3>8. PICK tail : tail = SubSeq(xs, q - m + 1, q)
        OBVIOUS
      <3>9. /\ tail \in Seq(Nat \X Int) /\ Len(tail) = m
            /\ \A i \in 1..m : tail[i] = <<x.date, x.cost>>
        <4>1. tail \in Seq(Nat \X Int) /\ Len(tail) = m /\ \A i \in 1..m : tail[i] = xs[q - m + i]
          <5>1. PICK S, k : S = Nat \X Int /\ k = q - m
            OBVIOUS
          <5>2. xs \in Seq(S) /\ k \in Nat /\ k <= Len(xs) /\ Len(xs) = q /\ q - k = m
            BY <1>7, <1>8, <3>4, <5>1
          <5>3. /\ SubSeq(xs, k + 1, Len(xs)) \in Seq(S)
                /\ Len(SubSeq(xs, k + 1, Len(xs))) = Len(xs) - k
                /\ \A i \in 1..(Len(xs) - k) : SubSeq(xs, k + 1, Len(xs))[i] = xs[k + i]
            BY <5>2, DropFacts
          <5>4. tail = SubSeq(xs, k + 1, Len(xs)) /\ Len(xs) - k = m
            BY <3>8, <5>1, <5>2
          <5>5. QED
            BY <5>1, <5>3, <5>4
        <4>2. \A i \in 1..m : q - m + i \in 1..q
          BY <1>8, <3>4
        <4>3. QED
          BY <1>7, <4>1, <4>2
      <3>10. tail = ys
        <4>1. PICK S : S = Nat \X Int
          OBVIOUS
        <4>2. tail \in Seq(S) /\ ys \in Seq(S) /\ Len(tail) = Len(ys)
              /\ \A i \in 1..Len(tail) : tail[i] = ys[i]
          BY <3>7, <3>9, <4>1
        <4>3. QED
          BY <4>2, SeqEqual
      <3>11. Units(e.kept) = ys
        <4>1. PICK none \in Seq(Lot) : none = <<>>
          BY EmptySeq
        <4>2. Units(none) = <<>> /\ Units(Append(none, y)) = Units(none) \o ys
          BY <3>6, <4>1, UnitsFacts
        <4>3. <<>> \o ys = ys
          BY <3>7, ConcatEmptySeq
        <4>4. QED
          BY <3>1, <3>2, <4>1, <4>2, <4>3
      <3>12. e.remaining = 0
        BY <1>11, <2>3
      <3>13. QED
        BY <3>4, <3>5, <3>8, <3>10, <3>11, <3>12
    <2>4. QED
      BY <1>10, <2>1, <2>2, <2>3
  <1>13. QED
    BY <1>1, <1>4, <1>6, <1>12 DEF FirstTaken

\* So it is for any lots that hold goods, and any quantity.
LEMMA OldestFirstTaken ==
  ASSUME NEW s \in Seq(Lot), \A i \in 1..Len(s) : s[i].quantity > 0, NEW n \in Nat \ {0}
  PROVE  FirstTaken(s, n)
  <1>1. PICK k : k = Len(s)
    OBVIOUS
  <1>2. k \in Nat /\ \A i \in 1..k : s[i] \in Lot /\ s[i].quantity > 0
    BY <1>1
  <1> DEFINE S == {m \in 0..k : FirstTaken(SubSeq(s, 1, m), n)}
  <1>3. 0 \in S
    <2>1. SubSeq(s, 1, 0) = <<>>
      BY SubSeqEmpty
    <2>2. PICK none \in Seq(Lot) : none = <<>>
      BY EmptySeq
    <2>3. PICK V, f, base : V = Drained /\ f = Drain /\ base = [remaining |-> n, kept |-> <<>>]
      OBVIOUS
    <2>4. base \in V /\ \A v \in V : \A x \in Lot : f[v][x] \in V
      <3>1. base \in V
        BY <2>3 DEF Drained
      <3>2. \A v \in Drained : \A x \in Lot : Drain[v][x] \in Drained
        BY DrainType
      <3>3. QED
        BY <2>3, <3>1, <3>2
    <2>5. Folded(f, base, none) = base
      <3>1. /\ Folded(f, base, none) \in V
            /\ none = <<>> => Folded(f, base, none) = base
            /\ \A x \in Lot : Folded(f, base, Append(none, x)) = f[Folded(f, base, none)][x]
        BY <2>4, FoldedFacts
      <3>2. QED
        BY <2>2, <3>1
    <2>6. Units(none) = <<>>
      BY <2>2, UnitsFacts
    <2>7. PICK d : d = Folded(Drain, [remaining |-> n, kept |-> <<>>], none)
      OBVIOUS
    <2>8. d \in Drained /\ d.remaining = n /\ d.kept = <<>>
      BY <2>3, <2>4, <2>5, <2>7
    <2>9. d.remaining > 0 /\ d.remaining = n - Len(Units(none))
      BY <2>6, <2>8
    <2>10. FirstTaken(none, n)
      BY <2>7, <2>8, <2>9 DEF FirstTaken
    <2>11. SubSeq(s, 1, 0) = none
      BY <2>1, <2>2
    <2>12. FirstTaken(SubSeq(s, 1, 0), n)
      BY <2>10, <2>11
    <2>13. 0 \in 0..k
      BY <1>2
    <2>14. QED
      BY <2>12, <2>13
  <1>4. ASSUME NEW m \in 0..(k - 1), m \in S
        PROVE  m + 1 \in S
    <2>1. PICK t, x : t = SubSeq(s, 1, m) /\ x = s[m + 1]
      OBVIOUS
    <2>2. x \in Lot /\ x.quantity > 0
      BY <1>2, <2>1
    <2>3. t \in Seq(Lot) /\ Len(t) = m /\ \A i \in 1..m : t[i] = s[i]
      BY <1>1, <1>2, <2>1
    <2>4. FirstTaken(t, n)
      BY <1>4, <2>1
    <2>5. FirstTaken(Append(t, x), n)
      BY <2>2, <2>3, <2>4, FirstTakenStep
    <2>6. Append(t, x) = SubSeq(s, 1, m + 1)
      <3>1. PICK a, b, j : a = Append(t, x) /\ b = SubSeq(s, 1, j) /\ j = m + 1
        OBVIOUS
      <3>2. j \in 1..k
        BY <1>2, <3>1
      <3>3. b \in Seq(Lot) /\ Len(b) = j /\ \A i \in 1..j : b[i] = s[i]
        BY <1>1, <1>2, <3>1, <3>2
      <3>4. a \in Seq(Lot) /\ Len(a) = j /\ (\A i \in 1..m : a[i] = s[i]) /\ a[m + 1] = s[m + 1]
        BY <2>1, <2>2, <2>3, <3>1, AppendProperties
      <3>5. \A i \in 1..j : a[i] = b[i]
        BY <3>1, <3>3, <3>4
      <3>6. a = b
        BY <3>3, <3>4, <3>5, SeqEqual
      <3>7. QED
        BY <3>1, <3>6
    <2>7. m + 1 \in 0..k
      BY <1>2
    <2>8. QED
      BY <2>5, <2>6, <2>7
  <1> HIDE DEF S
  <1>5. \A m \in 0..(k - 1) : m \in S => m + 1 \in S
    BY <1>4
  <1>6. k \in S
    <2>1. 0..k \subseteq S
      BY <1>2, <1>3, <1>5, UpTo
    <2>2. QED
      BY <1>2, <2>1
  <1>7. SubSeq(s, 1, k) = s
    BY <1>1, SubSeqFull
  <1>8. QED
    BY <1>6, <1>7 DEF S

\* What is left when n are taken of s: the units after the first n, or a single
\* phantom lot of what was missing.
LeavesNewest(left, s, n) ==
  IF n <= Len(Units(s)) THEN Units(left) = SubSeq(Units(s), n + 1, Len(Units(s)))
  ELSE Len(left) = 1 /\ Quantity(left) = Len(Units(s)) - n

LEMMA DeductedOldest ==
  ASSUME NEW s \in Seq(Lot), \A i \in 1..Len(s) : s[i].quantity > 0,
         NEW n \in Nat \ {0}, NEW date \in Nat
  PROVE  LeavesNewest(deductFifoLots(s, n, date), s, n)
  <1>0. PICK left : left = deductFifoLots(s, n, date)
    OBVIOUS
  <1>1. PICK d, row : d = Folded(Drain, [remaining |-> n, kept |-> <<>>], s) /\ row = Units(s)
    OBVIOUS
  <1>2. /\ d \in Drained
        /\ \/ d.remaining > 0 /\ d.kept = <<>> /\ d.remaining = n - Len(row)
           \/ d.remaining = 0 /\ n <= Len(row) /\ Units(d.kept) = SubSeq(row, n + 1, Len(row))
    <2>1. FirstTaken(s, n)
      BY OldestFirstTaken
    <2>2. QED
      BY <1>1, <2>1 DEF FirstTaken
  <1>3. d.remaining \in Int
    BY <1>2 DEF Drained
  <1>4. Len(row) \in Nat
    <2>1. row \in Seq(Nat \X Int)
      BY <1>1, UnitsFacts DEF Row
    <2>2. QED
      BY <2>1
  <1>5. PICK phantom : phantom = [date |-> date, quantity |-> -d.remaining,
                                  cost |-> IF s = <<>> THEN 0 ELSE Last(s).cost]
    OBVIOUS
  <1>6. left = IF d.remaining > 0 THEN Append(d.kept, phantom) ELSE d.kept
    <2>1. Magnitude(n) = n
      BY DEF Magnitude
    <2>2. QED
      BY <1>0, <1>1, <1>5, <2>1 DEF deductFifoLots
  <1>7. CASE d.remaining > 0
    <2>1. d.kept = <<>> /\ d.remaining = n - Len(row) /\ ~(n <= Len(row))
      BY <1>2, <1>3, <1>4, <1>7
    <2>2. phantom \in Lot /\ phantom.quantity = Len(row) - n
      <3>1. s # <<>> => s[Len(s)] \in Lot
        OBVIOUS
      <3>2. (IF s = <<>> THEN 0 ELSE Last(s).cost) \in Int
        BY <3>1 DEF Lot, Last
      <3>3. -d.remaining \in Int \ {0} /\ -d.remaining = Len(row) - n
        BY <1>3, <1>4, <1>7, <2>1
      <3>4. QED
        BY <1>5, <3>2, <3>3 DEF Lot
    <2>3. PICK none \in Seq(Lot) : none = <<>>
      BY EmptySeq
    <2>4. left = Append(none, phantom)
      BY <1>6, <1>7, <2>1, <2>3
    <2>5. Len(Append(none, phantom)) = 1
      <3>1. Len(Append(none, phantom)) = Len(none) + 1
        BY <2>2, AppendProperties
      <3>2. QED
        BY <2>3, <3>1
    <2>6. Quantity(Append(none, phantom)) = Quantity(none) + phantom.quantity /\ Quantity(none) = 0
      BY <2>2, <2>3, QuantityFacts
    <2>7. Quantity(left) = Len(row) - n
      BY <1>4, <2>2, <2>4, <2>6
    <2>8. QED
      BY <1>0, <1>1, <2>1, <2>4, <2>5, <2>7 DEF LeavesNewest
  <1>8. CASE ~(d.remaining > 0)
    <2>1. n <= Len(row) /\ Units(d.kept) = SubSeq(row, n + 1, Len(row))
      BY <1>2, <1>8
    <2>2. left = d.kept
      BY <1>6, <1>8
    <2>3. QED
      BY <1>0, <1>1, <2>1, <2>2 DEF LeavesNewest
  <1>9. QED
    BY <1>7, <1>8

\* Lots in another order hold goods if the lots do.
LEMMA SortedHold ==
  ASSUME NEW l \in Seq(Lot), \A i \in DOMAIN l : l[i].quantity > 0, NEW sorted \in ByDate(l)
  PROVE  \A i \in 1..Len(sorted) : sorted[i].quantity > 0
  <1>1. PICK o \in SetToSeqs(DOMAIN l) : sorted = [i \in DOMAIN l |-> l[o[i]]]
    BY DEF ByDate, Orders
  <1>2. DOMAIN l = 1..Len(l) /\ Len(l) \in Nat /\ Len(sorted) = Len(l)
    BY SortedLots
  <1>3. Cardinality(DOMAIN l) = Len(l)
    <2>0. Len(l) \in Nat
      BY <1>2
    <2>1. PICK n \in Nat : n = Len(l)
      BY <2>0
    <2>2. Cardinality(1..n) = IF 1 > n THEN 0 ELSE n - 1 + 1
      BY FS_Interval
    <2>3. QED
      BY <1>2, <2>1, <2>2
  <1>4. \A i \in 1..Len(l) : o[i] \in DOMAIN l
    BY <1>1, <1>2, <1>3 DEF SetToSeqs
  <1>5. QED
    BY <1>1, <1>2, <1>4

-----------------------------------------------------------------------------
(* The folds over movements *)

\* A product of natural numbers is one.
LEMMA ProductOfNaturals ==
  ASSUME NEW a \in Nat, NEW b \in Nat
  PROVE  a * b \in Nat /\ (a > 0 /\ b > 0 => a * b > 0)
  OBVIOUS

\* A movement leads the replay from a state to a state.
LEMMA CostStates ==
  ASSUME NEW s \in CostState, NEW m \in Movement
  PROVE  nextCostState[s][m] \in CostState
  <1> DEFINE n == s.quantity + m.quantity
  <1>1. /\ s.quantity \in Int /\ s.num \in Int /\ s.den \in Nat \ {0} /\ s.slack \in Nat
        /\ m.quantity \in Int /\ m.after \in Int
        /\ m.type = "receive" => m.cost \in Int
    BY DEF CostState, Movement
  <1>2. nextCostState[s][m] =
          IF m.type # "receive" THEN [s EXCEPT !.quantity = m.after]
          ELSE IF n <= 0 THEN Unrounded(n, m.cost)
          ELSE [quantity |-> n,
                num |-> s.quantity * s.num + m.quantity * m.cost * s.den,
                den |-> n * s.den,
                slack |-> Magnitude(s.quantity) * s.slack + n * s.den]
    BY DEF nextCostState
  <1>0. n = s.quantity + m.quantity
    OBVIOUS
  <1> HIDE DEF n
  <1>3. CASE m.type # "receive"
    BY <1>1, <1>2, <1>3 DEF CostState
  <1>4. CASE m.type = "receive" /\ n <= 0
    BY <1>0, <1>1, <1>2, <1>4 DEF CostState, Unrounded
  <1>5. CASE m.type = "receive" /\ n > 0
    <2>1. PICK q, k, c, num, den, slack, u :
            /\ q = s.quantity /\ k = m.quantity /\ c = m.cost /\ num = s.num /\ den = s.den
            /\ slack = s.slack /\ u = n
      OBVIOUS
    <2>2. /\ q \in Int /\ k \in Int /\ c \in Int /\ num \in Int /\ den \in Nat \ {0}
          /\ slack \in Nat /\ u \in Nat \ {0}
      BY <1>0, <1>1, <1>5, <2>1
    <2>3. q * num + k * c * den \in Int
      BY <2>2
    <2>4. u * den \in Nat \ {0}
      <3>1. u \in Nat /\ den \in Nat /\ u > 0 /\ den > 0
        BY <2>2
      <3>2. QED
        BY <3>1, ProductOfNaturals
    <2>5. Magnitude(q) \in Nat
      BY <2>2 DEF Magnitude
    <2>6. Magnitude(q) * slack \in Nat
      BY <2>2, <2>5, ProductOfNaturals
    <2>7. Magnitude(q) * slack + u * den \in Nat
      BY <2>4, <2>6
    <2>8. nextCostState[s][m] =
            [quantity |-> u, num |-> q * num + k * c * den, den |-> u * den,
             slack |-> Magnitude(q) * slack + u * den]
      <3>1. nextCostState[s][m] =
              [quantity |-> n,
               num |-> s.quantity * s.num + m.quantity * m.cost * s.den,
               den |-> n * s.den,
               slack |-> Magnitude(s.quantity) * s.slack + n * s.den]
        <4>1. m.type = "receive" /\ ~(n <= 0)
          BY <1>0, <1>1, <1>5
        <4>2. QED
          BY <1>2, <4>1, Zenon
      <3>2. QED
        BY <2>1, <3>1, Zenon
    <2>9. u \in Int
      BY <2>2
    <2>10. QED
      BY <2>3, <2>4, <2>7, <2>8, <2>9 DEF CostState
  <1>6. n <= 0 \/ n > 0 \/ m.type # "receive"
    BY <1>0, <1>1
  <1>7. QED
    BY <1>3, <1>4, <1>5, <1>6

\* The replay over movements in the order of their ids.
Run(base, ms) == Folded(nextCostState, Unrounded(0, base), ms)

LEMMA RunFacts ==
  ASSUME NEW cost \in Int, NEW ms \in Seq(Movement)
  PROVE  /\ Run(cost, ms) \in CostState
         /\ ms = <<>> => Run(cost, ms) = Unrounded(0, cost)
         /\ \A m \in Movement : Run(cost, Append(ms, m)) = nextCostState[Run(cost, ms)][m]
  <1>1. Unrounded(0, cost) \in CostState
    BY DEF Unrounded, CostState
  <1>2. PICK V, base, f : V = CostState /\ base = Unrounded(0, cost) /\ f = nextCostState
    OBVIOUS
  <1>3. base \in V /\ \A s \in V : \A m \in Movement : f[s][m] \in V
    BY <1>1, <1>2, CostStates
  <1>4. /\ Folded(f, base, ms) \in V
        /\ ms = <<>> => Folded(f, base, ms) = base
        /\ \A m \in Movement : Folded(f, base, Append(ms, m)) = f[Folded(f, base, ms)][m]
    BY <1>3, FoldedFacts
  <1>5. \A t : Run(cost, t) = Folded(f, base, t)
    BY <1>2 DEF Run
  <1>6. QED
    BY <1>2, <1>4, <1>5

\* The magnitude of a sum and of a product.
LEMMA Magnitudes ==
  ASSUME NEW a \in Int, NEW b \in Int
  PROVE  /\ Magnitude(a) \in Nat
         /\ Magnitude(a + b) <= Magnitude(a) + Magnitude(b)
         /\ Magnitude(a * b) = Magnitude(a) * Magnitude(b)
  <1>1. Magnitude(a) \in Nat /\ Magnitude(a + b) <= Magnitude(a) + Magnitude(b)
    BY DEF Magnitude
  <1>2. CASE a >= 0 /\ b >= 0
    <2>1. a * b >= 0
      BY <1>2
    <2>2. QED
      BY <1>1, <1>2, <2>1 DEF Magnitude
  <1>3. CASE a < 0 /\ b >= 0
    <2>1. a * b <= 0 /\ (-a) * b = -(a * b)
      BY <1>3
    <2>2. QED
      BY <1>1, <1>3, <2>1 DEF Magnitude
  <1>4. CASE a >= 0 /\ b < 0
    <2>1. a * b <= 0 /\ a * (-b) = -(a * b)
      BY <1>4
    <2>2. QED
      BY <1>1, <1>4, <2>1 DEF Magnitude
  <1>5. CASE a < 0 /\ b < 0
    <2>1. a * b >= 0 /\ (-a) * (-b) = a * b
      BY <1>5
    <2>2. QED
      BY <1>1, <1>5, <2>1 DEF Magnitude
  <1>6. QED
    BY <1>2, <1>3, <1>4, <1>5

\* A factor scales a bound on twice a magnitude.
LEMMA MagnitudeScaled ==
  ASSUME NEW a \in Int, NEW b \in Int, NEW c \in Nat, a = 0 \/ 2 * Magnitude(b) <= c
  PROVE  /\ 2 * Magnitude(a * b) <= Magnitude(a) * c
         /\ Magnitude(a * b) \in Nat /\ Magnitude(a) * c \in Nat
  <1>1. /\ Magnitude(a * b) = Magnitude(a) * Magnitude(b)
        /\ Magnitude(a) \in Nat /\ Magnitude(b) \in Nat
    BY Magnitudes
  <1>2. PICK y, z : y = Magnitude(a) /\ z = Magnitude(b)
    OBVIOUS
  <1>3. y \in Nat /\ z \in Nat
    BY <1>1, <1>2
  <1>4. y = 0 \/ 2 * z <= c
    <2>1. a = 0 => y = 0
      BY <1>2 DEF Magnitude
    <2>2. QED
      BY <1>2, <2>1
  <1>5. 2 * (y * z) <= y * c /\ y * z \in Nat /\ y * c \in Nat
    BY <1>3, <1>4
  <1>6. QED
    BY <1>1, <1>2, <1>5

\* b is the average the product has after a receipt of k at c into a stock of
\* q = n - k with average a, rounded; and the replay's, which had num / den,
\* parts from it by what the receipts rounded.
GoodsReceived(q, k, c, a, n, b) == n = q + k /\ b = RoundDiv(q * a + k * c, n)
Parts(num, den, a, slack) == 2 * Magnitude(num - a * den) <= slack

LEMMA ReceiptRounds ==
  ASSUME NEW q \in Int, NEW k \in Int, NEW c \in Int, NEW a \in Int, NEW num \in Int,
         NEW den \in Nat \ {0}, NEW slack \in Nat, NEW n \in Nat \ {0}, NEW b \in Int,
         GoodsReceived(q, k, c, a, n, b), q = 0 \/ Parts(num, den, a, slack)
  PROVE  Parts(q * num + k * c * den, n * den, b, Magnitude(q) * slack + n * den)
  <1>1. PICK e, x : e = num - a * den /\ x = (q * a + k * c) - b * n
    OBVIOUS
  <1>2. e \in Int /\ x \in Int
    BY <1>1
  <1>3. (q * num + k * c * den) - b * (n * den) = q * e + den * x
    <2>1. q * e = q * num - q * (a * den)
      BY <1>1
    <2>2. den * x = den * (q * a) + den * (k * c) - den * (b * n)
      BY <1>1
    <2>3. q * (a * den) = den * (q * a) /\ k * c * den = den * (k * c) /\ b * (n * den) = den * (b * n)
      OBVIOUS
    <2>4. QED
      BY <2>1, <2>2, <2>3
  <1>4. 2 * Magnitude(x) <= n
    <2>1. q * a + k * c \in Int /\ n \in Int /\ n # 0
      OBVIOUS
    <2>2. PICK v : v = q * a + k * c
      OBVIOUS
    <2>3. v \in Int /\ b = RoundDiv(v, n)
      BY <2>1, <2>2 DEF GoodsReceived
    <2>4. 2 * Magnitude(b * n - v) <= Magnitude(n)
      BY <2>1, <2>3, Rounding
    <2>5. PICK y : y = b * n - v
      OBVIOUS
    <2>6. y \in Int /\ x = -y
      BY <1>1, <2>2, <2>3, <2>5
    <2>7. Magnitude(n) = n
      BY DEF Magnitude
    <2>8. QED
      BY <2>4, <2>5, <2>6, <2>7 DEF Magnitude
  <1>5. 2 * Magnitude(den * x) <= den * n /\ Magnitude(den * x) \in Nat /\ den * n \in Nat
    <2>1. Magnitude(den) = den /\ den \in Int /\ n \in Nat
      BY DEF Magnitude
    <2>2. QED
      BY <1>2, <1>4, <2>1, MagnitudeScaled
  <1>6. /\ 2 * Magnitude(q * e) <= Magnitude(q) * slack
        /\ Magnitude(q * e) \in Nat /\ Magnitude(q) * slack \in Nat
    <2>1. q = 0 \/ 2 * Magnitude(e) <= slack
      BY <1>1 DEF Parts
    <2>2. QED
      BY <1>2, <2>1, MagnitudeScaled
  <1>7. PICK g, h : g = q * e /\ h = den * x
    OBVIOUS
  <1>8. g \in Int /\ h \in Int
    BY <1>2, <1>7
  <1>9. Magnitude(g + h) <= Magnitude(g) + Magnitude(h)
    BY <1>8, Magnitudes
  <1>10. PICK y, z : y = Magnitude(q) * slack /\ z = den * n
    OBVIOUS
  <1>11. /\ 2 * Magnitude(g) <= y /\ 2 * Magnitude(h) <= z /\ y \in Nat /\ z \in Nat
         /\ Magnitude(g) \in Nat /\ Magnitude(h) \in Nat /\ Magnitude(g + h) \in Nat
    BY <1>5, <1>6, <1>7, <1>8, <1>10 DEF Magnitude
  <1>12. 2 * Magnitude(g + h) <= y + z
    BY <1>9, <1>11
  <1>13. n * den = den * n
    OBVIOUS
  <1>14. 2 * Magnitude((q * num + k * c * den) - b * (n * den)) <= Magnitude(q) * slack + n * den
    BY <1>3, <1>7, <1>10, <1>12, <1>13
  <1>15. QED
    BY <1>14 DEF Parts

\* Movements whose dates and begins are in the order of their ids are the ledger.
LEMMA LedgerInOrder ==
  ASSUME NEW ms \in Seq(Movement), InOrder(ms)
  PROVE  Ledger(ms) = ms
  <1>1. PICK n \in Nat : n = Len(ms)
    OBVIOUS
  <1>2. DOMAIN ms = 1..n
    BY <1>1
  <1>3. \A i \in 1..n : ms[i].date \in Nat /\ ms[i].began \in Nat
    BY <1>1 DEF Movement
  <1>4. ASSUME NEW i \in 1..n
        PROVE  {j \in DOMAIN ms : Precedes(ms, j, i)} = 1..(i - 1)
    <2>1. ASSUME NEW j \in 1..n
          PROVE  Precedes(ms, j, i) <=> j < i
      <3>1. j < i => Precedes(ms, j, i)
        BY <1>2 DEF InOrder
      <3>2. i < j => Precedes(ms, i, j)
        BY <1>2 DEF InOrder
      <3>3. /\ ms[i].date \in Nat /\ ms[i].began \in Nat
            /\ ms[j].date \in Nat /\ ms[j].began \in Nat
        BY <1>3
      <3>4. ~(Precedes(ms, i, j) /\ Precedes(ms, j, i))
        BY <3>3 DEF Precedes
      <3>5. ~Precedes(ms, i, i)
        BY <3>3 DEF Precedes
      <3>6. i < j \/ i = j \/ j < i
        OBVIOUS
      <3>7. QED
        BY <3>1, <3>2, <3>4, <3>5, <3>6
    <2>2. QED
      BY <1>2, <2>1
  <1>5. ASSUME NEW i \in 1..n
        PROVE  Cardinality({j \in DOMAIN ms : Precedes(ms, j, i)}) = i - 1
    <2>1. PICK k \in Nat : k = i - 1
      OBVIOUS
    <2>2. Cardinality(1..k) = IF 1 > k THEN 0 ELSE k - 1 + 1
      BY FS_Interval
    <2>3. Cardinality(1..k) = k
      BY <2>2
    <2>4. QED
      BY <1>4, <2>1, <2>3
  <1>6. ASSUME NEW k \in DOMAIN ms
        PROVE  (CHOOSE i \in DOMAIN ms : Cardinality({j \in DOMAIN ms : Precedes(ms, j, i)}) = k - 1) = k
    <2>1. PICK i : i = CHOOSE h \in DOMAIN ms :
                         Cardinality({j \in DOMAIN ms : Precedes(ms, j, h)}) = k - 1
      OBVIOUS
    <2>2. Cardinality({j \in DOMAIN ms : Precedes(ms, j, k)}) = k - 1
      BY <1>2, <1>5
    <2>3. /\ i \in DOMAIN ms
          /\ Cardinality({j \in DOMAIN ms : Precedes(ms, j, i)}) = k - 1
      BY <2>1, <2>2
    <2>4. Cardinality({j \in DOMAIN ms : Precedes(ms, j, i)}) = i - 1
      BY <1>2, <1>5, <2>3
    <2>5. i \in Int /\ k \in Int
      BY <1>2, <2>3
    <2>6. i = k
      BY <2>3, <2>4, <2>5
    <2>7. QED
      BY <2>1, <2>6
  <1> DEFINE at(k) ==
        CHOOSE i \in DOMAIN ms : Cardinality({j \in DOMAIN ms : Precedes(ms, j, i)}) = k - 1
  <1>7. Ledger(ms) = [k \in DOMAIN ms |-> ms[k]]
    <2>1. Ledger(ms) = [k \in DOMAIN ms |-> ms[at(k)]]
      BY Zenon DEF Ledger
    <2>2. \A k \in DOMAIN ms : at(k) = k
      BY <1>6
    <2> HIDE DEF at
    <2>3. QED
      BY <2>1, <2>2
  <1>8. QED
    BY <1>2, <1>7

\* What the movements after the first k of ms moved.
MovedAfter(ms, k) ==
  Folded([sum \in Int |-> [m \in Movement |->
            IF m.type = "close" THEN sum ELSE sum + m.after - m.before]],
         0, SubSeq(ms, k + 1, Len(ms)))

LEMMA MovedFacts ==
  ASSUME NEW ms \in Seq(Movement), NEW k \in Nat, k <= Len(ms)
  PROVE  /\ MovedAfter(ms, k) \in Int
         /\ k = Len(ms) => MovedAfter(ms, k) = 0
         /\ \A m \in Movement :
              MovedAfter(Append(ms, m), k) =
                MovedAfter(ms, k) + (IF m.type = "close" THEN 0 ELSE m.after - m.before)
  <1> DEFINE step == [sum \in Int |-> [m \in Movement |->
                        IF m.type = "close" THEN sum ELSE sum + m.after - m.before]]
  <1>0. \A m \in Movement : m.before \in Int /\ m.after \in Int
    BY DEF Movement
  <1>1. \A v \in Int : \A m \in Movement :
          step[v][m] = IF m.type = "close" THEN v ELSE v + m.after - m.before
    OBVIOUS
  <1>2. \A t : MovedAfter(t, k) = Folded(step, 0, SubSeq(t, k + 1, Len(t)))
    BY DEF MovedAfter
  <1> HIDE DEF step
  <1>3. Len(ms) \in Nat /\ \A i \in 1..Len(ms) : ms[i] \in Movement
    OBVIOUS
  <1>4. PICK part : part = SubSeq(ms, k + 1, Len(ms))
    OBVIOUS
  <1>5. /\ part \in Seq(Movement) /\ Len(part) = Len(ms) - k
        /\ \A i \in 1..(Len(ms) - k) : part[i] = ms[k + i]
    BY <1>3, <1>4
  <1>6. PICK V, base, f : V = Int /\ base = 0 /\ f = step
    OBVIOUS
  <1>7. base \in V /\ \A v \in V : \A m \in Movement : f[v][m] \in V
    BY <1>0, <1>1, <1>6
  <1>8. /\ Folded(f, base, part) \in V
        /\ part = <<>> => Folded(f, base, part) = base
        /\ \A m \in Movement : Folded(f, base, Append(part, m)) = f[Folded(f, base, part)][m]
    BY <1>5, <1>7, FoldedFacts
  <1>9. k = Len(ms) => part = <<>>
    BY <1>5
  <1>10. ASSUME NEW m \in Movement
         PROVE  SubSeq(Append(ms, m), k + 1, Len(Append(ms, m))) = Append(part, m)
    <2>1. PICK t : t = Append(ms, m)
      OBVIOUS
    <2>2. /\ t \in Seq(Movement) /\ Len(t) = Len(ms) + 1 /\ t[Len(ms) + 1] = m
          /\ \A i \in 1..Len(ms) : t[i] = ms[i]
      BY <2>1
    <2>3. PICK u : u = SubSeq(t, k + 1, Len(t))
      OBVIOUS
    <2>4. /\ u \in Seq(Movement) /\ Len(u) = Len(ms) + 1 - k
          /\ \A i \in 1..(Len(ms) + 1 - k) : u[i] = t[k + i]
      BY <1>3, <2>2, <2>3
    <2>5. PICK v : v = Append(part, m)
      OBVIOUS
    <2>6. /\ v \in Seq(Movement) /\ Len(v) = Len(ms) - k + 1 /\ v[Len(ms) - k + 1] = m
          /\ \A i \in 1..(Len(ms) - k) : v[i] = part[i]
      BY <1>5, <2>5
    <2>7. \A i \in 1..Len(u) : u[i] = v[i]
      <3> TAKE i \in 1..Len(u)
      <3>0. i \in 1..(Len(ms) + 1 - k)
        BY <2>4
      <3>1. CASE i = Len(ms) + 1 - k
        BY <1>3, <2>2, <2>4, <2>6, <3>1
      <3>2. CASE i \in 1..(Len(ms) - k)
        <4>1. k + i \in 1..Len(ms) /\ i \in 1..(Len(ms) + 1 - k)
          BY <1>3, <3>2
        <4>2. QED
          BY <1>5, <2>2, <2>4, <2>6, <3>2, <4>1
      <3>3. QED
        BY <1>3, <3>0, <3>1, <3>2
    <2>8. Len(u) = Len(v)
      BY <1>3, <2>4, <2>6
    <2>9. u = v
      <3>1. u \in [1..Len(u) -> Movement] /\ v \in [1..Len(u) -> Movement]
        BY <2>4, <2>6, <2>8
      <3>2. QED
        BY <2>7, <3>1
    <2>10. QED
      BY <2>1, <2>3, <2>5, <2>9
  <1>11. QED
    <2>1. MovedAfter(ms, k) = Folded(f, base, part)
      BY <1>2, <1>4, <1>6
    <2>2. \A m \in Movement : MovedAfter(Append(ms, m), k) = Folded(f, base, Append(part, m))
      BY <1>2, <1>6, <1>10
    <2>3. QED
      BY <1>0, <1>1, <1>6, <1>8, <1>9, <2>1, <2>2
-----------------------------------------------------------------------------
(* What a change makes of its product *)

USE ConstantsAssumption DEF Change, Kinds

\* Stock and average are those of the lots.
ByLots(r) == \E l \in Seq(Lot) : r = OfLots(l)
\* A lot is added to those of p, and the average computed, or not, as by a void.
LotAdded(r, p, x) ==
  /\ r.lots = Append(lots[p], x) /\ r.stock = stock[p] + x.quantity
  /\ r.avg = calcFifoAvgCost(r.lots) \/ (r.avg = avg[p] /\ x.cost = avg[p])

LEMMA OfLotsFacts ==
  ASSUME NEW r, ByLots(r)
  PROVE  /\ r.stock \in Int /\ r.avg \in Int /\ r.lots \in Seq(Lot)
         /\ r.stock = Quantity(r.lots) /\ r.avg = calcFifoAvgCost(r.lots)
  <1>1. PICK l \in Seq(Lot) : r = OfLots(l)
    BY DEF ByLots
  <1>2. r.stock = Quantity(l) /\ r.avg = calcFifoAvgCost(l) /\ r.lots = l
    BY <1>1 DEF OfLots, After
  <1>3. Quantity(l) \in Int /\ calcFifoAvgCost(l) \in Int
    BY QuantityFacts, AverageOfLots
  <1>4. QED
    BY <1>2, <1>3

\* Lots and movements have natural numbers as dates.
LEMMA Dates ==
  ASSUME TypeOK
  PROVE  today \in Nat /\ bangkokToday \in Nat
  <1>1. clock \in Nat
    BY DEF TypeOK
  <1>2. clock \div 2 \in Nat /\ (clock + 1) \div 2 \in Nat
    BY <1>1
  <1>3. QED
    BY <1>2 DEF today, bangkokToday

LEMMA DeductedFacts ==
  ASSUME TypeOK, NEW p \in Products, NEW quantity \in Int, NEW r \in Deducted(p, quantity)
  PROVE  ByLots(r)
  <1>1. PICK sorted \in ByDate(lots[p]) : r = OfLots(deductFifoLots(sorted, quantity, today))
    BY DEF Deducted
  <1>2. lots[p] \in Seq(Lot) /\ today \in Nat
    BY Dates DEF TypeOK
  <1>3. sorted \in Seq(Lot)
    BY <1>2, SortedLots
  <1>4. deductFifoLots(sorted, quantity, today) \in Seq(Lot)
    BY <1>2, <1>3, DeductedLots
  <1>5. QED
    BY <1>1, <1>4 DEF ByLots

LEMMA AdjustedFacts ==
  ASSUME TypeOK, NEW p \in Products, NEW delta \in Int \ {0}, NEW cost \in Nat \cup {NoCost},
         NEW r \in Adjusted(p, delta, cost)
  PROVE  ByLots(r)
  <1>1. CASE delta < 0
    <2>1. r \in Deducted(p, delta)
      BY <1>1 DEF Adjusted
    <2>2. QED
      BY <2>1, DeductedFacts
  <1>2. CASE ~(delta < 0)
    <2>1. PICK found \in FoundCosts(p, cost) : r = OfLots(Append(lots[p], NewLot(delta, found)))
      BY <1>2 DEF Adjusted
    <2>2. lots[p] \in Seq(Lot) /\ today \in Nat /\ avg[p] \in Int
      BY Dates DEF TypeOK
    <2>3. found \in Int
      <3>1. CASE cost # NoCost
        BY <2>1, <3>1 DEF FoundCosts
      <3>2. CASE cost = NoCost /\ lots[p] = <<>>
        BY <2>1, <2>2, <3>2 DEF FoundCosts
      <3>3. CASE cost = NoCost /\ lots[p] # <<>>
        <4>1. PICK sorted \in ByDate(lots[p]) : found = Last(sorted).cost
          BY <2>1, <3>3 DEF FoundCosts
        <4>2. sorted \in Seq(Lot) /\ Len(sorted) = Len(lots[p])
          BY <2>2, SortedLots
        <4>3. Len(lots[p]) \in Nat \ {0}
          BY <2>2, <3>3
        <4>4. sorted[Len(sorted)] \in Lot
          BY <4>2, <4>3
        <4>5. QED
          BY <4>1, <4>4 DEF Last, Lot
      <3>4. QED
        BY <3>1, <3>2, <3>3
    <2>4. NewLot(delta, found) \in Lot
      BY <2>2, <2>3 DEF NewLot, Lot
    <2>5. Append(lots[p], NewLot(delta, found)) \in Seq(Lot)
      BY <2>2, <2>4
    <2>6. QED
      BY <2>1, <2>5 DEF ByLots
  <1>3. QED
    BY <1>1, <1>2

\* Of a FIFO product the lots are drained or one is added.
LEMMA FifoOutcome ==
  ASSUME TypeOK, NEW t, Begun(t), t.product \in FifoProducts, NEW r \in Outcomes(t)
  PROVE  \/ ByLots(r)
         \/ \E x \in Lot : /\ LotAdded(r, t.product, x) /\ x.quantity = t.quantity
                           /\ r.avg # calcFifoAvgCost(r.lots) => t.kind = "void"
  <1> DEFINE p == t.product
             q == t.quantity
  <1>1. /\ p \in Products /\ q \in Int \ {0} /\ t.cost \in Nat \cup {NoCost}
        /\ t.kind \in {"receive", "adjust", "sale", "void"}
        /\ t.kind = "receive" => t.cost \in Nat
    BY DEF Begun
  <1>2. lots[p] \in Seq(Lot) /\ today \in Nat /\ avg[p] \in Int /\ stock[p] \in Int
    BY Dates, <1>1 DEF TypeOK
  <1>3. CASE t.kind = "receive"
    <2>1. r \in Received(p, q, t.cost)
      BY <1>3 DEF Outcomes
    <2>2. CASE q < 0
      <3>1. r \in Adjusted(p, q, NoCost)
        BY <2>1, <2>2 DEF Received
      <3>2. QED
        BY <1>1, <3>1, AdjustedFacts
    <2>3. CASE ~(q < 0)
      <3> DEFINE x == NewLot(q, t.cost)
                 l == Append(lots[p], x)
      <3>1. r = After(stock[p] + q, calcFifoAvgCost(l), l)
        BY <2>1, <2>3 DEF Received
      <3>2. x \in Lot /\ x.quantity = q
        BY <1>1, <1>2, <1>3 DEF NewLot, Lot
      <3>3. r.lots = l /\ r.stock = stock[p] + q /\ r.avg = calcFifoAvgCost(l)
        BY <3>1 DEF After
      <3>4. QED
        BY <3>2, <3>3 DEF LotAdded
    <2>4. QED
      BY <2>2, <2>3
  <1>4. CASE t.kind = "adjust"
    <2>1. r \in Adjusted(p, q, t.cost)
      BY <1>4 DEF Outcomes, AdjustedBy
    <2>2. QED
      BY <1>1, <2>1, AdjustedFacts
  <1>5. CASE t.kind = "sale"
    <2>1. r \in Deducted(p, q)
      BY <1>5 DEF Outcomes, Sold
    <2>2. QED
      BY <1>1, <2>1, DeductedFacts
  <1>6. CASE t.kind = "void"
    <2> DEFINE x == NewLot(q, avg[p])
    <2>1. r \in PutBack(p, q)
      BY <1>6 DEF Outcomes
    <2>2. r = After(stock[p] + q, avg[p], Append(lots[p], x))
      BY <2>1 DEF PutBack
    <2>3. x \in Lot /\ x.quantity = q /\ x.cost = avg[p]
      BY <1>1, <1>2 DEF NewLot, Lot
    <2>4. r.lots = Append(lots[p], x) /\ r.stock = stock[p] + q /\ r.avg = avg[p]
      BY <2>2 DEF After
    <2>5. QED
      BY <1>6, <2>3, <2>4 DEF LotAdded
  <1>7. QED
    BY <1>1, <1>3, <1>4, <1>5, <1>6

\* Of an avg_cost product there are no lots, and only a receipt and an adjustment
\* with a cost change the average.
LEMMA AvgOutcome ==
  ASSUME TypeOK, NEW t, Begun(t), t.product \notin FifoProducts, NEW r \in Outcomes(t)
  PROVE  /\ r.stock \in Int /\ r.avg \in Int /\ r.lots = <<>>
         /\ t.kind = "receive" =>
              /\ r.stock = stock[t.product] + t.quantity
              /\ r.avg = calcNewAvgCost(stock[t.product], avg[t.product], t.quantity, t.cost)
         /\ t.kind \in {"sale", "void"} \/ (t.kind = "adjust" /\ t.cost = NoCost) =>
              r.avg = avg[t.product]
  <1> DEFINE p == t.product
             q == t.quantity
             mean == calcNewAvgCost(stock[p], avg[p], q, t.cost)
  <1>1. /\ p \in Products /\ q \in Int /\ t.cost \in Nat \cup {NoCost}
        /\ t.kind \in {"receive", "adjust", "sale", "void"}
        /\ t.kind = "receive" => t.cost \in Nat
    BY DEF Begun
  <1>2. avg[p] \in Int /\ stock[p] \in Int
    BY <1>1 DEF TypeOK
  <1>3. t.cost \in Nat => mean \in Int
    <2>1. SUFFICES ASSUME t.cost \in Nat PROVE mean \in Int
      OBVIOUS
    <2>2. t.cost \in Int
      BY <2>1
    <2>3. QED
      BY <1>1, <1>2, <2>2, NewAverage
  <1> HIDE DEF mean
  <1>4. CASE t.kind = "receive"
    <2>1. r = After(stock[p] + q, mean, <<>>)
      BY <1>4 DEF Outcomes, Received, mean
    <2>2. QED
      BY <1>1, <1>2, <1>3, <1>4, <2>1 DEF After, mean
  <1>5. CASE t.kind = "adjust"
    <2>1. r = After(stock[p] + q, IF t.cost = NoCost THEN avg[p] ELSE mean, <<>>)
      BY <1>5 DEF Outcomes, AdjustedBy, mean
    <2>2. QED
      BY <1>1, <1>2, <1>3, <1>5, <2>1 DEF After
  <1>6. CASE t.kind = "sale"
    <2>1. r = After(stock[p] - q, avg[p], <<>>)
      BY <1>6 DEF Outcomes, Sold
    <2>2. QED
      BY <1>1, <1>2, <1>6, <2>1 DEF After
  <1>7. CASE t.kind = "void"
    <2>1. lots[p] = <<>>
      BY <1>1 DEF TypeOK
    <2>2. r = After(stock[p] + q, avg[p], <<>>)
      BY <1>7, <2>1 DEF Outcomes, PutBack
    <2>3. QED
      BY <1>1, <1>2, <1>7, <2>2 DEF After
  <1>8. QED
    BY <1>1, <1>4, <1>5, <1>6, <1>7

\* Every outcome has its types.
LEMMA OutcomeType ==
  ASSUME TypeOK, NEW t, Begun(t), NEW r \in Outcomes(t)
  PROVE  r.stock \in Int /\ r.avg \in Int /\ r.lots \in Seq(Lot)
  <1>1. t.product \in Products
    BY DEF Begun
  <1>2. stock[t.product] \in Int /\ avg[t.product] \in Int /\ lots[t.product] \in Seq(Lot)
    BY <1>1 DEF TypeOK
  <1>3. CASE t.product \notin FifoProducts
    <2>1. r.stock \in Int /\ r.avg \in Int /\ r.lots = <<>>
      BY <1>3, AvgOutcome
    <2>2. QED
      BY <2>1
  <1>4. CASE t.product \in FifoProducts
    <2>1. CASE ByLots(r)
      BY <2>1, OfLotsFacts
    <2>2. ASSUME NEW x \in Lot, LotAdded(r, t.product, x)
          PROVE  r.stock \in Int /\ r.avg \in Int /\ r.lots \in Seq(Lot)
      <3>1. r.lots \in Seq(Lot) /\ x.quantity \in Int
        BY <1>2, <2>2 DEF LotAdded, Lot
      <3>2. calcFifoAvgCost(r.lots) \in Int
        BY <3>1, AverageOfLots
      <3>3. QED
        BY <1>2, <2>2, <3>1, <3>2 DEF LotAdded
    <2>3. QED
      BY <1>4, <2>1, <2>2, FifoOutcome
  <1>5. QED
    BY <1>3, <1>4
-----------------------------------------------------------------------------
(* The two ways a product changes *)

\* Nothing happens to p, or it gets the movement m, from the stock it had
\* unless a stale one was written.
Same(p) ==
  stock'[p] = stock[p] /\ avg'[p] = avg[p] /\ lots'[p] = lots[p] /\ movements'[p] = movements[p]
Gets(p, m) ==
  /\ m \in Movement
  /\ movements'[p] = Append(movements[p], m)
  /\ stock'[p] = m.after
  /\ p \notin overwritten => m.before = stock[p]

\* A transaction changes one product, whose row no confirmation holds.
LEMMA ChangeFacts ==
  ASSUME TypeOK, NEW w \in Workers, ChangeProduct(w)
  PROVE  /\ Begun(tx[w])
         /\ \A c \in Confirmers : tx[w].product \notin DOMAIN confirm[c].wrote
         /\ \E r \in Outcomes(tx[w]) :
              LET p == tx[w].product
                  m == Entry(tx[w], stock[p], r.stock)
              IN  /\ stock' = [stock EXCEPT ![p] = r.stock]
                  /\ avg' = [avg EXCEPT ![p] = r.avg]
                  /\ lots' = [lots EXCEPT ![p] = r.lots]
                  /\ movements' = [movements EXCEPT ![p] = Append(movements[p], m)]
                  /\ Gets(p, m) /\ m.type = tx[w].kind
                  /\ \A o \in Products \ {p} : Same(o)
  <1>1. Begun(tx[w]) /\ \A c \in Confirmers : tx[w].product \notin DOMAIN confirm[c].wrote
    BY DEF ChangeProduct, TypeOK, RowFree
  <1> DEFINE t == tx[w]
             p == t.product
  <1>2. PICK r \in Outcomes(t) :
          LET after == r.stock - stock[p] + StockBefore(t)
          IN  /\ stock' = [stock EXCEPT ![p] = after]
              /\ avg' = [avg EXCEPT ![p] = r.avg]
              /\ lots' = [lots EXCEPT ![p] = r.lots]
              /\ movements' = [movements EXCEPT ![p] = Append(@, Entry(t, StockBefore(t), after))]
    BY DEF ChangeProduct
  <1>3. p \in Products /\ t.kind \in Kinds
    BY <1>1 DEF Begun
  <1>4. /\ stock \in [Products -> Int] /\ avg \in [Products -> Int]
        /\ lots \in [Products -> Seq(Lot)] /\ movements \in [Products -> Seq(Movement)]
    BY DEF TypeOK
  <1>5. r.stock \in Int
    BY <1>1, OutcomeType
  <1>6. r.stock - stock[p] + StockBefore(t) = r.stock /\ StockBefore(t) = stock[p]
    <2>1. StockBefore(t) = stock[p]
      BY DEF StockBefore
    <2>2. stock[p] \in Int
      BY <1>3, <1>4
    <2> HIDE DEF t, p
    <2>3. QED
      BY <1>5, <2>1, <2>2
  <1> DEFINE m == Entry(t, stock[p], r.stock)
  <1>7. m \in Movement /\ m.before = stock[p] /\ m.after = r.stock /\ m.type = t.kind
    <2>1. PICK q, cost, mean, before, kind, date, began :
            /\ q = t.quantity /\ cost = t.cost /\ mean = avg[p] /\ before = stock[p]
            /\ kind = t.kind /\ date = t.date /\ began = t.began
      OBVIOUS
    <2>2. /\ q \in Int /\ cost \in Nat \cup {NoCost} /\ mean \in Int /\ before \in Int
          /\ kind \in {"receive", "adjust", "sale", "void"} /\ date \in Nat /\ began \in Nat
          /\ kind = "receive" => cost \in Nat
      BY <1>1, <1>3, <1>4, <2>1 DEF Begun
    <2>3. m = [type |-> kind, quantity |-> IF kind = "sale" THEN -q ELSE q,
               cost |-> IF kind \in {"sale", "void"} THEN mean ELSE cost,
               before |-> before, after |-> r.stock, date |-> date, began |-> began]
      BY <2>1 DEF Entry
    <2> HIDE DEF m, t, p
    <2>4. -q \in Int
      BY <2>2
    <2>5. m.type = kind /\ m.before = before /\ m.after = r.stock
      BY <2>3
    <2>6. m \in Movement
      BY <1>5, <2>2, <2>3, <2>4 DEF Movement
    <2>7. QED
      BY <2>1, <2>5, <2>6
  <1> HIDE DEF m
  <1>8. /\ stock' = [stock EXCEPT ![p] = r.stock]
        /\ avg' = [avg EXCEPT ![p] = r.avg]
        /\ lots' = [lots EXCEPT ![p] = r.lots]
        /\ movements' = [movements EXCEPT ![p] = Append(movements[p], m)]
    BY <1>2, <1>6 DEF m
  <1>9. Gets(p, m)
    BY <1>3, <1>4, <1>7, <1>8 DEF Gets
  <1>10. \A o \in Products \ {p} : Same(o)
    BY <1>4, <1>8 DEF Same
  <1>11. QED
    BY <1>1, <1>7, <1>8, <1>9, <1>10 DEF m

\* A confirmation that commits moves the products it has written.
LEMMA CommitFacts ==
  ASSUME TypeOK, ConfirmationsAgree, NEW c \in Confirmers, ConfirmCommit(c)
  PROVE  /\ UNCHANGED <<avg, lots>>
         /\ stock' \in [Products -> Int] /\ movements' \in [Products -> Seq(Movement)]
         /\ \A p \in Products :
              IF p \in DOMAIN confirm[c].wrote
              THEN \E m : /\ Gets(p, m) /\ m.type = "close"
                          /\ m.after = m.before + confirm[c].variance[p]
              ELSE Same(p)
  <1> DEFINE k == confirm[c]
             entry(p) == [type |-> "close", quantity |-> k.variance[p], cost |-> items[p].cost,
                          before |-> k.wrote[p].before, after |-> k.wrote[p].after,
                          date |-> k.date, began |-> k.began]
  <1>1. /\ stock' = [p \in Products |->
             IF p \in DOMAIN k.wrote THEN k.wrote[p].after ELSE stock[p]]
        /\ movements' = [p \in Products |->
             IF p \in DOMAIN k.wrote THEN Append(movements[p], entry(p)) ELSE movements[p]]
        /\ UNCHANGED <<avg, lots>>
    BY DEF ConfirmCommit
  <1>2. Confirmation(k) /\ DOMAIN k.variance \subseteq DOMAIN items
    BY DEF TypeOK
  <1>3. \A p \in DOMAIN items : items[p] \in Item
    BY DEF TypeOK
  <1>4. /\ stock \in [Products -> Int] /\ movements \in [Products -> Seq(Movement)]
    BY DEF TypeOK
  <1>5. ASSUME NEW p \in Products, p \in DOMAIN k.wrote
        PROVE  entry(p) \in Movement /\ k.wrote[p].after \in Int
    <2>1. p \in DOMAIN k.variance /\ p \in DOMAIN items
      BY <1>2, <1>5 DEF Confirmation
    <2>2. /\ k.wrote[p].before \in Int /\ k.wrote[p].after \in Int
          /\ k.variance[p] \in Int /\ k.date \in Nat /\ k.began \in Nat
      BY <1>2, <1>5, <2>1 DEF Confirmation
    <2>3. items[p].cost \in Int
      BY <1>3, <2>1 DEF Item
    <2>4. QED
      BY <2>2, <2>3 DEF Movement
  <1>6. ASSUME NEW p \in Products, p \in DOMAIN k.wrote
        PROVE  /\ Gets(p, entry(p)) /\ entry(p).type = "close"
               /\ entry(p).after = entry(p).before + k.variance[p]
    <2>1. /\ k.wrote[p].after = k.wrote[p].before + k.variance[p]
          /\ p \notin overwritten => k.wrote[p].before = stock[p]
      BY <1>6 DEF ConfirmationsAgree
    <2>2. entry(p) \in Movement
      BY <1>5, <1>6
    <2>3. movements'[p] = Append(movements[p], entry(p)) /\ stock'[p] = k.wrote[p].after
      BY <1>1, <1>6
    <2>4. QED
      BY <2>1, <2>2, <2>3 DEF Gets
  <1>7. \A p \in Products : p \notin DOMAIN k.wrote => Same(p)
    BY <1>1 DEF Same
  <1>8. stock' \in [Products -> Int]
    BY <1>1, <1>4, <1>5
  <1>9. movements' \in [Products -> Seq(Movement)]
    <2>1. \A p \in Products : p \in DOMAIN k.wrote => entry(p) \in Movement
      BY <1>5
    <2> HIDE DEF entry
    <2>2. \A p \in Products : p \in DOMAIN k.wrote => Append(movements[p], entry(p)) \in Seq(Movement)
      BY <1>4, <2>1
    <2>3. QED
      BY <1>1, <1>4, <2>2
  <1>10. \A p \in Products : p \in DOMAIN k.wrote =>
            \E m : Gets(p, m) /\ m.type = "close" /\ m.after = m.before + k.variance[p]
    BY <1>6
  <1>11. QED
    BY <1>1, <1>7, <1>8, <1>9, <1>10
-----------------------------------------------------------------------------
(* Movements and stock *)

\* A movement that starts from where the last one ended joins them.
LEMMA JoinedAppend ==
  ASSUME NEW ms \in Seq(Movement), NEW m \in Movement, Joined(ms),
         m.before = IF ms = <<>> THEN 0 ELSE Last(ms).after
  PROVE  Joined(Append(ms, m)) /\ Append(ms, m) # <<>> /\ Last(Append(ms, m)) = m
  <1>1. PICK t : t = Append(ms, m)
    OBVIOUS
  <1>2. /\ t \in Seq(Movement) /\ Len(t) = Len(ms) + 1 /\ t[Len(ms) + 1] = m /\ t # <<>>
        /\ Len(ms) \in Nat /\ \A i \in 1..Len(ms) : t[i] = ms[i]
    BY <1>1
  <1>3. Last(t) = m
    BY <1>2 DEF Last
  <1>4. Head(t).before = 0
    <2>1. CASE ms = <<>>
      <3>1. Len(ms) = 0
        BY <2>1
      <3>2. t[1] = m
        BY <1>2, <3>1
      <3>3. QED
        BY <1>2, <2>1, <3>2
    <2>2. CASE ms # <<>>
      <3>1. Len(ms) >= 1
        BY <1>2, <2>2
      <3>2. t[1] = ms[1]
        BY <1>2, <3>1
      <3>3. Head(ms).before = 0 /\ Head(ms) = ms[1] /\ Head(t) = t[1]
        BY <1>2, <2>2 DEF Joined
      <3>4. QED
        BY <3>2, <3>3
    <2>3. QED
      BY <2>1, <2>2
  <1>5. ASSUME NEW i \in 1..(Len(t) - 1)
        PROVE  t[i].after = t[i + 1].before
    <2>1. CASE i = Len(ms)
      <3>1. ms # <<>>
        BY <1>2, <2>1
      <3>2. m.before = ms[Len(ms)].after
        BY <3>1 DEF Last
      <3>3. t[i] = ms[Len(ms)] /\ t[i + 1] = m
        BY <1>2, <2>1
      <3>4. QED
        BY <3>2, <3>3
    <2>2. CASE i \in 1..(Len(ms) - 1)
      <3>1. ms[i].after = ms[i + 1].before
        BY <2>2 DEF Joined
      <3>2. t[i] = ms[i] /\ t[i + 1] = ms[i + 1]
        BY <1>2, <2>2
      <3>3. QED
        BY <3>1, <3>2
    <2>3. QED
      BY <1>2, <2>1, <2>2
  <1>6. QED
    BY <1>1, <1>2, <1>3, <1>4, <1>5 DEF Joined

LEMMA MovementsPreserved ==
  ASSUME TypeOK, MovementsExplainStock, overwritten \subseteq overwritten',
         \A p \in Products : Same(p) \/ \E m : Gets(p, m)
  PROVE  MovementsExplainStock'
  <1> SUFFICES ASSUME NEW p \in Products, p \notin overwritten'
               PROVE  /\ Joined(movements'[p])
                      /\ stock'[p] = IF movements'[p] = <<>> THEN 0 ELSE Last(movements'[p]).after
    BY DEF MovementsExplainStock
  <1>1. p \notin overwritten /\ movements[p] \in Seq(Movement)
    BY DEF TypeOK
  <1>2. /\ Joined(movements[p])
        /\ stock[p] = IF movements[p] = <<>> THEN 0 ELSE Last(movements[p]).after
    BY <1>1 DEF MovementsExplainStock
  <1>3. CASE Same(p)
    BY <1>2, <1>3 DEF Same
  <1>4. ASSUME NEW m, Gets(p, m)
        PROVE  Joined(movements'[p]) /\ movements'[p] # <<>> /\ stock'[p] = Last(movements'[p]).after
    <2>1. /\ m \in Movement /\ m.before = stock[p] /\ stock'[p] = m.after
          /\ movements'[p] = Append(movements[p], m)
      BY <1>1, <1>4 DEF Gets
    <2>2. PICK ms : ms = movements[p]
      OBVIOUS
    <2>3. Joined(Append(ms, m)) /\ Append(ms, m) # <<>> /\ Last(Append(ms, m)) = m
      BY <1>1, <1>2, <2>1, <2>2, JoinedAppend
    <2>4. QED
      BY <2>1, <2>2, <2>3
  <1>5. QED
    BY <1>3, <1>4

-----------------------------------------------------------------------------
(* Lots and averages of FIFO products *)

\* A movement more: a product that has not been closed had not been, and one that
\* was never put back on nothing had not been either.
LEMMA HistoryGrows ==
  ASSUME NEW ms \in Seq(Movement), NEW m \in Movement
  PROVE  LET t == Append(ms, m)
         IN  /\ \A i \in DOMAIN ms : i \in DOMAIN t /\ t[i] = ms[i]
             /\ Len(t) \in DOMAIN t /\ t[Len(t)] = m
             /\ DOMAIN t = DOMAIN ms \cup {Len(t)}
  <1>1. PICK t : t = Append(ms, m)
    OBVIOUS
  <1>2. /\ t \in Seq(Movement) /\ Len(t) = Len(ms) + 1 /\ t[Len(ms) + 1] = m
        /\ Len(ms) \in Nat /\ \A i \in 1..Len(ms) : t[i] = ms[i]
        /\ DOMAIN t = 1..Len(t) /\ DOMAIN ms = 1..Len(ms)
    BY <1>1
  <1>3. QED
    BY <1>1, <1>2

\* The lots of a product hold its stock, and its average is theirs.
LotsHold(p) == stock[p] = Quantity(lots[p])
Rounded(p) ==
  Quantity(lots[p]) # 0 =>
    2 * Magnitude(avg[p] * Quantity(lots[p]) - Value(lots[p])) <= Magnitude(Quantity(lots[p]))

LEMMA LotsKept ==
  ASSUME TypeOK, NEW t, Begun(t), t.product \in FifoProducts, LotsHold(t.product),
         NEW r \in Outcomes(t)
  PROVE  r.stock = Quantity(r.lots)
  <1>1. t.product \in Products
    BY DEF Begun
  <1>2. lots[t.product] \in Seq(Lot)
    BY <1>1 DEF TypeOK
  <1>3. CASE ByLots(r)
    BY <1>3, OfLotsFacts
  <1>4. ASSUME NEW x \in Lot, LotAdded(r, t.product, x)
        PROVE  r.stock = Quantity(r.lots)
    <2>1. Quantity(Append(lots[t.product], x)) = Quantity(lots[t.product]) + x.quantity
      BY <1>2, QuantityFacts
    <2>2. QED
      BY <1>4, <2>1 DEF LotAdded, LotsHold
  <1>5. QED
    BY <1>3, <1>4, FifoOutcome

\* What is put back on a stock at its average adds nothing to the error.
LEMMA AverageKept ==
  ASSUME TypeOK, NEW t, Begun(t), t.product \in FifoProducts,
         NEW r \in Outcomes(t), Quantity(r.lots) # 0,
         t.kind = "void" => /\ LotsHold(t.product) /\ Rounded(t.product)
                            /\ stock[t.product] > 0 /\ t.quantity >= 0
  PROVE  2 * Magnitude(r.avg * Quantity(r.lots) - Value(r.lots)) <= Magnitude(Quantity(r.lots))
  <1>1. t.product \in Products
    BY DEF Begun
  <1>2. lots[t.product] \in Seq(Lot) /\ avg[t.product] \in Int /\ r.lots \in Seq(Lot)
    BY <1>1, OutcomeType DEF TypeOK
  <1>3. CASE r.avg = calcFifoAvgCost(r.lots)
    BY <1>2, <1>3, AverageOfLots
  <1>4. CASE r.avg # calcFifoAvgCost(r.lots)
    <2>1. ~ByLots(r)
      BY <1>4, OfLotsFacts
    <2>2. PICK x \in Lot : /\ LotAdded(r, t.product, x) /\ x.quantity = t.quantity
                           /\ r.avg # calcFifoAvgCost(r.lots) => t.kind = "void"
      BY <2>1, FifoOutcome
    <2>3. PICK l, a, q, n, v : /\ l = lots[t.product] /\ a = avg[t.product] /\ q = x.quantity
                               /\ n = Quantity(l) /\ v = Value(l)
      OBVIOUS
    <2>4. l \in Seq(Lot) /\ a \in Int /\ q \in Int
      BY <1>2, <2>3 DEF Lot
    <2>5. /\ n \in Int /\ Quantity(Append(l, x)) = n + q
          /\ v \in Int /\ Value(Append(l, x)) = v + q * x.cost
      BY <2>3, <2>4, QuantityFacts, ValueFacts
    <2>6. r.lots = Append(l, x) /\ r.avg = a /\ x.cost = a
      BY <1>4, <2>2, <2>3 DEF LotAdded
    <2>7. n > 0 /\ q >= 0 /\ 2 * Magnitude(a * n - v) <= Magnitude(n)
      BY <1>4, <2>2, <2>3, <2>5 DEF LotsHold, Rounded
    <2>8. a * (n + q) - (v + q * a) = a * n - v /\ a * n - v \in Int
      BY <2>4, <2>5
    <2>9. 2 * Magnitude(a * (n + q) - (v + q * a)) <= Magnitude(n + q)
      BY <2>4, <2>5, <2>7, <2>8 DEF Magnitude
    <2>10. QED
      BY <2>5, <2>6, <2>9
  <1>5. QED
    BY <1>3, <1>4
-----------------------------------------------------------------------------
(* A step of the products *)

\* Only a change and a confirmation that commits move products, and no stale
\* stock is forgotten.
LEMMA NextProducts ==
  ASSUME TypeOK, ConfirmationsAgree, [Next]_vars
  PROVE  /\ \/ UNCHANGED products
            \/ \E w \in Workers : ChangeProduct(w)
            \/ \E c \in Confirmers : ConfirmCommit(c)
         /\ overwritten \subseteq overwritten'
         /\ movements \in [Products -> Seq(Movement)] /\ movements' \in [Products -> Seq(Movement)]
         /\ \A p \in Products : Same(p) \/ \E m : Gets(p, m)
  <1>1. \/ UNCHANGED products
        \/ \E w \in Workers : ChangeProduct(w)
        \/ \E c \in Confirmers : ConfirmCommit(c)
    BY DEF Next, vars, SaleFails, Begin, Midnight, OpenClose, Snapshot, InsertItems, CountCheck,
           CountWrite, ConfirmRead, ConfirmItem, ConfirmWrite, Crash
  <1>2. overwritten \subseteq overwritten'
    BY DEF Next, vars, close, ChangeProduct, SaleFails, Begin, Midnight, OpenClose, Snapshot,
           InsertItems, CountCheck, CountWrite, ConfirmRead, ConfirmItem, ConfirmWrite,
           ConfirmCommit, Crash
  <1>3. movements \in [Products -> Seq(Movement)]
    BY DEF TypeOK
  <1>4. /\ movements' \in [Products -> Seq(Movement)]
        /\ \A p \in Products : Same(p) \/ \E m : Gets(p, m)
    <2>1. CASE UNCHANGED products
      BY <1>3, <2>1 DEF products, Same
    <2>2. ASSUME NEW w \in Workers, ChangeProduct(w)
          PROVE  /\ movements' \in [Products -> Seq(Movement)]
                 /\ \A p \in Products : Same(p) \/ \E m : Gets(p, m)
      <3>1. PICK r, p, m :
              /\ r \in Outcomes(tx[w])
              /\ p = tx[w].product
              /\ movements' = [movements EXCEPT ![p] = Append(movements[p], m)]
              /\ Gets(p, m) /\ \A o \in Products \ {p} : Same(o)
        BY <2>2, ChangeFacts
      <3>2. m \in Movement
        BY <3>1 DEF Gets
      <3>3. p \in Products
        BY <2>2, <3>1, ChangeFacts DEF Begun
      <3>4. Append(movements[p], m) \in Seq(Movement)
        BY <1>3, <3>2, <3>3
      <3>5. movements' \in [Products -> Seq(Movement)]
        BY <1>3, <3>1, <3>4
      <3>6. QED
        BY <3>1, <3>5
    <2>3. ASSUME NEW c \in Confirmers, ConfirmCommit(c)
          PROVE  /\ movements' \in [Products -> Seq(Movement)]
                 /\ \A p \in Products : Same(p) \/ \E m : Gets(p, m)
      <3>1. /\ movements' \in [Products -> Seq(Movement)]
            /\ \A p \in Products :
                 IF p \in DOMAIN confirm[c].wrote
                 THEN \E m : /\ Gets(p, m) /\ m.type = "close"
                             /\ m.after = m.before + confirm[c].variance[p]
                 ELSE Same(p)
        BY <2>3, CommitFacts
      <3>2. QED
        BY <3>1
    <2>4. QED
      BY <1>1, <2>1, <2>2, <2>3
  <1>5. QED
    BY <1>1, <1>2, <1>3, <1>4

\* A product whose lots count has not been closed before either; its movements
\* stay, and what they were not they are not.
LEMMA HistoryKept ==
  ASSUME TypeOK, NEW p \in Products, Same(p) \/ \E m : Gets(p, m)
  PROVE  /\ p \in ClosedProducts => \E i \in DOMAIN movements'[p] : movements'[p][i].type = "close"
         /\ PutBackOnNothing(movements[p]) => PutBackOnNothing(movements'[p])
         /\ Diverges(movements[p]) => Diverges(movements'[p])
         /\ OnEmpty(movements[p]) => OnEmpty(movements'[p])
  <1>1. movements[p] \in Seq(Movement)
    BY DEF TypeOK
  <1>2. \A i \in DOMAIN movements[p] : i \in DOMAIN movements'[p] /\ movements'[p][i] = movements[p][i]
    <2>1. CASE Same(p)
      BY <2>1 DEF Same
    <2>2. ASSUME NEW m, Gets(p, m)
          PROVE  \A i \in DOMAIN movements[p] :
                   i \in DOMAIN movements'[p] /\ movements'[p][i] = movements[p][i]
      <3>1. PICK ms : ms = movements[p]
        OBVIOUS
      <3>2. m \in Movement /\ movements'[p] = Append(ms, m)
        BY <2>2, <3>1 DEF Gets
      <3>3. \A i \in DOMAIN ms : i \in DOMAIN Append(ms, m) /\ Append(ms, m)[i] = ms[i]
        BY <1>1, <3>1, <3>2, HistoryGrows
      <3>4. QED
        BY <3>1, <3>2, <3>3
    <2>3. QED
      BY <2>1, <2>2
  <1>3. QED
    BY <1>2 DEF ClosedProducts, PutBackOnNothing, Diverges, OnEmpty

\* The entry of a change is among the movements after it.
LEMMA EntryThere ==
  ASSUME TypeOK, NEW p \in Products, NEW m, Gets(p, m)
  PROVE  \E i \in DOMAIN movements'[p] : movements'[p][i] = m
  <1>1. PICK ms : ms = movements[p]
    OBVIOUS
  <1>2. ms \in Seq(Movement) /\ m \in Movement /\ movements'[p] = Append(ms, m)
    BY <1>1 DEF Gets, TypeOK
  <1>3. Len(Append(ms, m)) \in DOMAIN Append(ms, m) /\ Append(ms, m)[Len(Append(ms, m))] = m
    BY <1>2, HistoryGrows
  <1>4. QED
    BY <1>2, <1>3

\* The lots of a product that has not been closed, and their average.
LEMMA LotsPreserved ==
  ASSUME IInv, [Next]_vars
  PROVE  StockIsLots' /\ AverageRounded'
  <1>0. /\ TypeOK /\ ConfirmationsAgree /\ StockIsLots /\ AverageRounded
    BY DEF IInv
  <1>1. /\ \/ UNCHANGED products
           \/ \E w \in Workers : ChangeProduct(w)
           \/ \E c \in Confirmers : ConfirmCommit(c)
        /\ \A p \in Products : Same(p) \/ \E m : Gets(p, m)
    BY <1>0, NextProducts
  <1>2. SUFFICES ASSUME NEW p \in FifoProducts, p \notin ClosedProducts'
                 PROVE  /\ stock'[p] = Quantity(lots'[p])
                        /\ ~PutBackOnNothing(movements'[p]) /\ Quantity(lots'[p]) # 0 =>
                             2 * Magnitude(avg'[p] * Quantity(lots'[p]) - Value(lots'[p]))
                               <= Magnitude(Quantity(lots'[p]))
    BY DEF StockIsLots, AverageRounded
  <1>3. /\ p \in Products
        /\ \A i \in DOMAIN movements'[p] : movements'[p][i].type # "close"
    BY <1>2 DEF ClosedProducts
  <1>4. /\ p \notin ClosedProducts
        /\ ~PutBackOnNothing(movements'[p]) => ~PutBackOnNothing(movements[p])
    BY <1>0, <1>1, <1>3, HistoryKept
  <1>5. LotsHold(p) /\ (~PutBackOnNothing(movements[p]) => Rounded(p))
    BY <1>0, <1>4 DEF StockIsLots, AverageRounded, LotsHold, Rounded
  <1>6. CASE Same(p)
    BY <1>4, <1>5, <1>6 DEF Same, LotsHold, Rounded
  <1>7. ASSUME NEW c \in Confirmers, ConfirmCommit(c)
        PROVE  Same(p)
    <2>1. SUFFICES ASSUME NEW m, Gets(p, m), m.type = "close" PROVE FALSE
      BY <1>0, <1>3, <1>7, CommitFacts
    <2>2. QED
      BY <1>0, <1>3, <2>1, EntryThere
  <1>8. ASSUME NEW w \in Workers, ChangeProduct(w), p = tx[w].product
        PROVE  /\ stock'[p] = Quantity(lots'[p])
               /\ ~PutBackOnNothing(movements'[p]) /\ Quantity(lots'[p]) # 0 =>
                    2 * Magnitude(avg'[p] * Quantity(lots'[p]) - Value(lots'[p]))
                      <= Magnitude(Quantity(lots'[p]))
    <2>1. PICK t : t = tx[w]
      OBVIOUS
    <2>2. Begun(t)
      BY <1>0, <1>8, <2>1, ChangeFacts
    <2>3. PICK r, m :
            /\ r \in Outcomes(t)
            /\ m = Entry(t, stock[p], r.stock)
            /\ stock' = [stock EXCEPT ![p] = r.stock]
            /\ avg' = [avg EXCEPT ![p] = r.avg]
            /\ lots' = [lots EXCEPT ![p] = r.lots]
            /\ Gets(p, m)
      BY <1>0, <1>8, <2>1, ChangeFacts
    <2>4. stock'[p] = r.stock /\ avg'[p] = r.avg /\ lots'[p] = r.lots
      BY <1>0, <1>3, <2>3 DEF TypeOK
    <2>5. p = t.product
      BY <1>8, <2>1
    <2>6. r.stock = Quantity(r.lots)
      BY <1>0, <1>5, <2>2, <2>3, <2>5, LotsKept
    <2>7. ASSUME ~PutBackOnNothing(movements'[p]), t.kind = "void"
          PROVE  Rounded(p) /\ stock[p] > 0 /\ t.quantity >= 0
      <3>1. m.type = "void" /\ m.before = stock[p] /\ m.quantity = t.quantity
        BY <2>3, <2>7 DEF Entry
      <3>2. m.before > 0 /\ m.quantity >= 0
        <4>1. PICK i \in DOMAIN movements'[p] : movements'[p][i] = m
          BY <1>0, <1>3, <2>3, EntryThere
        <4>2. m.before \in Int /\ m.quantity \in Int
          BY <2>3 DEF Gets, Movement
        <4>3. ~(m.before <= 0) /\ ~(m.quantity < 0)
          BY <2>7, <3>1, <4>1 DEF PutBackOnNothing
        <4>4. QED
          BY <4>2, <4>3
      <3>3. QED
        BY <1>4, <1>5, <2>7, <3>1, <3>2
    <2>8. ASSUME ~PutBackOnNothing(movements'[p]), Quantity(r.lots) # 0
          PROVE  2 * Magnitude(r.avg * Quantity(r.lots) - Value(r.lots)) <= Magnitude(Quantity(r.lots))
      <3>1. t.kind = "void" => /\ LotsHold(t.product) /\ Rounded(t.product)
                               /\ stock[t.product] > 0 /\ t.quantity >= 0
        BY <1>5, <2>5, <2>7, <2>8
      <3>2. t.product \in FifoProducts
        BY <2>5
      <3>3. QED
        BY <1>0, <2>2, <2>3, <2>8, <3>1, <3>2, AverageKept
    <2>9. QED
      BY <2>4, <2>6, <2>8
  <1>9. ASSUME NEW w \in Workers, ChangeProduct(w), p # tx[w].product
        PROVE  Same(p)
    BY <1>0, <1>3, <1>9, ChangeFacts
  <1>10. UNCHANGED products => Same(p)
    BY DEF products, Same
  <1>11. QED
    BY <1>1, <1>6, <1>7, <1>8, <1>9, <1>10
-----------------------------------------------------------------------------
(* The cost ledger of the reports *)

\* A receipt into an empty stock is the new entry or one before it.
LEMMA OnEmptyGrows ==
  ASSUME TypeOK, NEW p \in Products, NEW m, Gets(p, m), OnEmpty(movements'[p])
  PROVE  OnEmpty(movements[p]) \/ (m.type = "receive" /\ m.before = 0)
  <1>1. PICK ms : ms = movements[p]
    OBVIOUS
  <1>2. ms \in Seq(Movement) /\ m \in Movement /\ movements'[p] = Append(ms, m)
    BY <1>1 DEF Gets, TypeOK
  <1>3. PICK i \in DOMAIN Append(ms, m) :
          Append(ms, m)[i].type = "receive" /\ Append(ms, m)[i].before = 0
    BY <1>2 DEF OnEmpty
  <1>4. Append(ms, m)[i] = m \/ (i \in DOMAIN ms /\ Append(ms, m)[i] = ms[i])
    BY <1>2
  <1>5. QED
    BY <1>1, <1>3, <1>4 DEF OnEmpty

LEMMA ReplayPreserved ==
  ASSUME IInv, [Next]_vars
  PROVE  ReplayTracks'
  <1>0. /\ TypeOK /\ ConfirmationsAgree /\ ReplayTracks
    BY DEF IInv
  <1>1. /\ \/ UNCHANGED products
           \/ \E w \in Workers : ChangeProduct(w)
           \/ \E c \in Confirmers : ConfirmCommit(c)
        /\ overwritten \subseteq overwritten'
        /\ \A p \in Products : Same(p) \/ \E m : Gets(p, m)
    BY <1>0, NextProducts
  <1>2. SUFFICES ASSUME NEW p \in Products, p \notin FifoProducts, p \notin overwritten',
                        ~Diverges(movements'[p]), NEW base \in Int
                 PROVE  /\ Run(base, movements'[p]).quantity = stock'[p]
                        /\ base = OpeningCost[p] \/ OnEmpty(movements'[p]) =>
                             Within(Run(base, movements'[p]), avg'[p])
    BY DEF ReplayTracks, Tracks, Run
  <1>3. PICK ms, s, a, st : /\ ms = movements[p] /\ s = stock[p] /\ a = avg[p]
                            /\ st = Run(base, ms)
    OBVIOUS
  <1>4. ms \in Seq(Movement) /\ s \in Int /\ a \in Int
    BY <1>0, <1>3 DEF TypeOK
  <1>5. /\ st \in CostState /\ st.quantity = s
        /\ base = OpeningCost[p] \/ OnEmpty(ms) => Within(st, a)
    <2>1. ~Diverges(movements[p])
      BY <1>0, <1>1, <1>2, HistoryKept
    <2>2. Tracks(p, base)
      BY <1>0, <1>1, <1>2, <2>1 DEF ReplayTracks
    <2>3. st \in CostState
      BY <1>3, <1>4, RunFacts
    <2>4. QED
      BY <1>3, <2>2, <2>3 DEF Tracks, Run
  <1>6. CASE Same(p)
    BY <1>3, <1>5, <1>6 DEF Same
  <1>7. ASSUME NEW m, Gets(p, m)
        PROVE  /\ m \in Movement
               /\ Run(base, movements'[p]) = nextCostState[st][m]
               /\ m.type = "adjust" => m.cost = NoCost
               /\ m.type = "receive" => ~(m.after <= 0)
               /\ OnEmpty(movements'[p]) => OnEmpty(ms) \/ (m.type = "receive" /\ m.before = 0)
    <2>1. m \in Movement /\ movements'[p] = Append(ms, m)
      BY <1>3, <1>7 DEF Gets
    <2>2. Run(base, Append(ms, m)) = nextCostState[st][m]
      BY <1>3, <1>4, <2>1, RunFacts
    <2>3. PICK i \in DOMAIN movements'[p] : movements'[p][i] = m
      BY <1>0, <1>7, EntryThere
    <2>4. /\ m.type = "adjust" => m.cost = NoCost
          /\ m.type = "receive" => ~(m.after <= 0)
      BY <1>2, <2>3 DEF Diverges
    <2>5. OnEmpty(movements'[p]) => OnEmpty(ms) \/ (m.type = "receive" /\ m.before = 0)
      BY <1>0, <1>3, <1>7, OnEmptyGrows
    <2>6. QED
      BY <2>1, <2>2, <2>4, <2>5
  <1>8. ASSUME NEW m, Gets(p, m), m.type # "receive", stock'[p] = m.after, avg'[p] = a
        PROVE  /\ Run(base, movements'[p]).quantity = stock'[p]
               /\ base = OpeningCost[p] \/ OnEmpty(movements'[p]) =>
                    Within(Run(base, movements'[p]), avg'[p])
    <2>1. m \in Movement /\ Run(base, movements'[p]) = nextCostState[st][m]
      BY <1>7, <1>8
    <2>2. nextCostState[st][m] = [st EXCEPT !.quantity = m.after]
      BY <1>5, <1>8, <2>1 DEF nextCostState
    <2>3. PICK r : r = [st EXCEPT !.quantity = m.after]
      OBVIOUS
    <2>4. r.quantity = m.after /\ r.num = st.num /\ r.den = st.den /\ r.slack = st.slack
      BY <1>5, <2>3 DEF CostState
    <2>5. OnEmpty(movements'[p]) => OnEmpty(ms)
      BY <1>7, <1>8
    <2>6. Within(st, a) => Within(r, a)
      BY <2>4 DEF Within
    <2>7. QED
      BY <1>5, <1>8, <2>1, <2>2, <2>3, <2>4, <2>5, <2>6
  <1>9. ASSUME NEW c \in Confirmers, ConfirmCommit(c), ~Same(p)
        PROVE  /\ Run(base, movements'[p]).quantity = stock'[p]
               /\ base = OpeningCost[p] \/ OnEmpty(movements'[p]) =>
                    Within(Run(base, movements'[p]), avg'[p])
    <2>1. PICK m : Gets(p, m) /\ m.type = "close"
      BY <1>0, <1>9, CommitFacts
    <2>2. avg'[p] = a
      BY <1>0, <1>3, <1>9, CommitFacts
    <2>3. stock'[p] = m.after
      BY <2>1 DEF Gets
    <2>4. m.type # "receive"
      BY <2>1
    <2>5. QED
      BY <1>8, <2>1, <2>2, <2>3, <2>4
  <1>10. ASSUME NEW w \in Workers, ChangeProduct(w), ~Same(p)
         PROVE  /\ Run(base, movements'[p]).quantity = stock'[p]
                /\ base = OpeningCost[p] \/ OnEmpty(movements'[p]) =>
                     Within(Run(base, movements'[p]), avg'[p])
    <2>1. PICK t : t = tx[w]
      OBVIOUS
    <2>2. Begun(t)
      BY <1>0, <1>10, <2>1, ChangeFacts
    <2>3. PICK r, m :
            /\ r \in Outcomes(t)
            /\ m = Entry(t, stock[t.product], r.stock)
            /\ stock' = [stock EXCEPT ![t.product] = r.stock]
            /\ avg' = [avg EXCEPT ![t.product] = r.avg]
            /\ Gets(t.product, m)
            /\ \A o \in Products \ {t.product} : Same(o)
      BY <1>0, <1>10, <2>1, ChangeFacts
    <2>4. p = t.product
      BY <1>10, <2>3
    <2>5. stock'[p] = r.stock /\ avg'[p] = r.avg
      BY <1>0, <2>3, <2>4 DEF TypeOK
    <2>6. Gets(p, m) /\ m.before = s /\ m.after = r.stock /\ m.type = t.kind
      BY <1>3, <2>3, <2>4 DEF Entry
    <2>7. /\ r.stock \in Int
          /\ t.kind = "receive" => /\ r.stock = s + t.quantity
                                   /\ r.avg = calcNewAvgCost(s, a, t.quantity, t.cost)
          /\ t.kind \in {"sale", "void"} \/ (t.kind = "adjust" /\ t.cost = NoCost) => r.avg = a
      BY <1>0, <1>2, <1>3, <2>2, <2>3, <2>4, AvgOutcome
    <2>8. /\ t.kind \in Kinds /\ t.quantity \in Int
          /\ t.kind = "receive" => t.cost \in Int
      BY <2>2 DEF Begun
    <2>9. CASE t.kind = "receive"
      <3>1. m.quantity = t.quantity /\ m.cost = t.cost
        BY <2>3, <2>9 DEF Entry
      <3>2. PICK q, k, c, num, den, slack, n, b :
              /\ q = s /\ k = t.quantity /\ c = t.cost /\ n = q + k /\ b = r.avg
              /\ num = st.num /\ den = st.den /\ slack = st.slack
        OBVIOUS
      <3>3. /\ q \in Int /\ k \in Int /\ c \in Int /\ num \in Int
            /\ den \in Nat \ {0} /\ slack \in Nat
        BY <1>4, <1>5, <2>8, <2>9, <3>2 DEF CostState
      <3>4. n \in Nat \ {0}
        <4>1. ~(m.after <= 0)
          BY <1>7, <2>6, <2>9
        <4>2. m.after = n
          BY <2>6, <2>7, <2>9, <3>2
        <4>3. QED
          BY <3>2, <3>3, <4>1, <4>2
      <3>5. GoodsReceived(q, k, c, a, n, b)
        <4>1. ~(q + k <= 0)
          BY <3>2, <3>3, <3>4
        <4>2. b = calcNewAvgCost(q, a, k, c)
          BY <2>7, <2>9, <3>2
        <4>3. b = RoundDiv(q * a + k * c, q + k)
          BY <4>1, <4>2, Zenon DEF calcNewAvgCost
        <4>4. n = q + k
          BY <3>2
        <4>5. QED
          BY <4>3, <4>4 DEF GoodsReceived
      <3>6. b \in Int
        <4>1. calcNewAvgCost(q, a, k, c) \in Int
          BY <1>4, <3>3, NewAverage
        <4>2. b = calcNewAvgCost(q, a, k, c)
          BY <2>7, <2>9, <3>2
        <4>3. QED
          BY <4>1, <4>2
      <3>7. PICK x : x = Run(base, movements'[p])
        OBVIOUS
      <3>8. x = [quantity |-> n, num |-> q * num + k * c * den, den |-> n * den,
                 slack |-> Magnitude(q) * slack + n * den]
        <4>1. m \in Movement /\ x = nextCostState[st][m]
          BY <1>7, <2>6, <3>7
        <4>2. m.type = "receive" /\ ~(st.quantity + m.quantity <= 0)
          BY <1>5, <2>6, <2>9, <3>1, <3>2, <3>4
        <4>3. x = [quantity |-> st.quantity + m.quantity,
                   num |-> st.quantity * st.num + m.quantity * m.cost * st.den,
                   den |-> (st.quantity + m.quantity) * st.den,
                   slack |-> Magnitude(st.quantity) * st.slack + (st.quantity + m.quantity) * st.den]
          BY <1>5, <4>1, <4>2 DEF nextCostState
        <4>4. QED
          BY <1>5, <3>1, <3>2, <4>3
      <3>9. x.quantity = stock'[p]
        BY <2>5, <2>7, <2>9, <3>2, <3>8
      <3>10. ASSUME base = OpeningCost[p] \/ OnEmpty(movements'[p])
             PROVE  Within(x, b)
        <4>1. OnEmpty(movements'[p]) => OnEmpty(ms) \/ q = 0
          BY <1>7, <2>6, <3>2
        <4>2. q = 0 \/ Parts(num, den, a, slack)
          BY <1>5, <3>2, <3>10, <4>1 DEF Within, Parts
        <4>3. Parts(q * num + k * c * den, n * den, b, Magnitude(q) * slack + n * den)
          BY <1>4, <3>3, <3>4, <3>5, <3>6, <4>2, ReceiptRounds
        <4>4. QED
          BY <3>8, <4>3 DEF Within, Parts
      <3>11. QED
        BY <2>5, <3>2, <3>7, <3>9, <3>10
    <2>10. CASE t.kind # "receive"
      <3>1. r.avg = a
        <4>1. t.kind = "adjust" => m.cost = t.cost
          BY <2>3 DEF Entry
        <4>2. t.kind = "adjust" => t.cost = NoCost
          BY <1>7, <2>6, <4>1
        <4>3. QED
          BY <2>7, <2>8, <2>10, <4>2 DEF Kinds
      <3>2. stock'[p] = m.after /\ avg'[p] = a /\ m.type # "receive"
        BY <2>5, <2>6, <2>10, <3>1
      <3>3. QED
        BY <1>8, <2>6, <3>2
    <2>11. QED
      BY <2>9, <2>10
  <1>11. UNCHANGED products => Same(p)
    BY DEF products, Same
  <1>12. QED
    BY <1>1, <1>6, <1>9, <1>10, <1>11
-----------------------------------------------------------------------------
(* The snapshot of the close and its counts *)

LEMMA MovedIs ==
  ASSUME NEW p
  PROVE  /\ MovedSince(p) = MovedAfter(movements[p], items[p].included)
         /\ MovedSince(p)' = MovedAfter(movements'[p], items'[p].included)
  BY DEF MovedSince, MovedAfter

\* What moved on a product grows by what its stock grows, but for a close.
LEMMA MovedGrows ==
  ASSUME TypeOK, NEW p \in Products, NEW k \in Nat, k <= Len(movements[p]),
         Same(p) \/ \E m : Gets(p, m)
  PROVE  /\ k <= Len(movements'[p])
         /\ MovedAfter(movements[p], k) \in Int /\ MovedAfter(movements'[p], k) \in Int
         /\ stock[p] \in Int
         /\ Same(p) => MovedAfter(movements'[p], k) = MovedAfter(movements[p], k)
         /\ \A m : Gets(p, m) /\ p \notin overwritten =>
              MovedAfter(movements'[p], k) =
                MovedAfter(movements[p], k) + (IF m.type = "close" THEN 0 ELSE stock'[p] - stock[p])
  <1>1. PICK ms : ms = movements[p]
    OBVIOUS
  <1>2. ms \in Seq(Movement) /\ k <= Len(ms) /\ stock[p] \in Int
    BY <1>1 DEF TypeOK
  <1>3. MovedAfter(ms, k) \in Int
    BY <1>2, MovedFacts
  <1>4. CASE Same(p)
    <2>1. movements'[p] = ms
      BY <1>1, <1>4 DEF Same
    <2>2. ASSUME NEW m, Gets(p, m) PROVE FALSE
      <3>1. m \in Movement /\ ms = Append(ms, m)
        BY <1>1, <2>1, <2>2 DEF Gets
      <3>2. Len(Append(ms, m)) = Len(ms) + 1 /\ Len(ms) \in Nat
        BY <1>2, <3>1
      <3>3. Len(ms) = Len(ms) + 1
        BY <3>1, <3>2
      <3>4. QED
        BY <3>2, <3>3
    <2>3. QED
      BY <1>1, <1>2, <1>3, <2>1, <2>2
  <1>5. CASE ~Same(p)
    <2>1. PICK m : Gets(p, m)
      BY <1>5
    <2>2. m \in Movement /\ movements'[p] = Append(ms, m) /\ stock'[p] = m.after
      BY <1>1, <2>1 DEF Gets
    <2>3. Len(Append(ms, m)) = Len(ms) + 1 /\ Len(ms) \in Nat
      BY <1>2, <2>2
    <2>4. ASSUME NEW n, Gets(p, n)
          PROVE  /\ n \in Movement /\ stock'[p] = n.after
                 /\ p \notin overwritten => n.before = stock[p]
                 /\ MovedAfter(movements'[p], k) =
                      MovedAfter(ms, k) + (IF n.type = "close" THEN 0 ELSE n.after - n.before)
      <3>1. /\ n \in Movement /\ movements'[p] = Append(ms, n) /\ stock'[p] = n.after
            /\ p \notin overwritten => n.before = stock[p]
        BY <1>1, <2>4 DEF Gets
      <3>2. MovedAfter(Append(ms, n), k) =
              MovedAfter(ms, k) + (IF n.type = "close" THEN 0 ELSE n.after - n.before)
        BY <1>2, <3>1, MovedFacts
      <3>3. QED
        BY <3>1, <3>2
    <2>5. k <= Len(movements'[p])
      BY <1>2, <2>2, <2>3
    <2>6. MovedAfter(movements'[p], k) \in Int
      <3>1. m.after \in Int /\ m.before \in Int
        BY <2>2 DEF Movement
      <3>2. QED
        BY <1>3, <2>1, <2>4, <3>1
    <2>7. QED
      BY <1>1, <1>2, <1>3, <1>5, <2>4, <2>5, <2>6
  <1>6. QED
    BY <1>4, <1>5

\* Once made, the items keep the snapshot; only a count changes what was counted.
LEMMA ItemsKept ==
  ASSUME TypeOK, [Next]_vars, ~Snapshot
  PROVE  /\ DOMAIN items' = DOMAIN items
         /\ \A p \in DOMAIN items :
              /\ items'[p].system = items[p].system /\ items'[p].included = items[p].included
              /\ ~CountWrite => items'[p].physical = items[p].physical
  <1>1. CASE UNCHANGED items
    BY <1>1
  <1>2. CASE CountWrite
    <2>1. items' = [items EXCEPT ![counting[1]].physical = counting[2]]
      BY <1>2 DEF CountWrite
    <2>2. \A p \in DOMAIN items : items[p] \in Item
      BY DEF TypeOK
    <2>3. PICK q, n : q = counting[1] /\ n = counting[2]
      OBVIOUS
    <2>4. items' = [items EXCEPT ![q] = [items[q] EXCEPT !.physical = n]]
      BY <2>1, <2>3
    <2>5. DOMAIN items' = DOMAIN items
      BY <2>4
    <2>6. ASSUME NEW p \in DOMAIN items
          PROVE  items'[p].system = items[p].system /\ items'[p].included = items[p].included
      <3>1. items'[p] = items[p] \/ items'[p] = [items[p] EXCEPT !.physical = n]
        BY <2>4
      <3>2. items[p] \in Item
        BY <2>2
      <3>3. QED
        BY <3>1, <3>2 DEF Item
    <2>7. QED
      BY <1>2, <2>5, <2>6
  <1>3. ASSUME NEW c \in Confirmers, ConfirmCommit(c)
        PROVE  /\ DOMAIN items' = DOMAIN items
               /\ \A p \in DOMAIN items : /\ items'[p].system = items[p].system
                                          /\ items'[p].included = items[p].included
                                          /\ items'[p].physical = items[p].physical
    <2>1. PICK v : v = confirm[c].variance
      OBVIOUS
    <2>2. items' = [p \in DOMAIN items |->
             IF p \in DOMAIN v THEN [items[p] EXCEPT !.variance = v[p]] ELSE items[p]]
      BY <1>3, <2>1 DEF ConfirmCommit
    <2>3. \A p \in DOMAIN items : items[p] \in Item
      BY DEF TypeOK
    <2>4. QED
      BY <2>2, <2>3 DEF Item
  <1>4. QED
    BY <1>1, <1>2, <1>3 DEF Next, vars, close, ChangeProduct, SaleFails, Begin, Midnight, OpenClose,
      InsertItems, CountCheck, ConfirmRead, ConfirmItem, ConfirmWrite, Crash

\* No close is taken back.
LEMMA AppliedGrows ==
  ASSUME TypeOK, [Next]_vars
  PROVE  /\ applied \in Nat
         /\ applied' = applied \/ (applied' = applied + 1 /\ \E c \in Confirmers : ConfirmCommit(c))
  <1>1. applied \in Nat
    BY DEF TypeOK
  <1>2. applied' = applied \/ (applied' = applied + 1 /\ \E c \in Confirmers : ConfirmCommit(c))
    BY DEF Next, vars, close, ChangeProduct, SaleFails, Begin, Midnight, OpenClose, Snapshot,
           InsertItems, CountCheck, CountWrite, ConfirmRead, ConfirmItem, ConfirmWrite,
           ConfirmCommit, Crash
  <1>3. QED
    BY <1>1, <1>2

LEMMA SnapshotPreserved ==
  ASSUME IInv, [Next]_vars
  PROVE  SnapshotKept'
  <1>0. /\ TypeOK /\ ConfirmationsAgree /\ SnapshotKept
    BY DEF IInv
  <1>1. /\ \/ UNCHANGED products
           \/ \E w \in Workers : ChangeProduct(w)
           \/ \E c \in Confirmers : ConfirmCommit(c)
        /\ overwritten \subseteq overwritten'
        /\ \A p \in Products : Same(p) \/ \E m : Gets(p, m)
    BY <1>0, NextProducts
  <1>2. SUFFICES ASSUME NEW p \in DOMAIN items'
                 PROVE  /\ items'[p].included <= Len(movements'[p])
                        /\ applied' = 0 /\ p \notin overwritten' =>
                             stock'[p] = items'[p].system + MovedAfter(movements'[p], items'[p].included)
    <2>1. \A p : MovedSince(p)' = MovedAfter(movements'[p], items'[p].included)
      BY MovedIs
    <2>2. QED
      BY <1>2, <2>1 DEF SnapshotKept
  <1>3. CASE Snapshot
    <2>1. /\ items' = [q \in Products |->
                [system |-> stock[q], cost |-> avg[q], physical |-> Uncounted, variance |-> 0,
                 included |-> Len(movements[q])]]
          /\ UNCHANGED <<stock, movements>>
      BY <1>3 DEF Snapshot, products
    <2>2. p \in Products
      BY <1>2, <2>1
    <2>3. items'[p].system = stock[p] /\ items'[p].included = Len(movements[p])
      BY <2>1, <2>2
    <2>4. PICK ms, k : ms = movements[p] /\ k = Len(ms)
      OBVIOUS
    <2>5. ms \in Seq(Movement) /\ stock[p] \in Int /\ k \in Nat
      BY <1>0, <2>2, <2>4 DEF TypeOK
    <2>6. MovedAfter(ms, k) = 0
      BY <2>4, <2>5, MovedFacts
    <2>7. QED
      BY <2>1, <2>3, <2>4, <2>5, <2>6
  <1>4. CASE ~Snapshot
    <2>1. p \in DOMAIN items /\ items'[p].system = items[p].system /\ items'[p].included = items[p].included
      BY <1>0, <1>2, <1>4, ItemsKept
    <2>2. PICK k, s : k = items[p].included /\ s = items[p].system
      OBVIOUS
    <2>3. p \in Products /\ k \in Nat /\ s \in Int
      BY <1>0, <2>1, <2>2 DEF TypeOK, Item
    <2>4. /\ k <= Len(movements[p])
          /\ applied = 0 /\ p \notin overwritten => stock[p] = s + MovedAfter(movements[p], k)
      BY <1>0, <2>1, <2>2, MovedIs DEF SnapshotKept
    <2>5. Same(p) \/ \E m : Gets(p, m)
      BY <1>1, <2>3
    <2>6. /\ k <= Len(movements'[p])
          /\ MovedAfter(movements[p], k) \in Int /\ MovedAfter(movements'[p], k) \in Int
          /\ stock[p] \in Int
          /\ Same(p) => MovedAfter(movements'[p], k) = MovedAfter(movements[p], k)
          /\ \A m : Gets(p, m) /\ p \notin overwritten =>
               MovedAfter(movements'[p], k) =
                 MovedAfter(movements[p], k) + (IF m.type = "close" THEN 0 ELSE stock'[p] - stock[p])
      BY <1>0, <2>3, <2>4, <2>5, MovedGrows
    <2>7. ASSUME applied' = 0, p \notin overwritten'
          PROVE  stock'[p] = s + MovedAfter(movements'[p], k)
      <3>1. applied = 0 /\ p \notin overwritten /\ ~\E c \in Confirmers : ConfirmCommit(c)
        BY <1>0, <1>1, <2>7, AppliedGrows DEF ConfirmCommit
      <3>2. CASE Same(p)
        BY <2>4, <2>6, <3>1, <3>2 DEF Same
      <3>3. CASE ~Same(p)
        <4>1. PICK w \in Workers : ChangeProduct(w)
          BY <1>1, <3>1, <3>3 DEF products, Same
        <4>2. PICK m : Gets(p, m) /\ m.type # "close" /\ stock'[p] = m.after
          <5>1. PICK r, m :
                  /\ r \in Outcomes(tx[w])
                  /\ Gets(tx[w].product, m) /\ m.type = tx[w].kind
                  /\ \A o \in Products \ {tx[w].product} : Same(o)
            BY <1>0, <4>1, ChangeFacts
          <5>2. p = tx[w].product
            BY <2>3, <3>3, <5>1
          <5>3. tx[w].kind \in Kinds
            BY <1>0, <4>1, ChangeFacts DEF Begun
          <5>4. QED
            BY <5>1, <5>2, <5>3 DEF Gets
        <4>3. m.after \in Int
          BY <4>2 DEF Gets, Movement
        <4>4. MovedAfter(movements'[p], k) = MovedAfter(movements[p], k) + (stock'[p] - stock[p])
          BY <2>6, <3>1, <4>2
        <4>5. QED
          BY <2>3, <2>4, <2>6, <3>1, <4>2, <4>3, <4>4
      <3>4. QED
        BY <3>2, <3>3
    <2>8. QED
      BY <2>1, <2>2, <2>6, <2>7
  <1>5. QED
    BY <1>3, <1>4

\* The items that can be counted, before and after a step.
LEMMA ItemsGrow ==
  ASSUME TypeOK, [Next]_vars
  PROVE  /\ Items = IF opening = "ended" THEN DOMAIN items ELSE {}
         /\ Items' = IF opening' = "ended" THEN DOMAIN items' ELSE {}
         /\ opening' = opening \/ OpenClose \/ Snapshot \/ InsertItems \/ Crash
         /\ overlapped => overlapped'
         /\ late \subseteq late'
  <1>1. opening' = opening \/ OpenClose \/ Snapshot \/ InsertItems \/ Crash
    BY DEF Next, vars, close, ChangeProduct, SaleFails, Begin, Midnight,
           CountCheck, CountWrite, ConfirmRead, ConfirmItem, ConfirmWrite, ConfirmCommit
  <1>2. overlapped' = overlapped \/ \E c \in Confirmers : ConfirmRead(c)
    BY DEF Next, vars, close, ChangeProduct, SaleFails, Begin, Midnight, OpenClose, Snapshot,
           InsertItems, CountCheck, CountWrite, ConfirmItem, ConfirmWrite, ConfirmCommit, Crash
  <1>3. overlapped => overlapped'
    BY <1>2 DEF ConfirmRead
  <1>4. late' = late \/ CountWrite
    BY DEF Next, vars, close, ChangeProduct, SaleFails, Begin, Midnight, OpenClose, Snapshot,
           InsertItems, CountCheck, ConfirmRead, ConfirmItem, ConfirmWrite, ConfirmCommit, Crash
  <1>5. late \subseteq late'
    BY <1>4 DEF CountWrite
  <1>6. QED
    BY <1>1, <1>3, <1>5 DEF Items

LEMMA CountKept ==
  ASSUME IInv, [Next]_vars
  PROVE  CloseKeepsCount'
  <1>0. /\ TypeOK /\ ConfirmationsAgree /\ CloseAgrees /\ SnapshotKept /\ CloseKeepsCount
    BY DEF IInv
  <1>1. /\ \/ UNCHANGED products
           \/ \E w \in Workers : ChangeProduct(w)
           \/ \E c \in Confirmers : ConfirmCommit(c)
        /\ overwritten \subseteq overwritten'
        /\ \A p \in Products : Same(p) \/ \E m : Gets(p, m)
    BY <1>0, NextProducts
  <1>2. SUFFICES ASSUME applied' = 1, ~overlapped',
                        NEW p \in Items', p \notin overwritten', p \notin late',
                        items'[p].physical # Uncounted
                 PROVE  stock'[p] = items'[p].physical + MovedAfter(movements'[p], items'[p].included)
    <2>1. \A p : MovedSince(p)' = MovedAfter(movements'[p], items'[p].included)
      BY MovedIs
    <2>2. QED
      BY <1>2, <2>1 DEF CloseKeepsCount
  <1>3. /\ opening' = "ended" /\ p \in DOMAIN items'
        /\ ~overlapped /\ p \notin overwritten /\ p \notin late
    BY <1>0, <1>1, <1>2, ItemsGrow
  <1>4. ~Snapshot /\ ~OpenClose
    BY <1>3 DEF Snapshot, OpenClose
  <1>5. /\ p \in DOMAIN items
        /\ items'[p].system = items[p].system /\ items'[p].included = items[p].included
        /\ ~CountWrite => items'[p].physical = items[p].physical
    BY <1>0, <1>3, <1>4, ItemsKept
  <1>6. ~InsertItems
    <2>1. SUFFICES ASSUME InsertItems PROVE FALSE
      OBVIOUS
    <2>2. opening = "read" /\ items' = items
      BY <2>1 DEF InsertItems
    <2>3. QED
      BY <1>0, <1>2, <1>5, <2>2 DEF CloseAgrees
  <1>7. opening = "ended" /\ p \in Items
    <2>1. opening = "ended"
      BY <1>0, <1>3, <1>4, <1>6, ItemsGrow DEF Crash
    <2>2. QED
      BY <1>5, <2>1 DEF Items
  <1>8. ~CountWrite \/ items'[p].physical = items[p].physical
    <2>1. SUFFICES ASSUME CountWrite PROVE items'[p].physical = items[p].physical
      OBVIOUS
    <2>2. applied > 0 /\ late' = (IF \/ status = "closed"
                                     \/ \E c \in Confirmers : confirm[c].at # "idle"
                                  THEN late \cup {counting[1]} ELSE late)
      BY <1>2, <2>1 DEF CountWrite
    <2>3. counting[1] \in late'
      BY <1>0, <2>2 DEF CloseAgrees
    <2>4. p # counting[1]
      BY <1>2, <2>3
    <2>5. items' = [items EXCEPT ![counting[1]].physical = counting[2]]
      BY <2>1 DEF CountWrite
    <2>6. QED
      BY <1>5, <2>4, <2>5
  <1>9. PICK k, s, n : k = items[p].included /\ s = items[p].system /\ n = items[p].physical
    OBVIOUS
  <1>10. p \in Products /\ k \in Nat /\ s \in Int /\ n \in Nat
    <2>1. p \in Products /\ items[p] \in Item
      BY <1>0, <1>5 DEF TypeOK
    <2>2. n # Uncounted
      BY <1>2, <1>5, <1>8, <1>9
    <2>3. QED
      BY <1>9, <2>1, <2>2 DEF Item
  <1>11. Same(p) \/ \E m : Gets(p, m)
    BY <1>1, <1>10
  <1>12. k <= Len(movements[p])
    BY <1>0, <1>5, <1>9 DEF SnapshotKept
  <1>13. /\ MovedAfter(movements[p], k) \in Int /\ MovedAfter(movements'[p], k) \in Int
         /\ stock[p] \in Int
         /\ Same(p) => MovedAfter(movements'[p], k) = MovedAfter(movements[p], k)
         /\ \A m : Gets(p, m) /\ p \notin overwritten =>
              MovedAfter(movements'[p], k) =
                MovedAfter(movements[p], k) + (IF m.type = "close" THEN 0 ELSE stock'[p] - stock[p])
    BY <1>0, <1>10, <1>11, <1>12, MovedGrows
  <1>14. /\ items'[p].included = k /\ items'[p].physical = n
         /\ items[p].physical # Uncounted
    BY <1>2, <1>5, <1>8, <1>9
  <1>15. SUFFICES stock'[p] = n + MovedAfter(movements'[p], k)
    BY <1>14
  <1>16. CASE applied = 1
    <2>1. stock[p] = n + MovedAfter(movements[p], k)
      BY <1>0, <1>3, <1>7, <1>9, <1>14, <1>16, MovedIs DEF CloseKeepsCount
    <2>2. ~\E c \in Confirmers : ConfirmCommit(c)
      BY <1>2, <1>16 DEF ConfirmCommit
    <2>3. CASE Same(p)
      BY <1>13, <2>1, <2>3 DEF Same
    <2>4. CASE ~Same(p)
      <3>1. PICK w \in Workers : ChangeProduct(w)
        BY <1>1, <2>2, <2>4 DEF products, Same
      <3>2. PICK m : Gets(p, m) /\ m.type # "close" /\ stock'[p] = m.after
        <4>1. PICK r, m :
                /\ r \in Outcomes(tx[w])
                /\ Gets(tx[w].product, m) /\ m.type = tx[w].kind
                /\ \A o \in Products \ {tx[w].product} : Same(o)
          BY <1>0, <3>1, ChangeFacts
        <4>2. p = tx[w].product
          BY <1>10, <2>4, <4>1
        <4>3. tx[w].kind \in Kinds
          BY <1>0, <3>1, ChangeFacts DEF Begun
        <4>4. QED
          BY <4>1, <4>2, <4>3 DEF Gets
      <3>3. m.after \in Int
        BY <3>2 DEF Gets, Movement
      <3>4. MovedAfter(movements'[p], k) = MovedAfter(movements[p], k) + (stock'[p] - stock[p])
        BY <1>3, <1>13, <3>2
      <3>5. PICK u, v, x, y : /\ u = MovedAfter(movements'[p], k) /\ v = MovedAfter(movements[p], k)
                              /\ x = stock'[p] /\ y = stock[p]
        OBVIOUS
      <3>6. v \in Int /\ x \in Int /\ y \in Int
        BY <1>13, <3>2, <3>3, <3>5
      <3>7. u = v + (x - y) /\ y = n + v
        BY <2>1, <3>4, <3>5
      <3>8. x = n + u
        BY <1>10, <3>6, <3>7
      <3>9. QED
        BY <3>5, <3>8
    <2>5. QED
      BY <2>3, <2>4
  <1>17. CASE applied # 1
    <2>1. PICK c \in Confirmers : applied = 0 /\ ConfirmCommit(c)
      BY <1>0, <1>2, <1>17, AppliedGrows
    <2>2. stock[p] = s + MovedAfter(movements[p], k)
      BY <1>0, <1>3, <1>5, <1>9, <2>1, MovedIs DEF SnapshotKept
    <2>3. p \in DOMAIN confirm[c].variance /\ confirm[c].variance[p] = n - s
      <3>1. confirm[c].at # "idle"
        BY <2>1 DEF ConfirmCommit
      <3>2. p \in DOMAIN confirm[c].variance /\ confirm[c].variance[p] = Variance(p)
        BY <1>0, <1>3, <1>7, <1>14, <3>1 DEF CloseAgrees
      <3>3. QED
        BY <1>9, <3>2 DEF Variance
    <2>4. IF confirm[c].variance[p] = 0 THEN p \notin DOMAIN confirm[c].wrote
                                        ELSE p \in DOMAIN confirm[c].wrote
      <3>1. confirm[c].left = <<>>
        BY <2>1 DEF ConfirmCommit
      <3>2. ~\E i \in DOMAIN confirm[c].left : confirm[c].left[i] = p
        BY <3>1
      <3>3. QED
        BY <1>0, <2>3, <3>2 DEF ConfirmationsAgree
    <2>5. IF p \in DOMAIN confirm[c].wrote
          THEN \E m : Gets(p, m) /\ m.type = "close" /\ m.after = m.before + confirm[c].variance[p]
          ELSE Same(p)
      BY <1>0, <1>10, <2>1, CommitFacts
    <2>6. CASE confirm[c].variance[p] = 0
      <3>1. Same(p)
        BY <2>4, <2>5, <2>6
      <3>2. n = s
        BY <1>10, <2>3, <2>6
      <3>3. QED
        BY <1>13, <2>2, <3>1, <3>2 DEF Same
    <2>7. CASE confirm[c].variance[p] # 0
      <3>1. PICK m : Gets(p, m) /\ m.type = "close" /\ m.after = m.before + (n - s)
        BY <2>3, <2>4, <2>5, <2>7
      <3>2. m.before = stock[p] /\ stock'[p] = m.after
        BY <1>3, <3>1 DEF Gets
      <3>3. MovedAfter(movements'[p], k) = MovedAfter(movements[p], k)
        BY <1>3, <1>13, <3>1
      <3>4. QED
        BY <1>10, <1>13, <2>2, <3>1, <3>2, <3>3
    <2>8. QED
      BY <2>6, <2>7
  <1>18. QED
    BY <1>16, <1>17

-----------------------------------------------------------------------------
(* The steps of a confirmation *)

\* The confirmation of c is k, the others are left alone.
Confirms(c, k) == confirm' = [d \in Confirmers |-> IF d = c THEN k ELSE confirm[d]]

LEMMA ReadStep ==
  ASSUME TypeOK, NEW c \in Confirmers, ConfirmRead(c)
  PROVE  \E k : /\ Confirms(c, k)
                /\ k = [at |-> "item", left |-> fetchItems, variance |-> [p \in Items |-> Variance(p)],
                        seen |-> 0, wrote |-> <<>>, date |-> today, began |-> changes']
  <1>1. confirm' = [confirm EXCEPT ![c] =
          [NoConfirm EXCEPT !.at = "item", !.left = fetchItems,
                            !.variance = [p \in Items |-> Variance(p)], !.date = today,
                            !.began = changes']]
    BY DEF ConfirmRead
  <1>2. PICK k : k = [NoConfirm EXCEPT !.at = "item", !.left = fetchItems,
                        !.variance = [p \in Items |-> Variance(p)], !.date = today,
                            !.began = changes']
    OBVIOUS
  <1>3. k = [at |-> "item", left |-> fetchItems, variance |-> [p \in Items |-> Variance(p)],
             seen |-> 0, wrote |-> <<>>, date |-> today, began |-> changes']
    BY <1>2 DEF NoConfirm
  <1>4. confirm = [d \in Confirmers |-> confirm[d]]
    BY DEF TypeOK
  <1>5. confirm' = [confirm EXCEPT ![c] = k]
    BY <1>1, <1>2
  <1>6. Confirms(c, k)
    BY <1>4, <1>5 DEF Confirms
  <1>7. QED
    BY <1>3, <1>6

\* A confirmation with some of its fields replaced.
LEMMA Replaced ==
  ASSUME NEW a, NEW l, NEW v, NEW s, NEW o, NEW d, NEW b, NEW x, NEW y, NEW z, NEW q,
         q = [at |-> a, left |-> l, variance |-> v, seen |-> s, wrote |-> o, date |-> d, began |-> b]
  PROVE  /\ \A k : k = [q EXCEPT !.left = x] =>
              k = [at |-> a, left |-> x, variance |-> v, seen |-> s, wrote |-> o, date |-> d, began |-> b]
         /\ \A k : k = [q EXCEPT !.at = x, !.seen = y] =>
              k = [at |-> x, left |-> l, variance |-> v, seen |-> y, wrote |-> o, date |-> d, began |-> b]
         /\ \A k : k = [q EXCEPT !.at = x, !.left = y, !.wrote = z] =>
              k = [at |-> x, left |-> y, variance |-> v, seen |-> s, wrote |-> z, date |-> d, began |-> b]
  <1>1. ASSUME NEW k, k = [q EXCEPT !.left = x]
        PROVE  k = [at |-> a, left |-> x, variance |-> v, seen |-> s, wrote |-> o, date |-> d, began |-> b]
    BY <1>1
  <1>2. ASSUME NEW k, k = [q EXCEPT !.at = x, !.seen = y]
        PROVE  k = [at |-> x, left |-> l, variance |-> v, seen |-> y, wrote |-> o, date |-> d, began |-> b]
    BY <1>2
  <1>3. ASSUME NEW k, k = [q EXCEPT !.at = x, !.left = y, !.wrote = z]
        PROVE  k = [at |-> x, left |-> y, variance |-> v, seen |-> s, wrote |-> z, date |-> d, began |-> b]
    BY <1>3
  <1>4. QED
    BY <1>1, <1>2, <1>3

LEMMA ItemStep ==
  ASSUME TypeOK, NEW c \in Confirmers, ConfirmItem(c)
  PROVE  \E k : /\ Confirms(c, k)
                /\ LET q == confirm[c]
                       p == Head(q.left)
                   IN  k = IF q.variance[p] = 0
                           THEN [at |-> q.at, left |-> Tail(q.left), variance |-> q.variance,
                                 seen |-> q.seen, wrote |-> q.wrote, date |-> q.date, began |-> q.began]
                           ELSE [at |-> "write", left |-> q.left, variance |-> q.variance,
                                 seen |-> stock[p], wrote |-> q.wrote, date |-> q.date, began |-> q.began]
  <1>1. confirm = [d \in Confirmers |-> confirm[d]] /\ Confirmation(confirm[c])
    BY DEF TypeOK
  <1>2. PICK q, p : q = confirm[c] /\ p = Head(q.left)
    OBVIOUS
  <1>3. q = [at |-> q.at, left |-> q.left, variance |-> q.variance, seen |-> q.seen,
             wrote |-> q.wrote, date |-> q.date, began |-> q.began]
    BY <1>1, <1>2 DEF Confirmation
  <1>4. IF q.variance[p] = 0
        THEN confirm' = [confirm EXCEPT ![c] = [q EXCEPT !.left = Tail(q.left)]]
        ELSE confirm' = [confirm EXCEPT ![c] = [q EXCEPT !.at = "write", !.seen = stock[p]]]
    BY <1>2 DEF ConfirmItem
  <1>5. PICK k : k = IF q.variance[p] = 0 THEN [q EXCEPT !.left = Tail(q.left)]
                     ELSE [q EXCEPT !.at = "write", !.seen = stock[p]]
    OBVIOUS
  <1>6. confirm' = [confirm EXCEPT ![c] = k]
    BY <1>4, <1>5
  <1>7. Confirms(c, k)
    BY <1>1, <1>6 DEF Confirms
  <1>8. k = IF q.variance[p] = 0
            THEN [at |-> q.at, left |-> Tail(q.left), variance |-> q.variance,
                  seen |-> q.seen, wrote |-> q.wrote, date |-> q.date, began |-> q.began]
            ELSE [at |-> "write", left |-> q.left, variance |-> q.variance,
                  seen |-> stock[p], wrote |-> q.wrote, date |-> q.date, began |-> q.began]
    <2>1. PICK a, l, v, s, o, d, b, x : /\ a = q.at /\ l = q.left /\ v = q.variance /\ s = q.seen
                                     /\ o = q.wrote /\ d = q.date /\ b = q.began /\ x = Tail(l)
      OBVIOUS
    <2>2. q = [at |-> a, left |-> l, variance |-> v, seen |-> s, wrote |-> o, date |-> d, began |-> b]
      BY <1>3, <2>1
    <2>3. CASE v[p] = 0
      <3>1. k = [q EXCEPT !.left = x]
        BY <1>5, <2>1, <2>3
      <3>2. k = [at |-> a, left |-> x, variance |-> v, seen |-> s, wrote |-> o, date |-> d, began |-> b]
        BY <2>2, <3>1, Replaced
      <3>3. QED
        BY <2>1, <2>3, <3>2
    <2>4. CASE v[p] # 0
      <3>1. k = [q EXCEPT !.at = "write", !.seen = stock[p]]
        BY <1>5, <2>1, <2>4
      <3>2. k = [at |-> "write", left |-> l, variance |-> v, seen |-> stock[p], wrote |-> o, date |-> d, began |-> b]
        BY <2>2, <3>1, Replaced
      <3>3. QED
        BY <2>1, <2>4, <3>2
    <2>5. QED
      BY <2>3, <2>4
  <1>9. QED
    BY <1>2, <1>7, <1>8

\* k is q after the row of its next product is written.
Written(q, k) ==
  LET p == Head(q.left)
  IN  /\ k = [at |-> "item", left |-> Tail(q.left), variance |-> q.variance, seen |-> q.seen,
              wrote |-> k.wrote, date |-> q.date, began |-> q.began]
      /\ DOMAIN k.wrote = DOMAIN q.wrote \cup {p}
      /\ k.wrote[p] = Wrote(q.seen, q.variance[p])
      /\ \A o \in DOMAIN q.wrote \ {p} : k.wrote[o] = q.wrote[o]

LEMMA WriteStep ==
  ASSUME TypeOK, NEW c \in Confirmers, ConfirmWrite(c)
  PROVE  \E k : Confirms(c, k) /\ Written(confirm[c], k)
  <1>1. confirm = [d \in Confirmers |-> confirm[d]] /\ Confirmation(confirm[c])
    BY DEF TypeOK
  <1>2. PICK q, p : q = confirm[c] /\ p = Head(q.left)
    OBVIOUS
  <1>3. q = [at |-> q.at, left |-> q.left, variance |-> q.variance, seen |-> q.seen,
             wrote |-> q.wrote, date |-> q.date, began |-> q.began]
    BY <1>1, <1>2 DEF Confirmation
  <1>4. PICK done : done = [o \in DOMAIN q.wrote \cup {p} |->
                              IF o = p THEN Wrote(q.seen, q.variance[p]) ELSE q.wrote[o]]
    OBVIOUS
  <1>5. confirm' = [confirm EXCEPT
          ![c] = [q EXCEPT !.at = "item", !.left = Tail(q.left), !.wrote = done]]
    BY <1>2, <1>4 DEF ConfirmWrite
  <1>6. PICK k : k = [q EXCEPT !.at = "item", !.left = Tail(q.left), !.wrote = done]
    OBVIOUS
  <1>7. Confirms(c, k)
    BY <1>1, <1>5, <1>6 DEF Confirms
  <1>8. k = [at |-> "item", left |-> Tail(q.left), variance |-> q.variance,
             seen |-> q.seen, wrote |-> done, date |-> q.date, began |-> q.began]
    BY <1>3, <1>6, Replaced
  <1>9. /\ DOMAIN done = DOMAIN q.wrote \cup {p}
        /\ done[p] = Wrote(q.seen, q.variance[p])
        /\ \A o \in DOMAIN q.wrote \ {p} : done[o] = q.wrote[o]
    BY <1>4
  <1>10. k.wrote = done
    BY <1>8
  <1>11. Written(q, k)
    BY <1>2, <1>8, <1>9, <1>10 DEF Written
  <1>12. QED
    BY <1>2, <1>7, <1>11

-----------------------------------------------------------------------------
(* The close agrees with its items and its confirmations *)

\* A confirmation that goes on keeps the variances it has computed.
LEMMA GoesOn ==
  ASSUME TypeOK, CloseAgrees, NEW c \in Confirmers, NEW k, Confirms(c, k),
         k.at # "idle", confirm[c].at # "idle", k.variance = confirm[c].variance,
         UNCHANGED <<status, opening, items, applied, overlapped, late>>
  PROVE  CloseAgrees'
  <1>1. \A d \in Confirmers : /\ confirm'[d].variance = confirm[d].variance
                              /\ confirm'[d].at # "idle" <=> confirm[d].at # "idle"
    BY DEF Confirms
  <1>2. \A p : Variance(p)' = Variance(p)
    BY DEF Variance
  <1>3. Items' = Items
    BY DEF Items
  <1>4. \A d \in Confirmers : \A p \in Items' \ late' :
          confirm'[d].at # "idle" /\ items'[p].physical # Uncounted =>
            p \in DOMAIN confirm'[d].variance /\ confirm'[d].variance[p] = Variance(p)'
    BY <1>1, <1>2, <1>3 DEF CloseAgrees
  <1>5. /\ ~overlapped' => \A d, e \in Confirmers :
             confirm'[d].at # "idle" => applied' = 0 /\ (confirm'[e].at # "idle" => d = e)
        /\ status' = "none" => applied' = 0 /\ \A d \in Confirmers : confirm'[d].at = "idle"
    BY <1>1 DEF CloseAgrees
  <1>6. QED
    BY <1>4, <1>5 DEF CloseAgrees

LEMMA ClosePreserved ==
  ASSUME IInv, [Next]_vars
  PROVE  CloseAgrees'
  <1>0. TypeOK /\ ConfirmationsAgree /\ CloseAgrees
    BY DEF IInv
  <1>1. CASE UNCHANGED <<status, opening, items, confirm, applied, overlapped, late>>
    <2>1. \A p : Variance(p)' = Variance(p)
      BY <1>1 DEF Variance
    <2>2. Items' = Items
      BY <1>1 DEF Items
    <2>3. QED
      BY <1>0, <1>1, <2>1, <2>2 DEF CloseAgrees
  <1>2. CASE OpenClose
    <2>1. /\ opening = "none" /\ status' = "draft" /\ opening' = "opened"
          /\ UNCHANGED <<items, confirm, applied, overlapped, late>>
      BY <1>2 DEF OpenClose
    <2>2. DOMAIN items = {} /\ status = "none" /\ Items' = {}
      BY <1>0, <2>1 DEF CloseAgrees, Items
    <2>3. applied = 0 /\ \A c \in Confirmers : confirm[c].at = "idle"
      BY <1>0, <2>2 DEF CloseAgrees
    <2>4. QED
      BY <2>1, <2>2, <2>3 DEF CloseAgrees
  <1>3. CASE Snapshot
    <2>1. /\ opening' = "read" /\ UNCHANGED <<status, confirm, applied, overlapped, late>>
          /\ items' = [p \in Products |->
               [system |-> stock[p], cost |-> avg[p], physical |-> Uncounted, variance |-> 0,
                included |-> Len(movements[p])]]
      BY <1>3 DEF Snapshot
    <2>2. Items' = {} /\ DOMAIN items' = Products
      BY <2>1 DEF Items
    <2>3. \A p \in DOMAIN items' : items'[p].physical = Uncounted
      BY <2>1
    <2>4. QED
      BY <1>0, <2>1, <2>2, <2>3 DEF CloseAgrees
  <1>4. CASE InsertItems
    <2>1. /\ opening = "read" /\ opening' = "ended"
          /\ UNCHANGED <<status, items, confirm, applied, overlapped, late>>
      BY <1>4 DEF InsertItems
    <2>2. DOMAIN items = Products /\ \A p \in DOMAIN items : items[p].physical = Uncounted
      BY <1>0, <2>1 DEF CloseAgrees
    <2>3. Items' = Products
      BY <2>1, <2>2 DEF Items
    <2>4. QED
      BY <1>0, <2>1, <2>2, <2>3 DEF CloseAgrees
  <1>5. CASE CountWrite
    <2>1. PICK q, n : q = counting[1] /\ n = counting[2]
      OBVIOUS
    <2>2. /\ items' = [items EXCEPT ![q].physical = n]
          /\ late' = IF \/ status = "closed" \/ \E c \in Confirmers : confirm[c].at # "idle"
                     THEN late \cup {q} ELSE late
          /\ UNCHANGED <<status, opening, confirm, applied, overlapped>>
      BY <1>5, <2>1 DEF CountWrite
    <2>3. DOMAIN items' = DOMAIN items /\ \A p \in DOMAIN items \ {q} : items'[p] = items[p]
      BY <2>2
    <2>4. opening = "ended" /\ Items' = Items /\ Items = DOMAIN items
      BY <1>0, <1>5, <2>2, <2>3 DEF TypeOK, CountWrite, Items
    <2>5. ASSUME NEW c \in Confirmers, NEW p \in Items' \ late',
                 confirm'[c].at # "idle", items'[p].physical # Uncounted
          PROVE  p \in DOMAIN confirm'[c].variance /\ confirm'[c].variance[p] = Variance(p)'
      <3>1. confirm[c].at # "idle" /\ p \notin late /\ p # q
        BY <2>2, <2>5
      <3>2. p \in Items /\ items'[p] = items[p]
        BY <2>3, <2>4, <2>5, <3>1
      <3>3. Variance(p)' = Variance(p)
        BY <3>2 DEF Variance
      <3>4. p \in DOMAIN confirm[c].variance /\ confirm[c].variance[p] = Variance(p)
        BY <1>0, <2>5, <3>1, <3>2 DEF CloseAgrees
      <3>5. QED
        BY <2>2, <3>3, <3>4
    <2>6. /\ opening' \in {"none", "opened"} => DOMAIN items' = {}
          /\ opening' \in {"read", "ended"} => DOMAIN items' = Products
          /\ opening' # "ended" => \A p \in DOMAIN items' : items'[p].physical = Uncounted
      BY <1>0, <2>2, <2>3, <2>4 DEF CloseAgrees
    <2>7. QED
      BY <1>0, <2>2, <2>5, <2>6 DEF CloseAgrees
  <1>6. ASSUME NEW c \in Confirmers, ConfirmRead(c)
        PROVE  CloseAgrees'
    <2>1. PICK k : /\ Confirms(c, k)
                   /\ k.at = "item" /\ k.variance = [p \in Items |-> Variance(p)]
      BY <1>0, <1>6, ReadStep
    <2>2. /\ status = "draft" /\ UNCHANGED <<status, opening, items, applied, late>>
          /\ overlapped' = (overlapped \/ \E d \in Confirmers : confirm[d].at # "idle")
      BY <1>6 DEF ConfirmRead, Accepts
    <2>3. /\ \A p : Variance(p)' = Variance(p)
          /\ Items' = Items
      BY <2>2 DEF Items, Variance
    <2>4. applied = 0
      BY <1>0, <2>2 DEF CloseAgrees, TypeOK
    <2>5. confirm'[c] = k /\ \A d \in Confirmers \ {c} : confirm'[d] = confirm[d]
      BY <2>1 DEF Confirms
    <2>6. ASSUME NEW d \in Confirmers, NEW p \in Items' \ late',
                 confirm'[d].at # "idle", items'[p].physical # Uncounted
          PROVE  p \in DOMAIN confirm'[d].variance /\ confirm'[d].variance[p] = Variance(p)'
      <3>1. CASE d = c
        BY <2>1, <2>3, <2>5, <2>6, <3>1
      <3>2. CASE d # c
        BY <1>0, <2>2, <2>3, <2>5, <2>6, <3>2 DEF CloseAgrees
      <3>3. QED
        BY <3>1, <3>2
    <2>7. ASSUME ~overlapped', NEW d \in Confirmers, confirm'[d].at # "idle"
          PROVE  d = c
      BY <2>2, <2>5, <2>7
    <2>8. QED
      BY <1>0, <2>2, <2>4, <2>6, <2>7 DEF CloseAgrees
  <1>7. ASSUME NEW c \in Confirmers, ConfirmItem(c)
        PROVE  CloseAgrees'
    <2>1. PICK k : Confirms(c, k) /\ k.at \in {confirm[c].at, "write"} /\ k.variance = confirm[c].variance
      BY <1>0, <1>7, ItemStep
    <2>2. confirm[c].at = "item" /\ UNCHANGED <<status, opening, items, applied, overlapped, late>>
      BY <1>7 DEF ConfirmItem
    <2>3. k.at # "idle" /\ confirm[c].at # "idle"
      BY <2>1, <2>2
    <2>4. QED
      BY <1>0, <2>1, <2>2, <2>3, GoesOn
  <1>8. ASSUME NEW c \in Confirmers, ConfirmWrite(c)
        PROVE  CloseAgrees'
    <2>1. PICK k : Confirms(c, k) /\ Written(confirm[c], k)
      BY <1>0, <1>8, WriteStep
    <2>2. confirm[c].at = "write" /\ UNCHANGED <<status, opening, items, applied, overlapped, late>>
      BY <1>8 DEF ConfirmWrite
    <2>3. k.at = "item" /\ k.variance = confirm[c].variance
      BY <2>1 DEF Written
    <2>4. k.at # "idle" /\ confirm[c].at # "idle"
      BY <2>2, <2>3
    <2>5. QED
      BY <1>0, <2>1, <2>2, <2>3, <2>4, GoesOn
  <1>9. ASSUME NEW c \in Confirmers, ConfirmCommit(c)
        PROVE  CloseAgrees'
    <2>1. /\ confirm[c].at = "item" /\ status' = "closed" /\ applied' = applied + 1
          /\ confirm' = [confirm EXCEPT ![c] = NoConfirm]
          /\ UNCHANGED <<opening, overlapped, late>>
      BY <1>9 DEF ConfirmCommit
    <2>2. ~Snapshot /\ ~CountWrite
      BY <1>9, <2>1 DEF Snapshot, CountWrite, ConfirmCommit
    <2>3. /\ DOMAIN items' = DOMAIN items
          /\ \A p \in DOMAIN items : /\ items'[p].system = items[p].system
                                     /\ items'[p].physical = items[p].physical
      BY <1>0, <2>2, ItemsKept
    <2>4. Items' = Items /\ Items \subseteq DOMAIN items
      BY <2>1, <2>3 DEF Items
    <2>5. \A p \in Items : Variance(p)' = Variance(p)
      BY <2>3, <2>4 DEF Variance
    <2>6. /\ confirm'[c].at = "idle"
          /\ \A d \in Confirmers \ {c} : confirm'[d] = confirm[d]
      BY <1>0, <2>1 DEF TypeOK, NoConfirm
    <2>7. ASSUME NEW d \in Confirmers, NEW p \in Items' \ late',
                 confirm'[d].at # "idle", items'[p].physical # Uncounted
          PROVE  p \in DOMAIN confirm'[d].variance /\ confirm'[d].variance[p] = Variance(p)'
      <3>1. d # c /\ confirm'[d] = confirm[d] /\ p \in Items /\ p \notin late
        BY <2>1, <2>4, <2>6, <2>7
      <3>2. items[p].physical # Uncounted
        BY <2>3, <2>4, <2>7
      <3>3. QED
        BY <1>0, <2>5, <2>7, <3>1, <3>2 DEF CloseAgrees
    <2>8. ASSUME ~overlapped', NEW d \in Confirmers, confirm'[d].at # "idle"
          PROVE  FALSE
      BY <1>0, <2>1, <2>6, <2>8 DEF CloseAgrees
    <2>9. opening # "none"
      BY <1>0, <2>1 DEF CloseAgrees
    <2>10. /\ opening' \in {"none", "opened"} => DOMAIN items' = {}
           /\ opening' \in {"read", "ended"} => DOMAIN items' = Products
           /\ opening' # "ended" => \A p \in DOMAIN items' : items'[p].physical = Uncounted
      BY <1>0, <2>1, <2>3 DEF CloseAgrees
    <2>11. QED
      BY <2>1, <2>7, <2>8, <2>9, <2>10 DEF CloseAgrees
  <1>10. CASE Crash
    <2>1. /\ confirm' = [c \in Confirmers |-> NoConfirm]
          /\ opening' = IF opening \in {"opened", "read"} THEN "died" ELSE opening
          /\ UNCHANGED <<status, items, applied, overlapped, late>>
      BY <1>10 DEF Crash
    <2>2. \A c \in Confirmers : confirm'[c].at = "idle"
      BY <2>1 DEF NoConfirm
    <2>3. QED
      BY <1>0, <2>1, <2>2 DEF CloseAgrees
  <1>11. QED
    BY <1>1, <1>2, <1>3, <1>4, <1>5, <1>6, <1>7, <1>8, <1>9, <1>10
       DEF Next, vars, close, ChangeProduct, SaleFails, Begin, Midnight, CountCheck

-----------------------------------------------------------------------------
(* The confirmations agree with their items *)

\* What a confirmation has done and what it has left, by itself.
Different(l) == \A i, j \in DOMAIN l : i # j => l[i] # l[j]
Has(l, p) == \E i \in DOMAIN l : l[i] = p
Own(k) ==
  /\ k.at = "idle" => k = NoConfirm
  /\ Different(k.left)
  /\ \A p : Has(k.left, p) => p \in DOMAIN k.variance \ DOMAIN k.wrote
  /\ k.at = "write" => k.variance[Head(k.left)] # 0
  /\ \A p \in DOMAIN k.variance :
       \/ Has(k.left, p)
       \/ IF k.variance[p] = 0 THEN p \notin DOMAIN k.wrote ELSE p \in DOMAIN k.wrote
  /\ \A p \in DOMAIN k.wrote : k.wrote[p].after = k.wrote[p].before + k.variance[p]

LEMMA AgreeParts ==
  /\ ConfirmationsAgree <=>
       \A c \in Confirmers :
         /\ Own(confirm[c])
         /\ \A p \in DOMAIN confirm[c].wrote :
              /\ p \notin overwritten => confirm[c].wrote[p].before = stock[p]
              /\ \A d \in Confirmers \ {c} : p \notin DOMAIN confirm[d].wrote
  /\ ConfirmationsAgree' <=>
       \A c \in Confirmers :
         /\ Own(confirm'[c])
         /\ \A p \in DOMAIN confirm'[c].wrote :
              /\ p \notin overwritten' => confirm'[c].wrote[p].before = stock'[p]
              /\ \A d \in Confirmers \ {c} : p \notin DOMAIN confirm'[d].wrote
  BY DEF ConfirmationsAgree, Own, Different, Has

\* What remains of different products after the first.
LEMMA OneDone ==
  ASSUME NEW l \in Seq(Products), l # <<>>, Different(l), NEW p, p = Head(l), NEW t, t = Tail(l)
  PROVE  /\ t \in Seq(Products) /\ p \in Products /\ Different(t) /\ Has(l, p)
         /\ \A o : Has(t, o) <=> Has(l, o) /\ o # p
  <1>1. PICK n : n = Len(l)
    OBVIOUS
  <1>2. /\ n \in Nat /\ n >= 1 /\ DOMAIN l = 1..n /\ p = l[1] /\ l[1] \in Products
        /\ t \in Seq(Products) /\ Len(t) = n - 1 /\ DOMAIN t = 1..(n - 1)
        /\ \A i \in 1..(n - 1) : t[i] = l[i + 1]
    BY <1>1
  <1>3. ASSUME NEW i \in DOMAIN t
        PROVE  i + 1 \in DOMAIN l /\ i + 1 # 1 /\ t[i] = l[i + 1] /\ t[i] # p
    <2>1. i + 1 \in DOMAIN l /\ i + 1 # 1 /\ 1 \in DOMAIN l /\ t[i] = l[i + 1]
      BY <1>2
    <2>2. l[i + 1] # l[1]
      BY <2>1 DEF Different
    <2>3. QED
      BY <1>2, <2>1, <2>2
  <1>4. ASSUME NEW i \in DOMAIN t, NEW j \in DOMAIN t, i # j
        PROVE  t[i] # t[j]
    <2>1. i + 1 # j + 1
      BY <1>2, <1>4
    <2>2. l[i + 1] # l[j + 1]
      BY <1>3, <2>1 DEF Different
    <2>3. QED
      BY <1>3, <2>2
  <1>5. ASSUME NEW o, Has(l, o), o # p
        PROVE  Has(t, o)
    <2>1. PICK j \in DOMAIN l : l[j] = o
      BY <1>5 DEF Has
    <2>2. j # 1
      BY <1>2, <1>5, <2>1
    <2>3. j - 1 \in DOMAIN t /\ (j - 1) + 1 = j
      BY <1>2, <2>2
    <2>4. t[j - 1] = l[j]
      BY <1>3, <2>3
    <2>5. QED
      BY <2>1, <2>3, <2>4 DEF Has
  <1>6. ASSUME NEW o, Has(t, o)
        PROVE  Has(l, o) /\ o # p
    BY <1>3, <1>6 DEF Has
  <1>7. Has(l, p)
    <2>1. 1 \in DOMAIN l /\ l[1] = p
      BY <1>2
    <2>2. QED
      BY <2>1 DEF Has
  <1>8. QED
    BY <1>2, <1>4, <1>5, <1>6, <1>7 DEF Different

\* The confirmation of c goes on as k, and writes at most a row nobody holds.
LEMMA ConfirmsAgree ==
  ASSUME TypeOK, ConfirmationsAgree, NEW c \in Confirmers, NEW k, Confirms(c, k), Own(k),
         UNCHANGED stock, overwritten \subseteq overwritten',
         \A p \in DOMAIN k.wrote :
           \/ p \in DOMAIN confirm[c].wrote /\ k.wrote[p] = confirm[c].wrote[p]
           \/ RowFree(p) /\ (p \notin overwritten' => k.wrote[p].before = stock[p])
  PROVE  ConfirmationsAgree'
  <1>1. confirm'[c] = k /\ \A d \in Confirmers \ {c} : confirm'[d] = confirm[d]
    BY DEF Confirms
  <1>2. \A d \in Confirmers : Own(confirm'[d])
    BY <1>1, AgreeParts
  <1>3. ASSUME NEW d \in Confirmers, NEW p \in DOMAIN confirm'[d].wrote, p \notin overwritten'
        PROVE  confirm'[d].wrote[p].before = stock'[p]
    BY <1>1, <1>3, AgreeParts
  <1>4. ASSUME NEW d \in Confirmers, NEW p \in DOMAIN confirm'[d].wrote, NEW e \in Confirmers \ {d}
        PROVE  p \notin DOMAIN confirm'[e].wrote
    <2>1. CASE d = c
      BY <1>1, <1>4, <2>1, AgreeParts DEF RowFree
    <2>2. CASE d # c /\ e = c
      BY <1>1, <1>4, <2>2, AgreeParts DEF RowFree
    <2>3. CASE d # c /\ e # c
      BY <1>1, <1>4, <2>3, AgreeParts
    <2>4. QED
      BY <2>1, <2>2, <2>3
  <1>5. QED
    BY <1>2, <1>3, <1>4, AgreeParts

LEMMA ConfirmationsPreserved ==
  ASSUME IInv, [Next]_vars
  PROVE  ConfirmationsAgree'
  <1>0. TypeOK /\ ConfirmationsAgree /\ CloseAgrees
    BY DEF IInv
  <1>1. overwritten \subseteq overwritten'
    BY <1>0, NextProducts
  <1>2. CASE UNCHANGED <<confirm, stock>>
    BY <1>0, <1>1, <1>2, AgreeParts
  <1>3. ASSUME NEW w \in Workers, ChangeProduct(w)
        PROVE  ConfirmationsAgree'
    <2>1. UNCHANGED confirm
      BY <1>3 DEF ChangeProduct, close
    <2>2. PICK q : q = tx[w].product
      OBVIOUS
    <2>3. /\ \A c \in Confirmers : q \notin DOMAIN confirm[c].wrote
          /\ \A o \in Products \ {q} : stock'[o] = stock[o]
      BY <1>0, <1>3, <2>2, ChangeFacts DEF Same
    <2>4. \A c \in Confirmers : DOMAIN confirm[c].wrote \subseteq Products
      BY <1>0 DEF TypeOK, Confirmation
    <2>5. \A c \in Confirmers : \A p \in DOMAIN confirm[c].wrote : stock'[p] = stock[p]
      BY <2>3, <2>4
    <2>6. QED
      BY <1>0, <1>1, <2>1, <2>5, AgreeParts
  <1>4. ASSUME NEW c \in Confirmers, ConfirmRead(c)
        PROVE  ConfirmationsAgree'
    <2>1. PICK k : /\ Confirms(c, k)
                   /\ k = [at |-> "item", left |-> fetchItems,
                           variance |-> [p \in Items |-> Variance(p)],
                           seen |-> 0, wrote |-> <<>>, date |-> today, began |-> changes']
      BY <1>0, <1>4, ReadStep
    <2>2. k.at = "item" /\ k.left = fetchItems /\ DOMAIN k.variance = Items /\ DOMAIN k.wrote = {}
      BY <2>1
    <2>3. opening = "ended" => Items = Products
      BY <1>0 DEF CloseAgrees, Items
    <2>4. Own(k)
      <3>1. CASE opening = "ended"
        <4>1. fetchItems = ItemOrder /\ Items = Products
          BY <2>3, <3>1 DEF fetchItems
        <4>2. \A i \in DOMAIN ItemOrder : ItemOrder[i] \in Products
          OBVIOUS
        <4>3. QED
          BY <2>2, <4>1, <4>2 DEF Own, Different, Has
      <3>2. CASE opening # "ended"
        <4>1. fetchItems = <<>> /\ Items = {}
          BY <3>2 DEF fetchItems, Items
        <4>2. QED
          BY <2>2, <4>1 DEF Own, Different, Has
      <3>3. QED
        BY <3>1, <3>2
    <2>5. UNCHANGED stock
      BY <1>4 DEF ConfirmRead, products
    <2>6. QED
      BY <1>0, <1>1, <2>1, <2>2, <2>4, <2>5, ConfirmsAgree
  <1>5. ASSUME NEW c \in Confirmers, ConfirmItem(c)
        PROVE  ConfirmationsAgree'
    <2>0. PICK q, p : q = confirm[c] /\ p = Head(q.left)
      OBVIOUS
    <2>1. PICK k : /\ Confirms(c, k)
                   /\ k = IF q.variance[p] = 0
                          THEN [at |-> q.at, left |-> Tail(q.left), variance |-> q.variance,
                                seen |-> q.seen, wrote |-> q.wrote, date |-> q.date, began |-> q.began]
                                ELSE [at |-> "write", left |-> q.left, variance |-> q.variance,
                                      seen |-> stock[p], wrote |-> q.wrote, date |-> q.date, began |-> q.began]
      BY <1>0, <1>5, <2>0, ItemStep
    <2>2. q.at = "item" /\ q.left # <<>> /\ UNCHANGED stock
      BY <1>5, <2>0 DEF ConfirmItem, products
    <2>3. Own(q) /\ Confirmation(q)
      BY <1>0, <2>0, AgreeParts DEF TypeOK
    <2>4. k.variance = q.variance /\ k.wrote = q.wrote
      BY <2>1
    <2>5. Own(k)
      <3>1. CASE q.variance[p] = 0
        <4>1. k.at = "item" /\ k.left = Tail(q.left)
          BY <2>1, <2>2, <3>1
        <4>2. PICK l, t : l = q.left /\ p = Head(l) /\ t = Tail(l)
          BY <2>0
        <4>3. l \in Seq(Products) /\ l # <<>> /\ Different(l)
          BY <2>2, <2>3, <4>2 DEF Own, Confirmation
        <4>4. Different(t) /\ Has(l, p) /\ \A o : Has(t, o) <=> Has(l, o) /\ o # p
          BY <4>2, <4>3, OneDone
        <4>5. \A o : Has(l, o) => o \in DOMAIN q.variance \ DOMAIN q.wrote
          BY <2>3, <4>2 DEF Own
        <4>6. ASSUME NEW o \in DOMAIN q.variance
              PROVE  Has(t, o) \/ IF q.variance[o] = 0 THEN o \notin DOMAIN q.wrote
                                                     ELSE o \in DOMAIN q.wrote
          <5>1. CASE o = p
            BY <3>1, <4>4, <4>5, <5>1
          <5>2. CASE o # p
            BY <2>3, <4>2, <4>4, <5>2 DEF Own
          <5>3. QED
            BY <5>1, <5>2
        <4>7. k.left = t
          BY <4>1, <4>2
        <4>8. QED
          BY <2>3, <2>4, <4>1, <4>4, <4>5, <4>6, <4>7 DEF Own
      <3>2. CASE q.variance[p] # 0
        <4>1. k.at = "write" /\ k.left = q.left
          BY <2>1, <3>2
        <4>2. QED
          BY <2>0, <2>3, <2>4, <3>2, <4>1 DEF Own
      <3>3. QED
        BY <3>1, <3>2
    <2>6. QED
      BY <1>0, <1>1, <2>0, <2>1, <2>2, <2>4, <2>5, ConfirmsAgree
  <1>6. ASSUME NEW c \in Confirmers, ConfirmWrite(c)
        PROVE  ConfirmationsAgree'
    <2>0. PICK q, p : q = confirm[c] /\ p = Head(q.left)
      OBVIOUS
    <2>1. PICK k : Confirms(c, k) /\ Written(q, k)
      BY <1>0, <1>6, <2>0, WriteStep
    <2>2. /\ q.at = "write" /\ UNCHANGED stock /\ RowFree(p)
          /\ overwritten' = IF stock[p] # q.seen THEN overwritten \cup {p} ELSE overwritten
      BY <1>6, <2>0 DEF ConfirmWrite, products
    <2>3. Own(q) /\ Confirmation(q)
      BY <1>0, <2>0, AgreeParts DEF TypeOK
    <2>4. k.at = "item" /\ k.left = Tail(q.left) /\ k.variance = q.variance
      BY <2>1 DEF Written
    <2>5. PICK done : done = k.wrote
      OBVIOUS
    <2>5a. /\ DOMAIN done = DOMAIN q.wrote \cup {p}
           /\ \A o \in DOMAIN q.wrote \ {p} : done[o] = q.wrote[o]
           /\ done[p] = Wrote(q.seen, q.variance[p])
      BY <2>0, <2>1, <2>5 DEF Written
    <2>5b. done[p].before = q.seen /\ done[p].after = done[p].before + q.variance[p]
      BY <2>5a DEF Wrote
    <2>6. PICK l, t : l = q.left /\ p = Head(l) /\ t = Tail(l)
      BY <2>0
    <2>7. l \in Seq(Products) /\ l # <<>> /\ Different(l)
      BY <2>2, <2>3, <2>6 DEF Own, Confirmation
    <2>8. Different(t) /\ Has(l, p) /\ \A o : Has(t, o) <=> Has(l, o) /\ o # p
      BY <2>6, <2>7, OneDone
    <2>9. \A o : Has(l, o) => o \in DOMAIN q.variance \ DOMAIN q.wrote
      BY <2>3, <2>6 DEF Own
    <2>10. Own(k)
      <3>1. \A o : Has(t, o) => o \in DOMAIN q.variance \ DOMAIN done
        BY <2>5a, <2>8, <2>9
      <3>2. ASSUME NEW o \in DOMAIN q.variance
            PROVE  Has(t, o) \/ IF q.variance[o] = 0 THEN o \notin DOMAIN done
                                                   ELSE o \in DOMAIN done
        <4>1. CASE o = p
          <5>1. q.variance[p] # 0
            BY <2>0, <2>2, <2>3 DEF Own
          <5>2. QED
            BY <2>5a, <4>1, <5>1
        <4>2. CASE o # p
          <5>1. \/ Has(l, o)
                \/ IF q.variance[o] = 0 THEN o \notin DOMAIN q.wrote ELSE o \in DOMAIN q.wrote
            BY <2>3, <2>6 DEF Own
          <5>2. o \in DOMAIN done <=> o \in DOMAIN q.wrote
            BY <2>5a, <4>2
          <5>3. QED
            BY <2>8, <4>2, <5>1, <5>2
        <4>3. QED
          BY <4>1, <4>2
      <3>3. \A o \in DOMAIN done : done[o].after = done[o].before + q.variance[o]
        <4> TAKE o \in DOMAIN done
        <4>1. CASE o = p
          BY <2>5b, <4>1
        <4>2. CASE o # p
          <5>1. o \in DOMAIN q.wrote /\ done[o] = q.wrote[o]
            BY <2>5a, <4>2
          <5>2. QED
            BY <2>3, <5>1 DEF Own
        <4>3. QED
          BY <4>1, <4>2
      <3>4. QED
        BY <2>4, <2>5, <2>6, <2>8, <3>1, <3>2, <3>3 DEF Own
    <2>11. \A o \in DOMAIN k.wrote :
             \/ o \in DOMAIN q.wrote /\ k.wrote[o] = q.wrote[o]
             \/ RowFree(o) /\ (o \notin overwritten' => k.wrote[o].before = stock[o])
      <3> TAKE o \in DOMAIN k.wrote
      <3>1. CASE o = p
        BY <2>2, <2>5, <2>5b, <3>1
      <3>2. CASE o # p
        BY <2>5, <2>5a, <3>2
      <3>3. QED
        BY <3>1, <3>2
    <2>12. QED
      BY <1>0, <1>1, <2>0, <2>1, <2>2, <2>10, <2>11, ConfirmsAgree
  <1>7. ASSUME NEW c \in Confirmers, ConfirmCommit(c)
        PROVE  ConfirmationsAgree'
    <2>1. confirm' = [confirm EXCEPT ![c] = NoConfirm]
      BY <1>7 DEF ConfirmCommit
    <2>2. confirm'[c] = NoConfirm /\ \A d \in Confirmers \ {c} : confirm'[d] = confirm[d]
      BY <1>0, <2>1 DEF TypeOK
    <2>3. Own(NoConfirm) /\ DOMAIN NoConfirm.wrote = {}
      BY DEF Own, NoConfirm, Different, Has
    <2>4. ASSUME NEW d \in Confirmers \ {c}, NEW p \in DOMAIN confirm[d].wrote
          PROVE  stock'[p] = stock[p]
      <3>1. p \in Products
        BY <1>0 DEF TypeOK, Confirmation
      <3>2. p \notin DOMAIN confirm[c].wrote
        BY <1>0, AgreeParts
      <3>3. QED
        BY <1>0, <1>7, <3>1, <3>2, CommitFacts DEF Same
    <2>5. QED
      BY <1>0, <1>1, <2>2, <2>3, <2>4, AgreeParts
  <1>8. CASE Crash
    <2>1. \A c \in Confirmers : confirm'[c] = NoConfirm
      BY <1>8 DEF Crash
    <2>2. Own(NoConfirm) /\ DOMAIN NoConfirm.wrote = {}
      BY DEF Own, NoConfirm, Different, Has
    <2>3. QED
      BY <2>1, <2>2, AgreeParts
  <1>9. QED
    BY <1>2, <1>3, <1>4, <1>5, <1>6, <1>7, <1>8
       DEF Next, vars, close, products, SaleFails, Begin, Midnight, OpenClose, Snapshot, InsertItems,
           CountCheck, CountWrite

-----------------------------------------------------------------------------
(* Types *)

LEMMA ProductTypes ==
  ASSUME IInv, [Next]_vars
  PROVE  /\ stock' \in [Products -> Int] /\ avg' \in [Products -> Int]
         /\ lots' \in [Products -> Seq(Lot)] /\ movements' \in [Products -> Seq(Movement)]
         /\ \A p \in Products \ FifoProducts : lots'[p] = <<>>
  <1>0. TypeOK /\ ConfirmationsAgree
    BY DEF IInv
  <1>1. /\ \/ UNCHANGED products
           \/ \E w \in Workers : ChangeProduct(w)
           \/ \E c \in Confirmers : ConfirmCommit(c)
        /\ movements' \in [Products -> Seq(Movement)]
    BY <1>0, NextProducts
  <1>2. /\ stock \in [Products -> Int] /\ avg \in [Products -> Int]
        /\ lots \in [Products -> Seq(Lot)]
        /\ \A p \in Products \ FifoProducts : lots[p] = <<>>
    BY <1>0 DEF TypeOK
  <1>3. CASE UNCHANGED products
    BY <1>1, <1>2, <1>3 DEF products
  <1>4. ASSUME NEW w \in Workers, ChangeProduct(w)
        PROVE  /\ stock' \in [Products -> Int] /\ avg' \in [Products -> Int]
               /\ lots' \in [Products -> Seq(Lot)]
               /\ \A p \in Products \ FifoProducts : lots'[p] = <<>>
    <2>1. PICK t, q : t = tx[w] /\ q = t.product
      OBVIOUS
    <2>2. Begun(t)
      BY <1>0, <1>4, <2>1, ChangeFacts
    <2>3. PICK r \in Outcomes(t) :
            /\ stock' = [stock EXCEPT ![q] = r.stock]
            /\ avg' = [avg EXCEPT ![q] = r.avg]
            /\ lots' = [lots EXCEPT ![q] = r.lots]
      BY <1>0, <1>4, <2>1, ChangeFacts
    <2>4. q \in Products
      BY <2>1, <2>2 DEF Begun
    <2>5. r.stock \in Int /\ r.avg \in Int /\ r.lots \in Seq(Lot)
      BY <1>0, <2>2, <2>3, OutcomeType
    <2>6. q \notin FifoProducts => r.lots = <<>>
      BY <1>0, <2>1, <2>2, <2>3, AvgOutcome
    <2>7. stock' \in [Products -> Int] /\ avg' \in [Products -> Int]
      BY <1>2, <2>3, <2>4, <2>5
    <2>8. lots' \in [Products -> Seq(Lot)]
      BY <1>2, <2>3, <2>4, <2>5
    <2>9. \A p \in Products \ FifoProducts : lots'[p] = <<>>
      BY <1>2, <2>3, <2>4, <2>6
    <2>10. QED
      BY <2>7, <2>8, <2>9
  <1>5. ASSUME NEW c \in Confirmers, ConfirmCommit(c)
        PROVE  /\ stock' \in [Products -> Int] /\ UNCHANGED <<avg, lots>>
    BY <1>0, <1>5, CommitFacts
  <1>6. QED
    BY <1>1, <1>2, <1>3, <1>4, <1>5

\* The transactions that have begun.
LEMMA TransactionTypes ==
  ASSUME IInv, [Next]_vars
  PROVE  /\ tx' = [w \in Workers |-> tx'[w]]
         /\ \A w \in Workers : tx'[w].at \in {"idle", "begun"} /\ (tx'[w].at = "begun" => Begun(tx'[w]))
         /\ changes' \in Nat
  <1>0. TypeOK
    BY DEF IInv
  <1>1. /\ tx = [w \in Workers |-> tx[w]] /\ changes \in Nat
        /\ \A w \in Workers : tx[w].at \in {"idle", "begun"} /\ (tx[w].at = "begun" => Begun(tx[w]))
    BY <1>0 DEF TypeOK
  <1>2. changes' = changes \/ changes' = changes + 1
    BY DEF Next, vars, ChangeProduct, SaleFails, Begin, Midnight, OpenClose, Snapshot, InsertItems,
           CountCheck, CountWrite, ConfirmRead, ConfirmItem, ConfirmWrite, ConfirmCommit, Crash
  <1>3. CASE UNCHANGED tx
    BY <1>1, <1>2, <1>3
  <1>4. ASSUME NEW w \in Workers, tx' = [tx EXCEPT ![w] = NoChange]
        PROVE  /\ tx' = [v \in Workers |-> tx'[v]]
               /\ \A v \in Workers : /\ tx'[v].at \in {"idle", "begun"}
                                     /\ tx'[v].at = "begun" => Begun(tx'[v])
    <2>1. tx'[w] = NoChange /\ \A v \in Workers \ {w} : tx'[v] = tx[v]
      BY <1>1, <1>4
    <2>2. tx' = [v \in Workers |-> tx'[v]]
      BY <1>1, <1>4
    <2>3. NoChange.at = "idle"
      BY DEF NoChange
    <2>4. QED
      BY <1>1, <2>1, <2>2, <2>3
  <1>5. ASSUME NEW w \in Workers, NEW m \in Menu, Begin(w, m)
        PROVE  /\ tx' = [v \in Workers |-> tx'[v]]
               /\ \A v \in Workers : /\ tx'[v].at \in {"idle", "begun"}
                                     /\ tx'[v].at = "begun" => Begun(tx'[v])
    <2>0. PICK date : date = IF m.kind \in {"sale", "void"} THEN bangkokToday ELSE today
      OBVIOUS
    <2>1. PICK t : /\ t = [at |-> "begun", kind |-> m.kind, product |-> m.product,
                           quantity |-> m.quantity, cost |-> m.cost, began |-> changes',
                           date |-> date, preloaded |-> stock[m.product],
                           number |-> IF m.kind = "sale" THEN SalesMade + 1 ELSE 0]
                   /\ tx' = [tx EXCEPT ![w] = t]
      BY <1>5, <2>0 DEF Begin
    <2>2. /\ t.at = "begun" /\ t.kind = m.kind /\ t.product = m.product
          /\ t.quantity = m.quantity /\ t.cost = m.cost /\ t.date = date /\ t.began = changes'
      BY <2>1
    <2>9. date \in Nat
      BY <1>0, <2>0, Dates
    <2>3. m \in Change /\ (m.kind = "receive" => m.cost \in Nat)
      OBVIOUS
    <2>4. Begun(t)
      BY <1>1, <1>2, <2>2, <2>3, <2>9 DEF Begun
    <2>5. tx'[w] = t /\ \A v \in Workers \ {w} : tx'[v] = tx[v]
      BY <1>1, <2>1
    <2>6. tx' = [v \in Workers |-> tx'[v]]
      BY <1>1, <2>1
    <2>7. QED
      BY <1>1, <2>2, <2>4, <2>5, <2>6
  <1>6. CASE Crash
    <2>1. tx' = [w \in Workers |-> NoChange] /\ NoChange.at = "idle"
      BY <1>6 DEF Crash, NoChange
    <2>2. QED
      BY <1>1, <1>2, <2>1
  <1>7. \/ UNCHANGED tx
        \/ \E w \in Workers : tx' = [tx EXCEPT ![w] = NoChange]
        \/ \E w \in Workers, m \in Menu : Begin(w, m)
        \/ Crash
    BY DEF Next, vars, ChangeProduct, SaleFails, Midnight, OpenClose, Snapshot, InsertItems,
           CountCheck, CountWrite, ConfirmRead, ConfirmItem, ConfirmWrite, ConfirmCommit
  <1>8. QED
    BY <1>1, <1>2, <1>3, <1>4, <1>5, <1>6, <1>7

\* The items of the close.
LEMMA ItemTypes ==
  ASSUME IInv, [Next]_vars
  PROVE  DOMAIN items' \in {{}, Products} /\ \A p \in DOMAIN items' : items'[p] \in Item
  <1>0. TypeOK
    BY DEF IInv
  <1>1. /\ DOMAIN items \in {{}, Products} /\ \A p \in DOMAIN items : items[p] \in Item
        /\ counting = <<>> \/ counting \in Products \X Nat
    BY <1>0 DEF TypeOK
  <1>2. CASE UNCHANGED items
    BY <1>1, <1>2
  <1>3. CASE Snapshot
    <2>1. items' = [p \in Products |->
            [system |-> stock[p], cost |-> avg[p], physical |-> Uncounted, variance |-> 0,
             included |-> Len(movements[p])]]
      BY <1>3 DEF Snapshot
    <2>2. \A p \in Products : stock[p] \in Int /\ avg[p] \in Int /\ Len(movements[p]) \in Nat
      BY <1>0 DEF TypeOK
    <2>3. QED
      BY <2>1, <2>2 DEF Item
  <1>4. CASE CountWrite
    <2>1. PICK q, n : q = counting[1] /\ n = counting[2]
      OBVIOUS
    <2>2. items' = [items EXCEPT ![q] = [items[q] EXCEPT !.physical = n]] /\ n \in Nat
      BY <1>1, <1>4, <2>1 DEF CountWrite
    <2>3. DOMAIN items' = DOMAIN items
      BY <2>2
    <2>4. ASSUME NEW p \in DOMAIN items PROVE items'[p] \in Item
      BY <1>1, <2>2 DEF Item
    <2>5. QED
      BY <1>1, <2>3, <2>4
  <1>5. ASSUME NEW c \in Confirmers, ConfirmCommit(c)
        PROVE  DOMAIN items' = DOMAIN items /\ \A p \in DOMAIN items : items'[p] \in Item
    <2>1. PICK v : v = confirm[c].variance
      OBVIOUS
    <2>2. items' = [p \in DOMAIN items |->
             IF p \in DOMAIN v THEN [items[p] EXCEPT !.variance = v[p]] ELSE items[p]]
      BY <1>5, <2>1 DEF ConfirmCommit
    <2>3. \A p \in DOMAIN v : v[p] \in Int
      BY <1>0, <2>1 DEF TypeOK, Confirmation
    <2>4. ASSUME NEW p \in DOMAIN items PROVE items'[p] \in Item
      BY <1>1, <2>2, <2>3 DEF Item
    <2>5. QED
      BY <2>2, <2>4
  <1>6. UNCHANGED items \/ Snapshot \/ CountWrite \/ \E c \in Confirmers : ConfirmCommit(c)
    BY DEF Next, vars, close, ChangeProduct, SaleFails, Begin, Midnight, OpenClose, InsertItems,
           CountCheck, ConfirmRead, ConfirmItem, ConfirmWrite, Crash
  <1>7. QED
    BY <1>1, <1>2, <1>3, <1>4, <1>5, <1>6

\* A confirmation, whose products stay products of the close.
LEMMA ConfirmationTypes ==
  ASSUME IInv, [Next]_vars
  PROVE  /\ confirm' = [c \in Confirmers |-> confirm'[c]]
         /\ \A c \in Confirmers : /\ Confirmation(confirm'[c])
                                  /\ DOMAIN confirm'[c].variance \subseteq DOMAIN items'
  <1>0. TypeOK /\ ConfirmationsAgree
    BY DEF IInv
  <1>1. /\ confirm = [c \in Confirmers |-> confirm[c]]
        /\ \A c \in Confirmers : /\ Confirmation(confirm[c])
                                 /\ DOMAIN confirm[c].variance \subseteq DOMAIN items
        /\ DOMAIN items \subseteq Products
    BY <1>0 DEF TypeOK
  <1>2. DOMAIN items \subseteq DOMAIN items'
    <2>1. CASE Snapshot
      BY <1>1, <2>1 DEF Snapshot
    <2>2. CASE ~Snapshot
      BY <1>0, <2>2, ItemsKept
    <2>3. QED
      BY <2>1, <2>2
  <1>3. CASE UNCHANGED confirm
    BY <1>1, <1>2, <1>3
  <1>4. ASSUME NEW c \in Confirmers, NEW k, Confirms(c, k), Confirmation(k),
               DOMAIN k.variance \subseteq DOMAIN items
        PROVE  /\ confirm' = [d \in Confirmers |-> confirm'[d]]
               /\ \A d \in Confirmers : /\ Confirmation(confirm'[d])
                                        /\ DOMAIN confirm'[d].variance \subseteq DOMAIN items'
    <2>1. confirm'[c] = k /\ \A d \in Confirmers \ {c} : confirm'[d] = confirm[d]
      BY <1>4 DEF Confirms
    <2>2. confirm' = [d \in Confirmers |-> confirm'[d]]
      BY <1>4 DEF Confirms
    <2>3. QED
      BY <1>1, <1>2, <1>4, <2>1, <2>2
  <1>5. Confirmation(NoConfirm) /\ DOMAIN NoConfirm.variance = {}
    BY DEF Confirmation, NoConfirm
  <1>6. ASSUME NEW c \in Confirmers, ConfirmRead(c)
        PROVE  \E k : Confirms(c, k) /\ Confirmation(k) /\ DOMAIN k.variance \subseteq DOMAIN items
    <2>1. PICK k : /\ Confirms(c, k)
                   /\ k = [at |-> "item", left |-> fetchItems,
                           variance |-> [p \in Items |-> Variance(p)],
                           seen |-> 0, wrote |-> <<>>, date |-> today, began |-> changes']
      BY <1>0, <1>6, ReadStep
    <2>2. fetchItems \in Seq(Products)
      BY DEF fetchItems
    <2>3. changes' \in Nat /\ today \in Nat
      BY <1>0, TransactionTypes, Dates
    <2>4. Items \subseteq DOMAIN items
      BY DEF Items
    <2>5. ASSUME NEW p \in Items PROVE Variance(p) \in Int
      <3>1. items[p] \in Item
        BY <1>0, <2>4 DEF TypeOK
      <3>2. items[p].physical # Uncounted
        BY <1>6 DEF ConfirmRead
      <3>3. QED
        BY <3>1, <3>2 DEF Item, Variance
    <2>6. PICK v : v = [p \in Items |-> Variance(p)]
      OBVIOUS
    <2>7. DOMAIN v = Items /\ \A p \in Items : v[p] \in Int
      BY <2>5, <2>6
    <2>8. k = [at |-> "item", left |-> fetchItems, variance |-> v, seen |-> 0, wrote |-> <<>>,
               date |-> today, began |-> changes']
      BY <2>1, <2>6
    <2>9. Confirmation(k)
      BY <1>1, <2>2, <2>3, <2>4, <2>7, <2>8 DEF Confirmation
    <2>10. QED
      BY <2>1, <2>4, <2>7, <2>8, <2>9
  <1>7. ASSUME NEW c \in Confirmers, ConfirmItem(c)
        PROVE  \E k : Confirms(c, k) /\ Confirmation(k) /\ DOMAIN k.variance \subseteq DOMAIN items
    <2>0. PICK q, p, l : q = confirm[c] /\ p = Head(q.left) /\ l = Tail(q.left)
      OBVIOUS
    <2>1. PICK k : /\ Confirms(c, k)
                   /\ k = IF q.variance[p] = 0
                          THEN [at |-> q.at, left |-> Tail(q.left), variance |-> q.variance,
                                seen |-> q.seen, wrote |-> q.wrote, date |-> q.date, began |-> q.began]
                          ELSE [at |-> "write", left |-> q.left, variance |-> q.variance,
                                seen |-> stock[p], wrote |-> q.wrote, date |-> q.date, began |-> q.began]
      BY <1>0, <1>7, <2>0, ItemStep
    <2>2. q.at = "item" /\ q.left # <<>> /\ Confirmation(q)
      BY <1>1, <1>7, <2>0 DEF ConfirmItem
    <2>3. q.left \in Seq(Products)
      BY <2>2 DEF Confirmation
    <2>4. p \in Products /\ l \in Seq(Products)
      BY <2>0, <2>2, <2>3
    <2>5. stock[p] \in Int
      BY <1>0, <2>4 DEF TypeOK
    <2>6. Confirmation(k)
      <3>1. CASE q.variance[p] = 0
        <4>1. k = [at |-> q.at, left |-> l, variance |-> q.variance,
                   seen |-> q.seen, wrote |-> q.wrote, date |-> q.date, began |-> q.began]
          BY <2>0, <2>1, <3>1
        <4>2. QED
          BY <2>2, <2>4, <4>1 DEF Confirmation
      <3>2. CASE q.variance[p] # 0
        <4>1. k = [at |-> "write", left |-> q.left, variance |-> q.variance,
                   seen |-> stock[p], wrote |-> q.wrote, date |-> q.date, began |-> q.began]
          BY <2>1, <3>2
        <4>2. QED
          BY <2>2, <2>5, <4>1 DEF Confirmation
      <3>3. QED
        BY <3>1, <3>2
    <2>7. k.variance = q.variance
      BY <2>1
    <2>8. QED
      BY <1>1, <2>0, <2>1, <2>6, <2>7
  <1>8. ASSUME NEW c \in Confirmers, ConfirmWrite(c)
        PROVE  \E k : Confirms(c, k) /\ Confirmation(k) /\ DOMAIN k.variance \subseteq DOMAIN items
    <2>0. PICK q, p, l : q = confirm[c] /\ p = Head(q.left) /\ l = Tail(q.left)
      OBVIOUS
    <2>1. PICK k : Confirms(c, k) /\ Written(q, k)
      BY <1>0, <1>8, <2>0, WriteStep
    <2>2. q.at = "write" /\ Confirmation(q) /\ Own(q)
      BY <1>0, <1>1, <1>8, <2>0, AgreeParts DEF ConfirmWrite
    <2>3. q.left \in Seq(Products) /\ q.left # <<>> /\ q.seen \in Int
      BY <2>2 DEF Confirmation
    <2>4. p \in Products /\ l \in Seq(Products) /\ Has(q.left, p)
      BY <2>0, <2>2, <2>3, OneDone DEF Own
    <2>5. p \in DOMAIN q.variance
      BY <2>2, <2>4 DEF Own
    <2>6. q.variance[p] \in Int
      BY <2>2, <2>5 DEF Confirmation
    <2>7. PICK done : done = k.wrote
      OBVIOUS
    <2>8. /\ k = [at |-> "item", left |-> l, variance |-> q.variance, seen |-> q.seen,
                  wrote |-> done, date |-> q.date, began |-> q.began]
          /\ DOMAIN done = DOMAIN q.wrote \cup {p}
          /\ done[p] = Wrote(q.seen, q.variance[p])
          /\ \A o \in DOMAIN q.wrote \ {p} : done[o] = q.wrote[o]
      BY <2>0, <2>1, <2>7 DEF Written
    <2>9. done[p] \in [before : Int, after : Int]
      BY <2>3, <2>6, <2>8 DEF Wrote
    <2>10. ASSUME NEW o \in DOMAIN done PROVE done[o] \in [before : Int, after : Int]
      BY <2>2, <2>8, <2>9 DEF Confirmation
    <2>11. DOMAIN done \subseteq DOMAIN q.variance
      BY <2>2, <2>5, <2>8 DEF Confirmation
    <2>12. Confirmation(k)
      BY <2>2, <2>4, <2>8, <2>10, <2>11 DEF Confirmation
    <2>13. k.variance = q.variance
      BY <2>8
    <2>14. QED
      BY <1>1, <2>0, <2>1, <2>12, <2>13
  <1>9. ASSUME NEW c \in Confirmers, ConfirmCommit(c)
        PROVE  Confirms(c, NoConfirm)
    BY <1>1, <1>9 DEF ConfirmCommit, Confirms
  <1>10. CASE Crash
    BY <1>5, <1>10 DEF Crash
  <1>11. \/ UNCHANGED confirm
         \/ \E c \in Confirmers :
              ConfirmRead(c) \/ ConfirmItem(c) \/ ConfirmWrite(c) \/ ConfirmCommit(c)
         \/ Crash
    BY DEF Next, vars, close, ChangeProduct, SaleFails, Begin, Midnight, OpenClose, Snapshot,
           InsertItems, CountCheck, CountWrite
  <1>12. QED
    BY <1>3, <1>4, <1>5, <1>6, <1>7, <1>8, <1>9, <1>10, <1>11

LEMMA TypePreserved ==
  ASSUME IInv, [Next]_vars
  PROVE  TypeOK'
  <1>0. TypeOK /\ ConfirmationsAgree /\ CloseAgrees
    BY DEF IInv
  <1>1. clock' \in Nat
    <2>1. clock \in Nat
      BY <1>0 DEF TypeOK
    <2>2. clock' = clock \/ clock' = clock + 1
      BY DEF Next, vars, ChangeProduct, SaleFails, Begin, Midnight, OpenClose, Snapshot,
             InsertItems, CountCheck, CountWrite, ConfirmRead, ConfirmItem, ConfirmWrite,
             ConfirmCommit, Crash
    <2>3. QED
      BY <2>1, <2>2
  <1>2. status' \in {"none", "draft", "closed"}
    BY <1>0 DEF TypeOK, Next, vars, close, ChangeProduct, SaleFails, Begin, Midnight, OpenClose,
       Snapshot, InsertItems, CountCheck, CountWrite, ConfirmRead, ConfirmItem, ConfirmWrite,
       ConfirmCommit, Crash
  <1>3. opening' \in {"none", "opened", "read", "ended", "died"}
    <2>1. opening \in {"none", "opened", "read", "ended", "died"}
      BY <1>0 DEF TypeOK
    <2>2. QED
      BY <1>0, <2>1, ItemsGrow DEF OpenClose, Snapshot, InsertItems, Crash
  <1>4. counting' = <<>> \/ (counting' \in Products \X Nat /\ opening' = "ended")
    <2>1. counting = <<>> \/ (counting \in Products \X Nat /\ opening = "ended")
      BY <1>0 DEF TypeOK
    <2>2. ASSUME NEW p \in Products, NEW n \in Counts, CountCheck(p, n)
          PROVE  counting' \in Products \X Nat /\ opening' = "ended"
      BY <2>2 DEF CountCheck, Items
    <2>3. \/ UNCHANGED counting \/ counting' = <<>>
          \/ \E p \in Products, n \in Counts : CountCheck(p, n)
      BY DEF Next, vars, close, ChangeProduct, SaleFails, Begin, Midnight, OpenClose, Snapshot,
             InsertItems, CountWrite, ConfirmRead, ConfirmItem, ConfirmWrite, ConfirmCommit, Crash
    <2>4. CASE UNCHANGED counting /\ counting # <<>>
      <3>1. opening = "ended"
        BY <2>1, <2>4
      <3>2. opening' = "ended"
        BY <1>0, <3>1, ItemsGrow DEF OpenClose, Snapshot, InsertItems, Crash
      <3>3. QED
        BY <2>1, <2>4, <3>2
    <2>5. QED
      BY <2>1, <2>2, <2>3, <2>4
  <1>5. applied' \in Nat
    BY <1>0, AppliedGrows
  <1>6. overwritten' \cup late' \subseteq Products
    <2>1. overwritten \subseteq Products /\ late \subseteq Products
      BY <1>0 DEF TypeOK
    <2>2. late' \subseteq Products
      <3>1. late' = late \/ CountWrite
        BY DEF Next, vars, close, ChangeProduct, SaleFails, Begin, Midnight, OpenClose, Snapshot,
               InsertItems, CountCheck, ConfirmRead, ConfirmItem, ConfirmWrite, ConfirmCommit, Crash
      <3>2. CountWrite => counting[1] \in Products /\ (late' = late \/ late' = late \cup {counting[1]})
        BY <1>0 DEF CountWrite, TypeOK
      <3>3. QED
        BY <2>1, <3>1, <3>2
    <2>3. overwritten' \subseteq Products
      <3>1. overwritten' = overwritten \/ \E c \in Confirmers : ConfirmWrite(c)
        BY DEF Next, vars, close, ChangeProduct, SaleFails, Begin, Midnight, OpenClose, Snapshot,
               InsertItems, CountCheck, CountWrite, ConfirmRead, ConfirmItem, ConfirmCommit, Crash
      <3>2. ASSUME NEW c \in Confirmers, ConfirmWrite(c)
            PROVE  overwritten' \subseteq Products
        <4>1. PICK l, p : l = confirm[c].left /\ p = Head(l)
          OBVIOUS
        <4>2. l \in Seq(Products) /\ l # <<>>
          BY <1>0, <3>2, <4>1 DEF TypeOK, Confirmation, ConfirmWrite
        <4>3. p \in Products
          BY <4>1, <4>2
        <4>4. overwritten' = overwritten \/ overwritten' = overwritten \cup {p}
          BY <3>2, <4>1 DEF ConfirmWrite
        <4>5. QED
          BY <2>1, <4>3, <4>4
      <3>3. QED
        BY <2>1, <3>1, <3>2
    <2>4. QED
      BY <2>2, <2>3
  <1>7. QED
    BY <1>1, <1>2, <1>3, <1>4, <1>5, <1>6, ProductTypes, TransactionTypes, ItemTypes,
       ConfirmationTypes DEF TypeOK

-----------------------------------------------------------------------------
(* The theorems *)

LEMMA InitHolds ==
  ASSUME Init
  PROVE  IInv
  <1>1. TypeOK
    <2>0. Confirmation(NoConfirm) /\ DOMAIN NoConfirm.variance = {}
      BY DEF Confirmation, NoConfirm
    <2>1. \A c \in Confirmers : Confirmation(confirm[c]) /\ DOMAIN confirm[c].variance \subseteq DOMAIN items
      BY <2>0 DEF Init
    <2>2. \A w \in Workers : tx[w].at = "idle"
      BY DEF Init, NoChange
    <2>3. lots \in [Products -> Seq(Lot)] /\ movements \in [Products -> Seq(Movement)]
      BY DEF Init
    <2>4. QED
      BY <2>1, <2>2, <2>3 DEF Init, TypeOK
  <1>2. \A c \in Confirmers : confirm[c] = NoConfirm
    BY DEF Init
  <1>3. NoConfirm.at = "idle" /\ DOMAIN NoConfirm.wrote = {} /\ Own(NoConfirm)
    BY DEF NoConfirm, Own, Different, Has
  <1>4. ConfirmationsAgree
    BY <1>2, <1>3, AgreeParts
  <1>5. CloseAgrees
    BY <1>2, <1>3 DEF Init, CloseAgrees, Items
  <1>6. MovementsExplainStock
    BY DEF Init, MovementsExplainStock, Joined
  <1>7. \A p \in Products : lots[p] = <<>> /\ movements[p] = <<>> /\ stock[p] = 0
                                /\ avg[p] = OpeningCost[p]
    BY DEF Init
  <1>8. Quantity(<<>>) = 0
    <2>1. PICK l : l = <<>>
      OBVIOUS
    <2>2. l \in Seq(Lot)
      BY <2>1
    <2>3. QED
      BY <2>1, <2>2, QuantityFacts
  <1>9. StockIsLots /\ AverageRounded
    BY <1>7, <1>8 DEF StockIsLots, AverageRounded
  <1>10. ReplayTracks
    <2>1. SUFFICES ASSUME NEW p \in Products, NEW base \in Int
                   PROVE  Tracks(p, base)
      BY DEF ReplayTracks
    <2>2. PICK ms : ms = movements[p]
      OBVIOUS
    <2>0. movements[p] = <<>> /\ stock[p] = 0 /\ avg[p] = OpeningCost[p]
      BY <1>7
    <2>3. ms = <<>> /\ ms \in Seq(Movement)
      <3>1. ms = <<>>
        BY <2>0, <2>2
      <3>2. QED
        BY <3>1
    <2>4. Run(base, ms) = Unrounded(0, base)
      BY <2>3, RunFacts
    <2>5. ~OnEmpty(ms)
      BY <2>3 DEF OnEmpty
    <2>6. Within(Unrounded(0, base), base)
      BY DEF Within, Unrounded, Magnitude
    <2>7. Unrounded(0, base).quantity = 0
      BY DEF Unrounded
    <2>8. QED
      BY <2>0, <2>2, <2>4, <2>5, <2>6, <2>7 DEF Tracks, Run
  <1>11. SnapshotKept /\ CloseKeepsCount
    BY DEF Init, SnapshotKept, CloseKeepsCount
  <1>12. QED
    BY <1>1, <1>4, <1>5, <1>6, <1>9, <1>10, <1>11 DEF IInv

LEMMA NextKeeps ==
  ASSUME IInv, [Next]_vars
  PROVE  IInv'
  <1>1. TypeOK /\ ConfirmationsAgree /\ MovementsExplainStock
    BY DEF IInv
  <1>2. MovementsExplainStock'
    BY <1>1, NextProducts, MovementsPreserved
  <1>3. QED
    BY <1>2, TypePreserved, ConfirmationsPreserved, ClosePreserved, LotsPreserved,
       ReplayPreserved, SnapshotPreserved, CountKept DEF IInv

\* Every reachable state satisfies the inductive invariant.
THEOREM Invariance == Spec => []IInv
  <1>1. Init => IInv
    BY InitHolds
  <1>2. IInv /\ [Next]_vars => IInv'
    BY NextKeeps
  <1>3. QED
    BY <1>1, <1>2, PTL DEF Spec

\* Every variable always has its type, however many products and confirmations
\* there are and however often the server dies.
THEOREM TypeCorrect == Spec => []TypeOK
  <1>1. IInv => TypeOK
    BY DEF IInv
  <1>2. QED
    BY <1>1, Invariance, PTL

\* The movements of a product always lead without a gap from nothing to the stock
\* it has, unless a confirmation of a close wrote a stale stock.
THEOREM MovementsAlwaysExplain == Spec => []MovementsExplainStock
  <1>1. IInv => MovementsExplainStock
    BY DEF IInv
  <1>2. QED
    BY <1>1, Invariance, PTL

\* The lots of a FIFO product that no close has touched always hold its stock,
\* whatever lots are drained into debt or put back.
THEOREM StockAlwaysLots == Spec => []StockIsLots
  <1>1. IInv => StockIsLots
    BY DEF IInv
  <1>2. QED
    BY <1>1, Invariance, PTL

\* Its average never is more than one ten-thousandth from that of its lots,
\* although a void does not compute it again.
THEOREM AverageAlwaysLots == Spec => []AverageIsLots
  <1>1. ASSUME IInv
        PROVE  AverageIsLots
    <2>1. TypeOK /\ AverageRounded
      BY <1>1 DEF IInv
    <2>2. SUFFICES ASSUME NEW p \in FifoProducts \ ClosedProducts,
                          ~PutBackOnNothing(movements[p]), Quantity(lots[p]) # 0
                   PROVE  Magnitude(avg[p] - calcFifoAvgCost(lots[p])) <= 1
      BY DEF AverageIsLots
    <2>3. PICK l, a, c, n, v : /\ l = lots[p] /\ a = avg[p] /\ c = calcFifoAvgCost(l)
                               /\ n = Quantity(l) /\ v = Value(l)
      OBVIOUS
    <2>4. l \in Seq(Lot) /\ a \in Int
      BY <2>1, <2>3 DEF TypeOK
    <2>5. n \in Int /\ n # 0 /\ v \in Int
      BY <2>2, <2>3, <2>4, QuantityFacts, ValueFacts
    <2>6. c \in Int /\ 2 * Magnitude(c * n - v) <= Magnitude(n)
      BY <2>3, <2>4, <2>5, AverageOfLots
    <2>7. 2 * Magnitude(a * n - v) <= Magnitude(n)
      BY <2>1, <2>2, <2>3 DEF AverageRounded
    <2>8. Magnitude(a - c) <= 1
      BY <2>4, <2>5, <2>6, <2>7, RoundedTwice
    <2>9. QED
      BY <2>3, <2>8
  <1>2. QED
    BY <1>1, Invariance, PTL

\* The ledger the reports replay always ends with the stock of an avg_cost
\* product and, but for what rounding makes, with its average, outside the cases
\* the definition names.
THEOREM ReplayAlwaysFinds == Spec => []ReplayFindsProduct
  <1>1. ASSUME IInv
        PROVE  ReplayFindsProduct
    <2>1. TypeOK /\ ReplayTracks
      BY <1>1 DEF IInv
    <2>2. SUFFICES ASSUME NEW p \in Products \ (FifoProducts \cup overwritten),
                          InOrder(movements[p]), ~Diverges(movements[p]),
                          NEW from \in 0..(bangkokToday + 1)
                   PROVE  /\ Replay(p, from).quantity = stock[p]
                          /\ Base(p, from) = OpeningCost[p] \/ OnEmpty(movements[p]) =>
                               Within(Replay(p, from), avg[p])
      BY DEF ReplayFindsProduct
    <2>3. movements[p] \in Seq(Movement) /\ avg[p] \in Int
      BY <2>1 DEF TypeOK
    <2>4. Ledger(movements[p]) = movements[p]
      BY <2>2, <2>3, LedgerInOrder
    <2>5. Base(p, from) \in Int
      BY <2>3 DEF Base
    <2>6. Tracks(p, Base(p, from))
      BY <2>1, <2>2, <2>5 DEF ReplayTracks
    <2>7. QED
      BY <2>4, <2>6 DEF Tracks, Replay
  <1>2. QED
    BY <1>1, Invariance, PTL

\* A close that was applied once always leaves a product with what was counted and
\* what has moved since the snapshot.
THEOREM CloseAlwaysKeeps == Spec => []CloseKeepsCount
  <1>1. IInv => CloseKeepsCount
    BY DEF IInv
  <1>2. QED
    BY <1>1, Invariance, PTL

\* Only confirmations that were under way at once apply a close more than once.
THEOREM AppliedAlwaysOnce == Spec => []AppliedOnce
  <1>1. ASSUME Init PROVE AppliedOnce
    BY <1>1 DEF Init, AppliedOnce
  <1>2. ASSUME IInv, AppliedOnce, [Next]_vars PROVE AppliedOnce'
    <2>1. TypeOK /\ CloseAgrees
      BY <1>2 DEF IInv
    <2>2. SUFFICES ASSUME applied' > 1, ~overlapped' PROVE FALSE
      BY DEF AppliedOnce
    <2>3. ~overlapped
      BY <1>2, <2>1, <2>2, ItemsGrow
    <2>4. /\ applied \in Nat
          /\ applied' = applied \/ (applied' = applied + 1 /\ \E c \in Confirmers : ConfirmCommit(c))
      BY <1>2, <2>1, AppliedGrows
    <2>5. ~(applied > 1)
      BY <1>2, <2>3 DEF AppliedOnce
    <2>6. PICK c \in Confirmers : ConfirmCommit(c) /\ applied' = applied + 1
      BY <2>2, <2>4, <2>5
    <2>7. confirm[c].at # "idle"
      BY <2>6 DEF ConfirmCommit
    <2>8. applied = 0
      BY <2>1, <2>3, <2>7 DEF CloseAgrees
    <2>9. QED
      BY <2>2, <2>6, <2>8
  <1>3. QED
    BY <1>1, <1>2, Invariance, PTL DEF Spec

\* A sale of any quantity always takes the oldest units of a FIFO product, in one
\* of the orders by date its lots may be read in, and leaves the rest of the row;
\* or it takes all of them and leaves one lot of negative quantity.
THEOREM SalesAlwaysTakeOldest ==
  Spec => [](SalesTakeOldest /\ \A p \in FifoProducts : \A n \in Nat \ {0} : TakesOldest(p, n))
  <1>1. ASSUME TypeOK
        PROVE  \A p \in FifoProducts : \A n \in Nat \ {0} : TakesOldest(p, n)
    <2>1. SUFFICES ASSUME NEW p \in FifoProducts, NEW n \in Nat \ {0},
                          \A i \in DOMAIN lots[p] : lots[p][i].quantity > 0,
                          NEW r \in Deducted(p, n)
                   PROVE  \E sorted \in {s \in Orders(lots[p]) : OldestFirst(s)} :
                            LET units == Units(sorted)
                            IN  IF n <= Len(units)
                                THEN Units(r.lots) = SubSeq(units, n + 1, Len(units))
                                ELSE Len(r.lots) = 1 /\ r.stock = Len(units) - n
      BY DEF TakesOldest
    <2>2. PICK l : l = lots[p]
      OBVIOUS
    <2>3. l \in Seq(Lot) /\ today \in Nat /\ \A i \in DOMAIN l : l[i].quantity > 0
      BY <1>1, Dates, <2>1, <2>2 DEF TypeOK
    <2>4. PICK sorted \in ByDate(l) : r = OfLots(deductFifoLots(sorted, n, today))
      BY <2>2 DEF Deducted
    <2>5. sorted \in Seq(Lot) /\ \A i \in 1..Len(sorted) : sorted[i].quantity > 0
      BY <2>3, SortedLots, SortedHold
    <2>6. PICK left : left = deductFifoLots(sorted, n, today)
      OBVIOUS
    <2>7. r.lots = left /\ r.stock = Quantity(left)
      BY <2>4, <2>6 DEF OfLots, After
    <2>8. LeavesNewest(left, sorted, n)
      <3>1. PICK date : date = today
        OBVIOUS
      <3>2. date \in Nat /\ left = deductFifoLots(sorted, n, date)
        BY <2>3, <2>6, <3>1
      <3>3. sorted \in Seq(Lot)
        BY <2>5
      <3>4. \A i \in 1..Len(sorted) : sorted[i].quantity > 0
        BY <2>5
      <3>5. QED
        BY <3>2, <3>3, <3>4, DeductedOldest
    <2>9. sorted \in {s \in Orders(lots[p]) : OldestFirst(s)}
      BY <2>2, <2>4 DEF ByDate
    <2>10. QED
      BY <2>7, <2>8, <2>9 DEF LeavesNewest
  <1>2. (\A p \in FifoProducts : \A n \in Nat \ {0} : TakesOldest(p, n)) => SalesTakeOldest
    <2>1. \A n \in 1..3 : n \in Nat \ {0}
      OBVIOUS
    <2>2. QED
      BY <2>1 DEF SalesTakeOldest
  <1>3. QED
    BY <1>1, <1>2, TypeCorrect, PTL
=============================================================================
