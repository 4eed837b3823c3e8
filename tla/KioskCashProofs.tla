-------------------------- MODULE KioskCashProofs --------------------------
(***************************************************************************)
(* What is proved of a cash top-up at the kiosk, for every set of bills,    *)
(* of targets and of sessions: the types, and that a ref stands for one     *)
(* amount.  The heart of it is the stop a finalize waits for: between the   *)
(* script's call and the result the script handles, two threads and two    *)
(* queues carry it, and a session must wait for one such stop at a time.   *)
(***************************************************************************)
EXTENDS KioskCash, CountingProofs, SequenceTheorems, TLAPS

----------------------------------------------------------------------------
(* Places in a queue *)

\* The last of one more.
LEMMA PlacesAppend ==
  ASSUME NEW S, NEW M, NEW q \in Seq(S), NEW e \in S
  PROVE  /\ e \in M => Places(Append(q, e), M) = Places(q, M) \cup {Len(q) + 1}
         /\ e \notin M => Places(Append(q, e), M) = Places(q, M)
<1> DEFINE n == Len(q)
<1>1. /\ n \in Nat /\ DOMAIN q = 1..n /\ DOMAIN Append(q, e) = 1..(n + 1)
      /\ \A i \in 1..n : Append(q, e)[i] = q[i]
      /\ Append(q, e)[n + 1] = e
  OBVIOUS
<1> HIDE DEF n
<1>2. 1..(n + 1) = 1..n \cup {n + 1}
  BY <1>1
<1>3. \A i \in 1..n : i # n + 1
  BY <1>1
<1> QED
  BY <1>1, <1>2, <1>3, Zenon DEF Places, n

LEMMA OtherAppended ==
  ASSUME NEW S, NEW M, NEW q \in Seq(S), NEW e \in S, e \notin M
  PROVE  Places(Append(q, e), M) = Places(q, M)
  BY PlacesAppend

\* What is left when the head is taken.
LEMMA PlacesTail ==
  ASSUME NEW S, NEW M, NEW q \in Seq(S), q # <<>>
  PROVE  /\ \A i \in Places(Tail(q), M) : i + 1 \in Places(q, M) /\ i \in Nat \ {0}
         /\ Head(q) \in M => 1 \in Places(q, M)
  BY DEF Places

\* At most one place stays at most one, and none if it was the head's.
LEMMA TailKeepsOne ==
  ASSUME NEW S, NEW M, NEW q \in Seq(S), q # <<>>, AtMostOne(Places(q, M))
  PROVE  /\ AtMostOne(Places(Tail(q), M))
         /\ Head(q) \in M => Places(Tail(q), M) = {}
<1>1. \A i \in Places(Tail(q), M) : i + 1 \in Places(q, M) /\ i \in Nat \ {0}
  BY PlacesTail
<1>2. Head(q) \in M => 1 \in Places(q, M)
  BY PlacesTail
<1>3. \A i, j \in Places(q, M) : i = j
  BY DEF AtMostOne
<1>4. AtMostOne(Places(Tail(q), M))
  <2> SUFFICES ASSUME NEW i \in Places(Tail(q), M), NEW j \in Places(Tail(q), M)
               PROVE  i = j
    BY DEF AtMostOne
  <2>1. i + 1 = j + 1 /\ i \in Nat /\ j \in Nat
    BY <1>1, <1>3
  <2> QED
    BY <2>1
<1>5. Head(q) \in M => Places(Tail(q), M) = {}
  <2> SUFFICES ASSUME Head(q) \in M, NEW i \in Places(Tail(q), M) PROVE FALSE
    OBVIOUS
  <2>1. i + 1 = 1 /\ i \in Nat \ {0}
    BY <1>1, <1>2, <1>3
  <2> QED
    BY <2>1
<1> QED
  BY <1>4, <1>5

LEMMA TailKeepsNone ==
  ASSUME NEW S, NEW M, NEW q \in Seq(S), q # <<>>, Places(q, M) = {}
  PROVE  Places(Tail(q), M) = {} /\ Head(q) \notin M
  BY PlacesTail, Zenon

LEMMA OneOfNone ==
  ASSUME NEW S, NEW M, NEW q \in Seq(S), NEW e \in S, Places(q, M) = {}
  PROVE  AtMostOne(Places(Append(q, e), M))
<1>1. CASE e \in M
  <2>1. Places(Append(q, e), M) = {Len(q) + 1}
    BY <1>1, PlacesAppend
  <2> QED
    BY <2>1 DEF AtMostOne
<1>2. CASE e \notin M
  <2>1. Places(Append(q, e), M) = {}
    BY <1>2, OtherAppended
  <2> QED
    BY <2>1 DEF AtMostOne
<1> QED
  BY <1>1, <1>2

----------------------------------------------------------------------------
(* How the two queues move *)

Messages == Events \cup Results(Thens)

\* The stops a finalize waits for are not more than they were.
Keeps(c, q, c2, q2) ==
  /\ c2 \in Seq(Calls) /\ q2 \in Seq(Messages)
  /\ \A s \in Sessions \cup {0} :
       /\ OneStop(c, q, s) => OneStop(c2, q2, s)
       /\ NoStop(c, q, s) => NoStop(c2, q2, s)

LEMMA KeepsTransitive ==
  ASSUME NEW c, NEW q, NEW c2, NEW q2, NEW c3, NEW q3,
         Keeps(c, q, c2, q2), Keeps(c2, q2, c3, q3)
  PROVE  Keeps(c, q, c3, q3)
  BY Zenon DEF Keeps

LEMMA KeepsItself ==
  ASSUME NEW c \in Seq(Calls), NEW q \in Seq(Messages)
  PROVE  Keeps(c, q, c, q)
  BY Zenon DEF Keeps

\* An event is posted.
LEMMA PostKeeps ==
  ASSUME NEW c \in Seq(Calls), NEW q \in Seq(Messages), NEW e \in Events
  PROVE  Keeps(c, q, c, Append(q, e))
<1>1. Append(q, e) \in Seq(Messages) /\ e \in Messages
  BY DEF Messages
<1>2. \A s \in Sessions \cup {0} : e \notin Results(Finalizes(s))
  BY DEF Events, Results
<1>3. \A s \in Sessions \cup {0} : StopDone(Append(q, e), s) = StopDone(q, s)
  BY <1>1, <1>2, OtherAppended DEF StopDone
<1> QED
  BY <1>1, <1>3, Zenon DEF Keeps, OneStop, NoStop

\* A call is made that is no such stop.
LEMMA CallKeeps ==
  ASSUME NEW c \in Seq(Calls), NEW q \in Seq(Messages), NEW m \in Calls,
         \A s \in Sessions \cup {0} : m \notin Stops(Finalizes(s))
  PROVE  Keeps(c, q, Append(c, m), q)
<1>1. Append(c, m) \in Seq(Calls)
  OBVIOUS
<1>2. \A s \in Sessions \cup {0} : StopAsked(Append(c, m), s) = StopAsked(c, s)
  BY OtherAppended DEF StopAsked
<1> QED
  BY <1>1, <1>2, Zenon DEF Keeps, OneStop, NoStop

\* A message is handled, or the queue's head goes without a result.
LEMMA HandledKeeps ==
  ASSUME NEW c \in Seq(Calls), NEW q \in Seq(Messages), q # <<>>
  PROVE  Keeps(c, q, c, Tail(q))
<1>1. Tail(q) \in Seq(Messages)
  OBVIOUS
<1>2. ASSUME NEW s \in Sessions \cup {0}, OneStop(c, q, s)
      PROVE  OneStop(c, Tail(q), s)
  <2>1. AtMostOne(StopDone(Tail(q), s))
    BY <1>2, TailKeepsOne, Zenon DEF OneStop, StopDone
  <2>2. StopDone(q, s) = {} => StopDone(Tail(q), s) = {}
    BY TailKeepsNone, Zenon DEF StopDone
  <2> QED
    BY <1>2, <2>1, <2>2, Zenon DEF OneStop
<1>3. ASSUME NEW s \in Sessions \cup {0}, NoStop(c, q, s)
      PROVE  NoStop(c, Tail(q), s)
  BY <1>3, TailKeepsNone, Zenon DEF NoStop, StopDone
<1> QED
  BY <1>1, <1>2, <1>3, Zenon DEF Keeps

LEMMA ReturnKeeps ==
  ASSUME NEW c \in Seq(Calls), NEW q \in Seq(Messages), c # <<>>
  PROVE  Keeps(c, q, Tail(c), q)
<1>1. Tail(c) \in Seq(Calls)
  OBVIOUS
<1>2. ASSUME NEW s \in Sessions \cup {0}, OneStop(c, q, s)
      PROVE  OneStop(Tail(c), q, s)
  <2>1. AtMostOne(StopAsked(Tail(c), s))
    BY <1>2, TailKeepsOne, Zenon DEF OneStop, StopAsked
  <2>2. StopAsked(c, s) = {} => StopAsked(Tail(c), s) = {}
    BY TailKeepsNone, Zenon DEF StopAsked
  <2> QED
    BY <1>2, <2>1, <2>2, Zenon DEF OneStop
<1>3. ASSUME NEW s \in Sessions \cup {0}, NoStop(c, q, s)
      PROVE  NoStop(Tail(c), q, s)
  BY <1>3, TailKeepsNone, Zenon DEF NoStop, StopAsked
<1> QED
  BY <1>1, <1>2, <1>3, Zenon DEF Keeps

\* A call returns with its result: the stop moves from one queue to the other.
LEMMA ResultKeeps ==
  ASSUME NEW c \in Seq(Calls), NEW q \in Seq(Messages), c # <<>>, Head(c).op # "start",
         NEW r, r = [k |-> "result", then |-> Head(c).then]
  PROVE  /\ r \in Results(Thens)
         /\ Keeps(c, q, Tail(c), Append(q, r))
<1>1. PICK h \in Calls : h = Head(c)
  OBVIOUS
<1>2. h.op # "start" /\ r = [k |-> "result", then |-> h.then]
  BY <1>1
<1>3. r \in Results(Thens)
  BY <1>2 DEF Calls, Results, Stops, Answers, Thens
<1>4. \A s \in Sessions \cup {0} : r \in Results(Finalizes(s)) => h \in Stops(Finalizes(s))
  BY <1>2 DEF Calls, Results, Stops, Answers, Finalizes
<1>5. r \in Messages /\ Append(q, r) \in Seq(Messages) /\ Tail(c) \in Seq(Calls)
  BY <1>3 DEF Messages
<1>6. ASSUME NEW s \in Sessions \cup {0}, OneStop(c, q, s)
      PROVE  OneStop(Tail(c), Append(q, r), s)
  <2>1. AtMostOne(StopAsked(Tail(c), s))
    BY <1>6, TailKeepsOne, Zenon DEF OneStop, StopAsked
  <2>2. CASE r \in Results(Finalizes(s))
    <3>1. h \in Stops(Finalizes(s))
      BY <1>4, <2>2
    <3>2. StopAsked(Tail(c), s) = {}
      BY <1>1, <1>6, <3>1, TailKeepsOne, Zenon DEF OneStop, StopAsked
    <3>3. StopAsked(c, s) # {}
      BY <1>1, <3>1, PlacesTail, Zenon DEF StopAsked
    <3>4. StopDone(q, s) = {}
      BY <1>6, <3>3, Zenon DEF OneStop
    <3>5. AtMostOne(StopDone(Append(q, r), s))
      BY <1>5, <3>4, OneOfNone, Zenon DEF StopDone
    <3> QED
      BY <2>1, <3>2, <3>5, Zenon DEF OneStop
  <2>3. CASE r \notin Results(Finalizes(s))
    <3>1. StopDone(Append(q, r), s) = StopDone(q, s)
      BY <1>5, <2>3, OtherAppended DEF StopDone
    <3>2. StopAsked(c, s) = {} => StopAsked(Tail(c), s) = {}
      BY TailKeepsNone, Zenon DEF StopAsked
    <3> QED
      BY <1>6, <2>1, <3>1, <3>2, Zenon DEF OneStop
  <2> QED
    BY <2>2, <2>3
<1>7. ASSUME NEW s \in Sessions \cup {0}, NoStop(c, q, s)
      PROVE  NoStop(Tail(c), Append(q, r), s)
  <2>1. StopAsked(Tail(c), s) = {} /\ h \notin Stops(Finalizes(s))
    BY <1>1, <1>7, TailKeepsNone, Zenon DEF NoStop, StopAsked
  <2>2. StopDone(Append(q, r), s) = StopDone(q, s)
    BY <1>4, <1>5, <2>1, OtherAppended DEF StopDone
  <2> QED
    BY <1>7, <2>1, <2>2, Zenon DEF NoStop
<1> QED
  BY <1>3, <1>5, <1>6, <1>7, Zenon DEF Keeps

\* A session that waits for no stop asks for one.
LEMMA AskKeepsOne ==
  ASSUME NEW c \in Seq(Calls), NEW q \in Seq(Messages), NEW s \in Sessions, 0 \notin Sessions,
         NEW m \in Stops(Finalizes(s)), NoStop(c, q, s)
  PROVE  /\ Append(c, m) \in Seq(Calls)
         /\ OneStop(Append(c, m), q, s)
         /\ \A x \in Sessions \cup {0} : x # s =>
              /\ OneStop(c, q, x) => OneStop(Append(c, m), q, x)
              /\ NoStop(c, q, x) => NoStop(Append(c, m), q, x)
<1>1. m \in Calls
  BY DEF Calls, Stops, Finalizes, Thens
<1>2. Append(c, m) \in Seq(Calls)
  BY <1>1
<1>3. OneStop(Append(c, m), q, s)
  <2>1. AtMostOne(StopAsked(Append(c, m), s))
    BY <1>1, OneOfNone, Zenon DEF NoStop, StopAsked
  <2>2. StopDone(q, s) = {} /\ AtMostOne(StopDone(q, s))
    BY Zenon DEF NoStop, AtMostOne
  <2> QED
    BY <2>1, <2>2, Zenon DEF OneStop
<1>4. \A x \in Sessions \cup {0} : x # s => m \notin Stops(Finalizes(x))
  BY DEF Stops, Finalizes
<1>5. \A x \in Sessions \cup {0} : x # s => StopAsked(Append(c, m), x) = StopAsked(c, x)
  BY <1>1, <1>4, OtherAppended DEF StopAsked
<1> QED
  BY <1>2, <1>3, <1>5, Zenon DEF OneStop, NoStop

\* Two events at most, or an event and a result, are posted at once.
LEMMA PostedOneByOne ==
  ASSUME NEW S, NEW q \in Seq(S), NEW a \in S, NEW b \in S
  PROVE  /\ q \o <<>> = q
         /\ q \o <<a>> = Append(q, a)
         /\ q \o <<a, b>> = Append(Append(q, a), b)
  OBVIOUS

----------------------------------------------------------------------------
(* What the helpers return *)

LEMMA SessionsAbove == 0 \notin Sessions /\ \A s \in Sessions : s \in Nat \ {0}
<1>1. PICK n : n = Cardinality(Sessions)
  OBVIOUS
<1>2. Sessions = 1..n
  BY <1>1, ReaderAssumption
<1>3. \A s \in 1..n : s \in Nat \ {0}
  OBVIOUS
<1> QED
  BY <1>2, <1>3

LEMMA InBaht == (\A v \in Bills : v \in Nat \ {0}) /\ (\A v \in Targets : v \in Nat \ {0})
<1>1. Bills \subseteq Nat \ {0} /\ Targets \subseteq Nat \ {0}
  BY ReaderAssumption, Zenon
<1> QED
  BY <1>1

LEMMA DeviceTyped ==
  ASSUME NEW a \in Acceptors
  PROVE  /\ Accept(a) \in Acceptors /\ Decline(a) \in Acceptors /\ Hold(a) \in Acceptors
         /\ Emptied(a) \in Acceptors /\ Enable(a) \in Acceptors /\ Disable(a) \in Acceptors
<1>1. Accept(a) \in Acceptors
  BY DEF Acceptors, Accept
<1>2. Decline(a) \in Acceptors
  BY DEF Acceptors, Decline
<1>3. Hold(a) \in Acceptors
  BY DEF Acceptors, Hold
<1>4. Emptied(a) \in Acceptors
  BY DEF Acceptors, Emptied
<1>5. Enable(a) \in Acceptors /\ Disable(a) \in Acceptors
  BY DEF Acceptors, Enable, Disable
<1> QED
  BY <1>1, <1>2, <1>3, <1>4, <1>5

LEMMA CountTyped ==
  ASSUME NEW g \in Counts, NEW v
  PROVE  Plus(g, v) \in Counts /\ Minus(g, v) \in Counts
<1>1. CASE v \in Bills
  BY <1>1 DEF Counts, Plus, Minus
<1>2. CASE v \notin Bills
  BY <1>2 DEF Counts, Plus, Minus
<1> QED
  BY <1>1, <1>2

LEMMA OneMoreTyped ==
  ASSUME NEW f \in [Sessions -> Counts], NEW s, NEW v
  PROVE  OneMore(f, s, v) \in [Sessions -> Counts]
<1>1. \A x \in Sessions : Plus(f[x], v) \in Counts
  BY CountTyped
<1> QED
  BY <1>1 DEF OneMore

LEMMA NoBillsTyped == NoBills \in Counts
  BY DEF NoBills, Counts

LEMMA Blamed ==
  ASSUME NEW m \in [Sessions -> SUBSET Mishaps], NEW s, NEW what \in Mishaps
  PROVE  [m EXCEPT ![s] = @ \cup {what}] \in [Sessions -> SUBSET Mishaps]
  OBVIOUS

LEMMA BlameTyped ==
  ASSUME mishap \in [Sessions -> SUBSET Mishaps], NEW s, NEW what \in Mishaps
  PROVE  Blame(s, what) \in [Sessions -> SUBSET Mishaps]
  BY Blamed DEF Blame

LEMMA EventTyped ==
  ASSUME NEW k \in {"escrowPending", "accepted", "overpayPending", "stacked", "returned",
                    "collectComplete", "collecting"},
         NEW amount \in Bills \cup {0}, NEW total \in Nat, NEW inFlight \in BOOLEAN
  PROVE  Event(k, amount, total, inFlight) \in Events
  BY DEF Event, Events

LEMMA CollectedTyped ==
  ASSUME reader \in Readers
  PROVE  /\ reader.collected \in Nat /\ reader.escrow \in Nat
         /\ reader.collected + reader.escrow \in Nat
<1>1. reader.collected \in Nat /\ reader.escrow \in Bills \cup {0}
  BY DEF Readers
<1>2. PICK e : e = reader.escrow
  OBVIOUS
<1>3. e \in Nat
  <2>1. CASE e \in Bills
    BY <2>1, InBaht
  <2>2. CASE e = 0
    BY <2>2
  <2> QED
    BY <1>1, <1>2, <2>1, <2>2
<1> QED
  BY <1>1, <1>2, <1>3

LEMMA CreditedTyped ==
  ASSUME reader \in Readers
  PROVE  InFlightCredit \in Readers
<1>1. CASE waiting = "stack" /\ reader.accepted /\ reader.escrow # 0
  <2>1. reader.collected + reader.escrow \in Nat
    BY CollectedTyped
  <2>2. PICK n \in Nat : n = reader.collected + reader.escrow
    BY <2>1
  <2>3. InFlightCredit = [reader EXCEPT !.collected = n, !.escrow = 0, !.accepted = FALSE]
    BY <1>1, <2>2 DEF InFlightCredit
  <2> QED
    BY <2>3 DEF Readers
<1>2. CASE ~(waiting = "stack" /\ reader.accepted /\ reader.escrow # 0)
  BY <1>2 DEF InFlightCredit
<1> QED
  BY <1>1, <1>2

----------------------------------------------------------------------------
(* The reader, its device and its threads *)

\* Types of what the script does not hold.
Hardwired ==
  /\ reader \in Readers /\ acceptor \in Acceptors
  /\ waiting \in {"no", "stack", "return"} /\ settled \in BOOLEAN
  /\ waiting # "no" => calls # <<>> /\ Head(calls).op = "stop"
  /\ cash \in [Sessions -> Counts] /\ taken \in [Sessions -> Counts]
  /\ inserted \in 0..MaxBills /\ faults \in 0..MaxFaults
  /\ mishap \in [Sessions -> SUBSET Mishaps]
  /\ wire \in Seq(Bytes) /\ turn \in Turns
  /\ calls \in Seq(Calls) /\ queue \in Seq(Messages)

\* What a step of the hardware must show.
Moved == Hardwired' /\ Keeps(calls, queue, calls', queue')

LEMMA IsHardwired == IInv => Hardwired
  BY DEF IInv, TypeOK, MessagesOK, Hardwired, Messages

LEMMA FaultsStay ==
  ASSUME faults \in 0..MaxFaults, faults' = faults \/ (faults < MaxFaults /\ faults' = faults + 1)
  PROVE  faults' \in 0..MaxFaults
<1>1. MaxFaults \in Nat
  BY ReaderAssumption
<1> QED
  BY <1>1

LEMMA InsertMoves ==
  ASSUME Hardwired, NEW v \in Bills, InsertBill(v)
  PROVE  Moved
<1>1. acceptor' \in Acceptors
  BY DEF Hardwired, InsertBill, Acceptors
<1>2. [b |-> "bill", v |-> v] \in Bytes
  BY DEF Bytes
<1>3. wire' \in Seq(Bytes)
  BY <1>2 DEF Hardwired, InsertBill
<1>4. inserted' \in 0..MaxBills
  BY ReaderAssumption DEF Hardwired, InsertBill
<1>5. UNCHANGED <<reader, turn, calls, waiting, settled, queue, cash, taken, faults, mishap>>
  BY DEF InsertBill, plugin
<1>6. Keeps(calls, queue, calls', queue')
  BY <1>5, KeepsItself DEF Hardwired
<1> QED
  BY <1>1, <1>3, <1>4, <1>5, <1>6 DEF Hardwired, Moved

LEMMA StackMoves ==
  ASSUME Hardwired, StackBill
  PROVE  Moved
<1>1. acceptor' \in Acceptors
  BY DeviceTyped DEF Hardwired, StackBill
<1>2. [b |-> "stacked"] \in Bytes
  BY DEF Bytes
<1>3. wire' \in Seq(Bytes)
  BY <1>2 DEF Hardwired, StackBill
<1>4. cash' \in [Sessions -> Counts]
  BY OneMoreTyped DEF Hardwired, StackBill
<1>5. UNCHANGED <<reader, turn, calls, waiting, settled, queue, taken, inserted, faults, mishap>>
  BY DEF StackBill, plugin
<1>6. Keeps(calls, queue, calls', queue')
  BY <1>5, KeepsItself DEF Hardwired
<1> QED
  BY <1>1, <1>3, <1>4, <1>5, <1>6 DEF Hardwired, Moved

LEMMA GiveBackMoves ==
  ASSUME Hardwired, GiveBack
  PROVE  Moved
<1>1. acceptor' \in Acceptors
  BY DeviceTyped DEF Hardwired, GiveBack
<1>2. [b |-> "returned"] \in Bytes
  BY DEF Bytes
<1>3. wire' \in Seq(Bytes)
  BY <1>2 DEF Hardwired, GiveBack
<1>4. faults' \in 0..MaxFaults
  BY FaultsStay DEF Hardwired, GiveBack
<1>5. UNCHANGED <<reader, turn, calls, waiting, settled, queue, cash, taken, inserted, mishap>>
  BY DEF GiveBack, plugin
<1>6. Keeps(calls, queue, calls', queue')
  BY <1>5, KeepsItself DEF Hardwired
<1> QED
  BY <1>1, <1>3, <1>4, <1>5, <1>6 DEF Hardwired, Moved

\* A byte leaves the wire.
LEMMA ByteRead ==
  ASSUME Hardwired, NEW b, Byte(b)
  PROVE  /\ wire' \in Seq(Bytes)
         /\ b = "bill" => Head(wire).v \in Bills
<1>1. wire \in Seq(Bytes) /\ wire # <<>> /\ wire' = Tail(wire) /\ Head(wire).b = b
  BY DEF Hardwired, Byte
<1>2. PICK h \in Bytes : h = Head(wire)
  BY <1>1
<1>3. h.b = "bill" => h.v \in Bills
  BY DEF Bytes
<1> QED
  BY <1>1, <1>2, <1>3

LEMMA ReadBillMoves ==
  ASSUME Hardwired, ReadBill
  PROVE  Moved
<1>1. wire' \in Seq(Bytes) /\ Head(wire).v \in Bills
  BY ByteRead DEF ReadBill
<1>2. acceptor' \in Acceptors
  BY DeviceTyped DEF Hardwired, ReadBill
<1>3. turn' \in Turns
  <2>1. \A x \in Bills : [at |-> "decide", bill |-> x] \in Turns
    BY DEF Turns
  <2> QED
    BY <1>1, <2>1 DEF Hardwired, ReadBill
<1>4. UNCHANGED <<reader, calls, waiting, settled, cash, taken, inserted, faults, mishap>>
  BY DEF ReadBill, plugin, history
<1>5. PICK e \in Events : e = Event("escrowPending", 0, 0, FALSE)
  BY EventTyped
<1>6. queue' = Append(queue, e)
  <2>1. queue' = queue \o <<e>> /\ queue \in Seq(Messages) /\ e \in Messages
    BY <1>5 DEF ReadBill, Post, Hardwired, Messages
  <2> QED
    BY <2>1, PostedOneByOne
<1>7. Keeps(calls, queue, calls', queue')
  BY <1>4, <1>6, PostKeeps DEF Hardwired
<1>8. queue' \in Seq(Messages) /\ calls' \in Seq(Calls)
  BY <1>7 DEF Keeps
<1> QED
  BY <1>1, <1>2, <1>3, <1>4, <1>7, <1>8 DEF Hardwired, Moved

LEMMA DecideBillMoves ==
  ASSUME Hardwired, DecideBill
  PROVE  Moved
<1>1. PICK v : v = turn.bill
  OBVIOUS
<1>2. v \in Bills
  <2>1. turn.at = "decide" /\ turn \in Turns
    BY DEF DecideBill, Hardwired
  <2> QED
    BY <1>1, <2>1 DEF Turns, Idle
<1>3. PICK w : w = Verdict(v)
  OBVIOUS
<1>4. w \in {"decline", "hold", "accept"}
  BY <1>3 DEF Verdict
<1>5. reader' = [reader EXCEPT !.escrow = v, !.accepted = (w = "accept")]
  BY <1>1, <1>3 DEF DecideBill
<1>6. reader' \in Readers
  BY <1>2, <1>5 DEF Hardwired, Readers
<1>7. acceptor' \in {Decline(acceptor), Hold(acceptor), Accept(acceptor)}
  BY <1>1, <1>3, <1>4 DEF DecideBill
<1>8. acceptor' \in Acceptors
  BY <1>7, DeviceTyped DEF Hardwired
<1>9. taken' \in [Sessions -> Counts]
  BY <1>1, OneMoreTyped DEF Hardwired, DecideBill
<1>10. mishap' \in [Sessions -> SUBSET Mishaps]
  <2>1. "late decision" \in Mishaps
    BY DEF Mishaps
  <2> QED
    BY <2>1, BlameTyped DEF Hardwired, DecideBill
<1>11. turn' \in Turns
  BY DEF DecideBill, Turns
<1>12. UNCHANGED <<wire, calls, waiting, settled, cash, inserted, faults>>
  BY DEF DecideBill, plugin
<1>13. Keeps(calls, queue, calls', queue')
  <2>1. reader.collected \in Nat
    BY DEF Hardwired, Readers
  <2>2. PICK e \in Events : e = Event("overpayPending", v, reader.collected, FALSE)
    BY <1>2, <2>1, EventTyped
  <2>3. PICK f \in Events : f = Event("accepted", v, reader.collected, FALSE)
    BY <1>2, <2>1, EventTyped
  <2>4. queue' \in {queue \o <<>>, queue \o <<e>>, queue \o <<f>>}
    BY <1>1, <1>3, <1>4, <2>2, <2>3 DEF DecideBill, Post
  <2>5. queue' \in {queue, Append(queue, e), Append(queue, f)}
    BY <2>4 DEF Hardwired
  <2>6. calls' = calls /\ calls \in Seq(Calls) /\ queue \in Seq(Messages)
    BY <1>12 DEF Hardwired
  <2>7. /\ Keeps(calls, queue, calls, queue)
        /\ Keeps(calls, queue, calls, Append(queue, e))
        /\ Keeps(calls, queue, calls, Append(queue, f))
    BY <2>6, KeepsItself, PostKeeps
  <2> QED
    BY <2>5, <2>6, <2>7
<1>14. queue' \in Seq(Messages) /\ calls' \in Seq(Calls)
  BY <1>13 DEF Keeps
<1> QED
  BY <1>6, <1>8, <1>9, <1>10, <1>11, <1>12, <1>13, <1>14 DEF Hardwired, Moved

\* 0x10 and 0x11 up to the signal.
LEMMA SettleMoves ==
  ASSUME Hardwired, NEW type \in {"stacked", "returned"}, NEW total \in Nat,
         Byte(type), Settle(type, total)
  PROVE  Moved
<1>1. wire' \in Seq(Bytes)
  BY ByteRead
<1>2. reader' \in Readers
  BY DEF Hardwired, Settle, Readers
<1>3. turn' \in Turns
  <2>1. reader.escrow \in Bills \cup {0} /\ acceptor.now \in Sessions \cup {0}
    BY DEF Hardwired, Readers, Acceptors
  <2>2. PICK e \in Events : e = Event(type, reader.escrow, total, FALSE)
    BY <2>1, EventTyped
  <2>3. PICK c \in BOOLEAN :
          c = (type = "stacked" /\ reader.collecting /\ total >= reader.target)
    BY DEF Hardwired, Readers
  <2>4. turn' = [at |-> "emit", s |-> acceptor.now, event |-> e, complete |-> c]
    BY <2>2, <2>3 DEF Settle, Outcome
  <2> QED
    BY <2>1, <2>4 DEF Turns
<1>4. settled' \in BOOLEAN
  BY DEF Settle
<1>5. UNCHANGED <<acceptor, calls, waiting, queue, cash, taken, inserted, faults, mishap>>
  BY DEF Settle, plugin, history
<1>6. Keeps(calls, queue, calls', queue')
  BY <1>5, KeepsItself DEF Hardwired
<1> QED
  BY <1>1, <1>2, <1>3, <1>4, <1>5, <1>6 DEF Hardwired, Moved

LEMMA ReadOutcomeMoves ==
  ASSUME Hardwired, ReadStacked \/ ReadReturned
  PROVE  Moved
<1>1. reader.collected \in Nat /\ reader.collected + reader.escrow \in Nat
  BY CollectedTyped DEF Hardwired
<1>2. CASE ReadStacked
  BY <1>1, <1>2, SettleMoves DEF ReadStacked
<1>3. CASE ReadReturned
  BY <1>1, <1>3, SettleMoves DEF ReadReturned
<1> QED
  BY <1>2, <1>3

LEMMA EmitMoves ==
  ASSUME Hardwired, EmitOutcome
  PROVE  Moved
<1>1. turn.event \in Events /\ turn.event.total \in Nat
  <2>1. turn.at = "emit" /\ turn \in Turns
    BY DEF EmitOutcome, Hardwired
  <2>2. turn.event \in Events
    BY <2>1 DEF Turns, Idle
  <2> QED
    BY <2>2 DEF Events
<1>2. PICK e \in Events : e = turn.event
  BY <1>1
<1>3. PICK f \in Events : f = Event("collectComplete", 0, turn.event.total, FALSE)
  BY <1>1, EventTyped
<1>4. queue' \in {queue \o <<e>>, queue \o <<e, f>>}
  BY <1>2, <1>3 DEF EmitOutcome, Post
<1>5. queue \in Seq(Messages) /\ calls \in Seq(Calls) /\ e \in Messages /\ f \in Messages
  BY DEF Hardwired, Messages
<1>6. queue' \in {Append(queue, e), Append(Append(queue, e), f)}
  BY <1>4, <1>5, PostedOneByOne
<1>7. UNCHANGED <<wire, calls, waiting, settled, cash, taken, inserted, faults>>
  BY DEF EmitOutcome, plugin
<1>8. Keeps(calls, queue, calls', queue')
  <2>1. Keeps(calls, queue, calls, Append(queue, e)) /\ Append(queue, e) \in Seq(Messages)
    BY <1>5, PostKeeps
  <2>2. Keeps(calls, Append(queue, e), calls, Append(Append(queue, e), f))
    BY <1>5, <2>1, PostKeeps
  <2>3. Keeps(calls, queue, calls, Append(Append(queue, e), f))
    BY <2>1, <2>2, KeepsTransitive
  <2> QED
    BY <1>6, <1>7, <2>1, <2>3
<1>9. reader' \in Readers
  BY DEF Hardwired, Readers, EmitOutcome
<1>10. acceptor' \in Acceptors
  BY DeviceTyped DEF Hardwired, EmitOutcome
<1>11. mishap' \in [Sessions -> SUBSET Mishaps]
  <2>1. "strayed" \in Mishaps
    BY DEF Mishaps
  <2> QED
    BY <2>1, BlameTyped DEF Hardwired, EmitOutcome
<1>12. turn' \in Turns
  BY DEF EmitOutcome, Turns
<1>13. queue' \in Seq(Messages) /\ calls' \in Seq(Calls)
  BY <1>8 DEF Keeps
<1> QED
  BY <1>7, <1>8, <1>9, <1>10, <1>11, <1>12, <1>13 DEF Hardwired, Moved

----------------------------------------------------------------------------
(* The plug-in's thread *)

LEMMA OvertakenTyped ==
  ASSUME Hardwired, BlameIfOvertaken
  PROVE  mishap' \in [Sessions -> SUBSET Mishaps]
<1>1. "overtaken" \in Mishaps
  BY DEF Mishaps
<1> QED
  BY <1>1, BlameTyped DEF Hardwired, BlameIfOvertaken

\* The head of the calls returns with its result, after an event or without.
LEMMA ResultPosted ==
  ASSUME Hardwired, calls # <<>>, Head(calls).op # "start", Returns,
         \/ Post(<<Result>>)
         \/ \E e \in Events : Post(<<e, Result>>)
  PROVE  /\ Keeps(calls, queue, calls', queue')
         /\ calls' \in Seq(Calls) /\ queue' \in Seq(Messages)
<1>1. calls \in Seq(Calls) /\ queue \in Seq(Messages) /\ calls' = Tail(calls)
  BY DEF Hardwired, Returns
<1>2. PICK r : r = Result
  OBVIOUS
<1>3. r = [k |-> "result", then |-> Head(calls).then]
  BY <1>2 DEF Result
<1>4. r \in Results(Thens)
  BY <1>1, <1>3, ResultKeeps
<1>5. r \in Messages
  BY <1>4 DEF Messages
<1>6. CASE Post(<<Result>>)
  <2>1. queue' = Append(queue, r)
    BY <1>1, <1>2, <1>5, <1>6, PostedOneByOne DEF Post
  <2>2. Keeps(calls, queue, Tail(calls), Append(queue, r))
    BY <1>1, <1>3, ResultKeeps
  <2> QED
    BY <1>1, <2>1, <2>2 DEF Keeps
<1>7. ASSUME NEW e \in Events, Post(<<e, Result>>)
      PROVE  Keeps(calls, queue, calls', queue')
  <2>1. e \in Messages
    BY DEF Messages
  <2>2. queue' = Append(Append(queue, e), r)
    BY <1>1, <1>2, <1>5, <1>7, <2>1, PostedOneByOne DEF Post
  <2>3. Keeps(calls, queue, calls, Append(queue, e)) /\ Append(queue, e) \in Seq(Messages)
    BY <1>1, <2>1, PostKeeps
  <2>4. Keeps(calls, Append(queue, e), Tail(calls), Append(Append(queue, e), r))
    BY <1>1, <1>3, <2>3, ResultKeeps
  <2> QED
    BY <1>1, <2>2, <2>3, <2>4, KeepsTransitive
<1>8. Keeps(calls, queue, calls', queue')
  BY <1>6, <1>7
<1> QED
  BY <1>8 DEF Keeps

LEMMA StartMoves ==
  ASSUME Hardwired, StartCollecting
  PROVE  Moved
<1>1. calls \in Seq(Calls) /\ queue \in Seq(Messages) /\ calls # <<>>
  BY DEF Hardwired, StartCollecting, Runs
<1>2. PICK h \in Calls : h = Head(calls)
  BY <1>1
<1>3. h.target \in Targets /\ h.s \in Sessions
  <2>1. h.op = "start"
    BY <1>2 DEF StartCollecting, Runs
  <2> QED
    BY <2>1 DEF Calls, Stops
<1>4. reader' \in Readers
  <2>1. reader' = [Reset EXCEPT !.collecting = TRUE, !.target = h.target]
    BY <1>2 DEF StartCollecting
  <2> QED
    BY <1>3, <2>1 DEF Readers, Reset
<1>5. acceptor' \in Acceptors
  <2>1. PICK a \in Acceptors : a = Enable(acceptor)
    BY DeviceTyped DEF Hardwired
  <2>2. acceptor' = [a EXCEPT !.now = h.s]
    BY <1>2, <2>1 DEF StartCollecting
  <2> QED
    BY <1>3, <2>2 DEF Acceptors
<1>6. PICK e \in Events : e = Event("collecting", 0, 0, FALSE)
  BY EventTyped
<1>7. queue' = Append(queue, e)
  <2>1. queue' = queue \o <<e>> /\ e \in Messages
    BY <1>6 DEF StartCollecting, Post, Messages
  <2> QED
    BY <1>1, <2>1, PostedOneByOne
<1>8. calls' = Tail(calls) /\ waiting' = "no"
  BY DEF StartCollecting, Returns
<1>9. Keeps(calls, queue, calls', queue')
  <2>1. Keeps(calls, queue, calls, Append(queue, e))
    BY <1>1, PostKeeps
  <2> Append(queue, e) \in Seq(Messages)
    BY <2>1 DEF Keeps
  <2>2. Keeps(calls, Append(queue, e), Tail(calls), Append(queue, e))
    BY <1>1, <2>1, ReturnKeeps
  <2> QED
    BY <1>7, <1>8, <2>1, <2>2, KeepsTransitive
<1>10. calls' \in Seq(Calls) /\ queue' \in Seq(Messages)
  BY <1>9 DEF Keeps
<1>11. UNCHANGED <<turn, wire, settled, cash, taken, inserted, faults, mishap>>
  BY DEF StartCollecting, history
<1> QED
  BY <1>4, <1>5, <1>8, <1>9, <1>10, <1>11 DEF Hardwired, Moved

LEMMA StopMoves ==
  ASSUME Hardwired, StopCollecting
  PROVE  Moved
<1>1. calls # <<>> /\ Head(calls).op = "stop"
  BY DEF StopCollecting, Runs
<1>2. UNCHANGED <<turn, wire, cash, taken, inserted, faults>>
  BY DEF StopCollecting
<1>3. CASE reader.escrow # 0
  <2>1. reader' \in Readers
    BY <1>3 DEF StopCollecting, Hardwired, Readers
  <2>2. acceptor' \in Acceptors
    BY <1>3, DeviceTyped DEF StopCollecting, Hardwired
  <2>3. waiting' \in {"stack", "return"} /\ settled' \in BOOLEAN
    BY <1>3 DEF StopCollecting
  <2>4. UNCHANGED <<calls, queue, mishap>>
    BY <1>3 DEF StopCollecting
  <2>5. Keeps(calls, queue, calls', queue')
    BY <2>4, KeepsItself DEF Hardwired
  <2> QED
    BY <1>1, <1>2, <2>1, <2>2, <2>3, <2>4, <2>5 DEF Hardwired, Moved
<1>4. CASE reader.escrow = 0
  <2>1. reader' \in Readers
    BY <1>4 DEF StopCollecting, Hardwired, Readers
  <2>2. acceptor' \in Acceptors
    BY <1>4, DeviceTyped DEF StopCollecting, Hardwired
  <2>3. Post(<<Result>>) /\ Returns /\ BlameIfOvertaken /\ settled' = settled
    BY <1>4 DEF StopCollecting
  <2>4. /\ Keeps(calls, queue, calls', queue')
        /\ calls' \in Seq(Calls) /\ queue' \in Seq(Messages)
    BY <1>1, <2>3, ResultPosted
  <2>5. mishap' \in [Sessions -> SUBSET Mishaps]
    BY <2>3, OvertakenTyped
  <2>6. waiting' = "no"
    BY <2>3 DEF Returns
  <2> QED
    BY <1>2, <2>1, <2>2, <2>3, <2>4, <2>5, <2>6 DEF Hardwired, Moved
<1> QED
  BY <1>3, <1>4

LEMMA SettledMoves ==
  ASSUME Hardwired, StopSettled
  PROVE  Moved
<1>1. calls # <<>> /\ Head(calls).op = "stop"
  BY DEF Hardwired, StopSettled
<1>2. Post(<<Result>>) /\ Returns /\ BlameIfOvertaken
  BY DEF StopSettled
<1>3. /\ Keeps(calls, queue, calls', queue')
      /\ calls' \in Seq(Calls) /\ queue' \in Seq(Messages)
  BY <1>1, <1>2, ResultPosted
<1>4. mishap' \in [Sessions -> SUBSET Mishaps]
  BY <1>2, OvertakenTyped
<1>5. waiting' = "no"
  BY <1>2 DEF Returns
<1>6. acceptor' \in Acceptors
  BY DeviceTyped DEF StopSettled, Hardwired
<1>7. UNCHANGED <<reader, turn, wire, settled, cash, taken, inserted, faults>>
  BY DEF StopSettled
<1> QED
  BY <1>3, <1>4, <1>5, <1>6, <1>7 DEF Hardwired, Moved

LEMMA TimesOutMoves ==
  ASSUME Hardwired, StopTimesOut
  PROVE  Moved
<1>1. calls # <<>> /\ Head(calls).op = "stop"
  BY DEF Hardwired, StopTimesOut
<1>2. reader' \in Readers
  BY CreditedTyped DEF StopTimesOut, Hardwired
<1>3. acceptor' \in Acceptors
  BY DeviceTyped DEF StopTimesOut, Hardwired
<1>4. Returns /\ settled' = TRUE /\ waiting' = "no"
  BY DEF StopTimesOut, Returns
<1>5. Post(<<Result>>) \/ \E e \in Events : Post(<<e, Result>>)
  <2>1. reader'.collected \in Nat
    BY <1>2 DEF Readers
  <2>2. reader.escrow \in Bills \cup {0}
    BY DEF Hardwired, Readers
  <2>3. PICK n \in Nat : n = reader'.collected
    BY <2>1
  <2>4. PICK e \in Events : e = Event("stacked", reader.escrow, n, TRUE)
    BY <2>2, EventTyped
  <2>5. CASE InFlightCredit = reader
    BY <2>5 DEF StopTimesOut
  <2>6. CASE InFlightCredit # reader
    BY <2>3, <2>4, <2>6 DEF StopTimesOut
  <2> QED
    BY <2>5, <2>6
<1>6. /\ Keeps(calls, queue, calls', queue')
      /\ calls' \in Seq(Calls) /\ queue' \in Seq(Messages)
  BY <1>1, <1>4, <1>5, ResultPosted
<1>7. mishap' \in [Sessions -> SUBSET Mishaps]
  <2>1. "no answer" \in Mishaps
    BY DEF Mishaps
  <2> QED
    BY <2>1, BlameTyped DEF Hardwired, StopTimesOut
<1>8. faults' \in 0..MaxFaults
  BY FaultsStay DEF Hardwired, StopTimesOut
<1>9. UNCHANGED <<turn, wire, cash, taken, inserted>>
  BY DEF StopTimesOut
<1> QED
  BY <1>2, <1>3, <1>4, <1>6, <1>7, <1>8, <1>9 DEF Hardwired, Moved

LEMMA AcceptMoves ==
  ASSUME Hardwired, AcceptBill
  PROVE  Moved
<1>1. calls # <<>> /\ Head(calls).op = "accept"
  BY DEF AcceptBill, Runs
<1>2. Post(<<Result>>) /\ Returns
  BY DEF AcceptBill
<1>3. /\ Keeps(calls, queue, calls', queue')
      /\ calls' \in Seq(Calls) /\ queue' \in Seq(Messages)
  BY <1>1, <1>2, ResultPosted
<1>4. waiting' = "no"
  BY <1>2 DEF Returns
<1>5. reader' \in Readers
  BY DEF AcceptBill, Hardwired, Readers
<1>6. acceptor' \in Acceptors
  BY DeviceTyped DEF AcceptBill, Hardwired
<1>7. taken' \in [Sessions -> Counts]
  <2>1. taken' \in {taken, OneMore(taken, acceptor.now, reader.escrow)}
    BY DEF AcceptBill
  <2> QED
    BY <2>1, OneMoreTyped DEF Hardwired
<1>8. mishap' \in [Sessions -> SUBSET Mishaps]
  <2>1. "late decision" \in Mishaps
    BY DEF Mishaps
  <2> QED
    BY <2>1, BlameTyped DEF Hardwired, AcceptBill
<1>9. UNCHANGED <<turn, wire, settled, cash, inserted, faults>>
  BY DEF AcceptBill
<1> QED
  BY <1>3, <1>4, <1>5, <1>6, <1>7, <1>8, <1>9 DEF Hardwired, Moved

LEMMA ReturnMoves ==
  ASSUME Hardwired, ReturnBill
  PROVE  Moved
<1>1. calls # <<>> /\ Head(calls).op = "return"
  BY DEF ReturnBill, Runs
<1>2. Post(<<Result>>) /\ Returns
  BY DEF ReturnBill
<1>3. /\ Keeps(calls, queue, calls', queue')
      /\ calls' \in Seq(Calls) /\ queue' \in Seq(Messages)
  BY <1>1, <1>2, ResultPosted
<1>4. waiting' = "no"
  BY <1>2 DEF Returns
<1>5. reader' \in Readers
  BY DEF ReturnBill, Hardwired, Readers
<1>6. acceptor' \in Acceptors
  BY DeviceTyped DEF ReturnBill, Hardwired
<1>7. UNCHANGED <<turn, wire, settled, cash, taken, inserted, faults, mishap>>
  BY DEF ReturnBill, history
<1> QED
  BY <1>3, <1>4, <1>5, <1>6, <1>7 DEF Hardwired, Moved

\* A step of the hardware leaves the script and the server alone.
LEMMA HardwareKeepsIInv ==
  ASSUME IInv, Hardware
  PROVE  IInv'
<1>1. Hardwired
  BY IsHardwired
<1>2. Moved
  BY <1>1, InsertMoves, StackMoves, GiveBackMoves, ReadBillMoves, DecideBillMoves,
     ReadOutcomeMoves, EmitMoves, StartMoves, StopMoves, SettledMoves, TimesOutMoves,
     AcceptMoves, ReturnMoves, Zenon
     DEF Hardware, ReaderThread, PluginThread, Device
<1>3. UNCHANGED <<js, work, credit, pending, retry, oos, box, ticket>>
  BY DEF Hardware, script
<1>4. TypeOK' /\ MessagesOK'
  BY <1>2, <1>3 DEF IInv, TypeOK, MessagesOK, Moved, Hardwired, Messages
<1>5. ScreenAgrees'
  BY <1>3 DEF IInv, ScreenAgrees
<1>6. RefsAgree'
  BY <1>3 DEF IInv, RefsAgree
<1>7. StopsOnce'
  BY <1>2, <1>3, Zenon DEF IInv, StopsOnce, Moved, Keeps
<1> QED
  BY <1>4, <1>5, <1>6, <1>7 DEF IInv

----------------------------------------------------------------------------
(* The script: helpers *)

\* Types of what the script and the server hold.
Scripted ==
  /\ js \in Screens /\ work \in [Sessions -> Works] /\ credit \in [Sessions -> Nat]
  /\ \A s \in Sessions : work[s] = "calling" => credit[s] > 0
  /\ pending \in Slot /\ retry \in Slot /\ oos \in BOOLEAN
  /\ box \in Boxes /\ ticket \in [Sessions -> Nat]

LEMMA IsScripted ==
  IInv => Hardwired /\ Scripted /\ ScreenAgrees /\ StopsOnce /\ RefsAgree
  BY IsHardwired DEF IInv, TypeOK, Scripted

LEMMA Assembled ==
  ASSUME Hardwired', Scripted', ScreenAgrees', StopsOnce', RefsAgree'
  PROVE  IInv'
  BY DEF IInv, TypeOK, MessagesOK, Hardwired, Scripted, Messages

\* The call being run stays at the head.
Follows(c, c2) == c # <<>> => c2 # <<>> /\ Head(c2) = Head(c)

LEMMA FollowsTransitive ==
  ASSUME NEW c, NEW c2, NEW c3, Follows(c, c2), Follows(c2, c3)
  PROVE  Follows(c, c3)
  BY DEF Follows

LEMMA FollowsItself ==
  ASSUME NEW c PROVE Follows(c, c)
  BY DEF Follows

LEMMA AppendFollows ==
  ASSUME NEW c \in Seq(Calls), NEW m \in Calls
  PROVE  Follows(c, Append(c, m))
  BY DEF Follows

LEMMA StillHardwired ==
  ASSUME Hardwired, UNCHANGED <<reader, turn, device, waiting, settled, cash, taken, inserted>>,
         faults' \in 0..MaxFaults, mishap' \in [Sessions -> SUBSET Mishaps],
         calls' \in Seq(Calls), queue' \in Seq(Messages), Follows(calls, calls')
  PROVE  Hardwired'
  BY DEF Hardwired, Follows, device

\* A session asks for no new stop and none is over that was not.
LEMMA StopsKept ==
  ASSUME StopsOnce, Keeps(calls, queue, calls', queue'),
         \A s \in Sessions : work'[s] # "stopping" => work[s] # "stopping"
  PROVE  StopsOnce'
  BY Zenon DEF StopsOnce, Keeps

Early == {"none", "stopping"}

\* The slots are emptied, or one is copied into the other.
LEMMA RefsKept ==
  ASSUME RefsAgree, Scripted, UNCHANGED <<ticket, credit>>,
         \A s \in Sessions : work'[s] \in Early => work[s] \in Early,
         pending' \in {pending, None}, retry' \in {retry, pending, None}
  PROVE  RefsAgree'
<1>1. \A s \in Sessions : None.ref # s
  BY SessionsAbove DEF None
<1>2. ASSUME NEW s \in Sessions, work'[s] \in Early
      PROVE  ticket'[s] = 0 /\ pending'.ref # s /\ retry'.ref # s
  <2>1. ticket[s] = 0 /\ pending.ref # s /\ retry.ref # s
    BY <1>2 DEF RefsAgree, Early
  <2> QED
    BY <1>1, <2>1
<1>3. \A s \in Sessions : ticket'[s] \in {0, credit'[s]}
  BY DEF RefsAgree
<1>4. \A slot \in {pending', retry'} : slot # None => slot.amount = credit'[slot.ref]
  BY DEF RefsAgree
<1> QED
  BY <1>2, <1>3, <1>4 DEF RefsAgree, Early

LEMMA ResetTyped ==
  ASSUME NEW j \in Screens
  PROVE  /\ ResetSession(j) \in Screens
         /\ ResetSession(j).screen = j.screen /\ ResetSession(j).sess = j.sess
  BY DEF Screens, ResetSession

LEMMA LostTyped ==
  ASSUME mishap \in [Sessions -> SUBSET Mishaps], NEW slot, NEW s, NEW how \in Mishaps
  PROVE  Lost(slot, s, how) \in [Sessions -> SUBSET Mishaps]
  BY BlameTyped DEF Lost

LEMMA ResetByTyped ==
  ASSUME mishap \in [Sessions -> SUBSET Mishaps], NEW s
  PROVE  ResetBy(s) \in [Sessions -> SUBSET Mishaps]
<1> DEFINE own == IF js.ref = s /\ s # 0 /\ js.collected > 0 /\ work[s] \in {"none", "stopping"}
                  THEN Blame(s, "dropped") ELSE mishap
<1>1. "dropped" \in Mishaps /\ "wiped" \in Mishaps
  BY DEF Mishaps
<1>2. own \in [Sessions -> SUBSET Mishaps]
  BY <1>1, BlameTyped
<1>3. ResetBy(s) = IF js.ref \notin {0, s} THEN [own EXCEPT ![js.ref] = @ \cup {"wiped"}] ELSE own
  BY DEF ResetBy
<1> HIDE DEF own
<1> QED
  BY <1>1, <1>2, <1>3, Blamed

LEMMA LeftTyped ==
  ASSUME mishap \in [Sessions -> SUBSET Mishaps]
  PROVE  LeftBehind(mishap) \in [Sessions -> SUBSET Mishaps]
<1>1. "left" \in Mishaps
  BY DEF Mishaps
<1> QED
  BY <1>1, Blamed DEF LeftBehind

LEMMA BothReplaced ==
  ASSUME NEW b, NEW c, NEW d, NEW u, NEW x, NEW y,
         b = [counter |-> c, counted |-> d, unsure |-> u]
  PROVE  /\ \A k : k = [b EXCEPT !.counter = x, !.counted = y] =>
                k = [counter |-> x, counted |-> y, unsure |-> u]
         /\ \A k : k = [b EXCEPT !.counted = y, !.counter = x] =>
                k = [counter |-> x, counted |-> y, unsure |-> u]
<1>1. ASSUME NEW k, k = [b EXCEPT !.counter = x, !.counted = y]
      PROVE  k = [counter |-> x, counted |-> y, unsure |-> u]
  BY <1>1
<1>2. ASSUME NEW k, k = [b EXCEPT !.counted = y, !.counter = x]
      PROVE  k = [counter |-> x, counted |-> y, unsure |-> u]
  BY <1>2
<1> QED
  BY <1>1, <1>2

LEMMA BoxTyped ==
  ASSUME box \in Boxes, NEW v, NEW inFlight
  PROVE  /\ onBillStacked(box, v, inFlight) \in Boxes
         /\ onBillReturned(box, v) \in Boxes
         /\ flushPending(box) \in Boxes
<1>1. PICK c \in Counts, d \in Counts, u \in Counts :
        box = [counter |-> c, counted |-> d, unsure |-> u]
  BY DEF Boxes
<1>2. \A x \in Counts, y \in Counts, z \in Counts :
        [counter |-> x, counted |-> y, unsure |-> z] \in Boxes
  BY DEF Boxes
<1>3. /\ Plus(c, v) \in Counts /\ Plus(d, v) \in Counts /\ Plus(u, v) \in Counts
      /\ Minus(c, v) \in Counts /\ Minus(d, v) \in Counts /\ Minus(u, v) \in Counts
  BY CountTyped
<1>4. onBillStacked(box, v, inFlight) \in Boxes
  <2>1. [box EXCEPT !.unsure = Plus(@, v)]
          = [counter |-> c, counted |-> d, unsure |-> Plus(u, v)]
    BY <1>1
  <2>2. recordStackedBill(box, v)
          = [counter |-> Plus(c, v), counted |-> Plus(d, v), unsure |-> u]
    <3>1. PICK x, y : x = Plus(c, v) /\ y = Plus(d, v)
      OBVIOUS
    <3>2. recordStackedBill(box, v) = [box EXCEPT !.counter = x, !.counted = y]
      BY <1>1, <3>1 DEF recordStackedBill
    <3>3. recordStackedBill(box, v) = [counter |-> x, counted |-> y, unsure |-> u]
      BY <1>1, <3>2, BothReplaced
    <3> QED
      BY <3>1, <3>3
  <2> QED
    BY <1>2, <1>3, <2>1, <2>2 DEF onBillStacked
<1>5. onBillReturned(box, v) \in Boxes
  <2>1. [box EXCEPT !.unsure = Minus(@, v)]
          = [counter |-> c, counted |-> d, unsure |-> Minus(u, v)]
    BY <1>1
  <2>2. [box EXCEPT !.counted = Minus(@, v), !.counter = Minus(@, v)]
          = [counter |-> Minus(c, v), counted |-> Minus(d, v), unsure |-> u]
    <3>1. PICK x, y : x = Minus(c, v) /\ y = Minus(d, v)
      OBVIOUS
    <3>2. PICK k : k = [box EXCEPT !.counted = Minus(@, v), !.counter = Minus(@, v)]
      OBVIOUS
    <3>3. k = [box EXCEPT !.counted = y, !.counter = x]
      BY <1>1, <3>1, <3>2
    <3>4. k = [counter |-> x, counted |-> y, unsure |-> u]
      BY <1>1, <3>3, BothReplaced
    <3> QED
      BY <3>1, <3>2, <3>4
  <2> QED
    BY <1>2, <1>3, <2>1, <2>2 DEF onBillReturned
<1>6. flushPending(box) \in Boxes
  <2>1. [x \in Bills |-> c[x] + u[x]] \in Counts /\ [x \in Bills |-> d[x] + u[x]] \in Counts
    BY DEF Counts
  <2>2. flushPending(box) = [counter |-> [x \in Bills |-> c[x] + u[x]],
                             counted |-> [x \in Bills |-> d[x] + u[x]], unsure |-> NoBills]
    BY <1>1 DEF flushPending
  <2> QED
    BY <1>2, <2>1, <2>2, NoBillsTyped
<1> QED
  BY <1>4, <1>5, <1>6

\* The calls of the script other than a finalize's stop.
LEMMA StopCall ==
  ASSUME Hardwired, NEW c \in Seq(Calls), NEW q \in Seq(Messages),
         NEW what \in {"nothing", "leave", "back"}, NEW s \in Sessions \cup {0}
  PROVE  Keeps(c, q, Append(c, Stop(what, s)), q) /\ Follows(c, Append(c, Stop(what, s)))
<1>1. PICK m : m = Stop(what, s)
  OBVIOUS
<1>2. m = [op |-> "stop", then |-> [what |-> what, s |-> s, ref |-> 0]]
  BY <1>1 DEF Stop, Call
<1>3. m \in Calls
  BY <1>2 DEF Calls, Stops, Thens
<1>4. \A x \in Sessions \cup {0} : m \notin Stops(Finalizes(x))
  BY <1>2 DEF Stops, Finalizes
<1> QED
  BY <1>1, <1>3, <1>4, CallKeeps, AppendFollows

LEMMA AnswerCall ==
  ASSUME NEW c \in Seq(Calls), NEW q \in Seq(Messages),
         NEW op \in {"accept", "return"}, NEW s \in Sessions \cup {0}
  PROVE  /\ Keeps(c, q, Append(c, Call(op, "overpay", s)), q)
         /\ Follows(c, Append(c, Call(op, "overpay", s)))
<1>1. PICK m : m = Call(op, "overpay", s)
  OBVIOUS
<1>2. m = [op |-> op, then |-> [what |-> "overpay", s |-> s, ref |-> 0]]
  BY <1>1 DEF Call
<1>3. m \in Calls
  BY <1>2 DEF Calls, Answers
<1>4. \A x \in Sessions \cup {0} : m \notin Stops(Finalizes(x))
  BY <1>2 DEF Stops, Finalizes
<1> QED
  BY <1>1, <1>3, <1>4, CallKeeps, AppendFollows

LEMMA StartCall ==
  ASSUME NEW c \in Seq(Calls), NEW q \in Seq(Messages), NEW t \in Targets, NEW s \in Sessions,
         NEW m, m = [op |-> "start", target |-> t, s |-> s]
  PROVE  Keeps(c, q, Append(c, m), q) /\ Follows(c, Append(c, m))
<1>1. m \in Calls
  BY DEF Calls
<1>2. \A x \in Sessions \cup {0} : m \notin Stops(Finalizes(x))
  BY DEF Stops, Finalizes
<1> QED
  BY <1>1, <1>2, CallKeeps, AppendFollows

\* A view that goes away.
LEMMA Unmounted ==
  ASSUME Hardwired, Scripted, NEW q \in Seq(Messages), NEW j \in Screens,
         NEW w \in [Sessions -> Works], NEW more,
         more = <<>> \/ \E s \in Sessions \cup {0} : more = <<Stop("nothing", s)>>,
         Unmount(j, w, more)
  PROVE  /\ js' \in Screens /\ js'.screen \in {"home", "oos"}
         /\ work' \in [Sessions -> Works]
         /\ \A s \in Sessions :
              work'[s] = w[s] \/ (js.screen = "recovery" /\ s = js.sess /\ work'[s] = "done")
         /\ Keeps(calls, q, calls', q) /\ Follows(calls, calls')
<1>1. js' \in Screens /\ js'.screen \in {"home", "oos"}
  BY DEF Unmount, Screens
<1>2. /\ work' \in [Sessions -> Works]
      /\ \A s \in Sessions :
           work'[s] = w[s] \/ (js.screen = "recovery" /\ s = js.sess /\ work'[s] = "done")
  BY DEF Unmount, Works
<1>3. PICK last : last = Stop("nothing", js.sess)
  OBVIOUS
<1>4. PICK c : c = calls \o more
  OBVIOUS
<1>5. Keeps(calls, q, c, q) /\ Follows(calls, c)
  <2>1. CASE more = <<>>
    BY <1>4, <2>1, KeepsItself, FollowsItself DEF Hardwired
  <2>2. ASSUME NEW s \in Sessions \cup {0}, more = <<Stop("nothing", s)>>
        PROVE  Keeps(calls, q, c, q) /\ Follows(calls, c)
    <3>1. Stop("nothing", s) \in Calls
      BY DEF Stop, Call, Calls, Stops, Thens
    <3>2. c = Append(calls, Stop("nothing", s))
      BY <1>4, <2>2, <3>1, PostedOneByOne DEF Hardwired
    <3> QED
      BY <3>2, StopCall DEF Hardwired
  <2> QED
    BY <2>1, <2>2
<1>6. c \in Seq(Calls)
  BY <1>5 DEF Keeps
<1>7. js.sess \in Sessions \cup {0}
  BY DEF Scripted, Screens
<1>8. last \in Calls
  BY <1>3, <1>7 DEF Stop, Call, Calls, Stops, Thens
<1>9. calls' \in {c, Append(c, last)}
  <2>1. calls' \in {c \o <<last>>, c \o <<>>}
    BY <1>3, <1>4 DEF Unmount
  <2> QED
    BY <1>6, <1>8, <2>1, PostedOneByOne
<1>10. Keeps(c, q, Append(c, last), q) /\ Follows(c, Append(c, last))
  BY <1>3, <1>6, <1>7, StopCall
<1>11. Keeps(calls, q, calls', q) /\ Follows(calls, calls')
  <2>1. Keeps(calls, q, Append(c, last), q)
    BY <1>5, <1>10, KeepsTransitive
  <2>2. Follows(calls, Append(c, last))
    BY <1>5, <1>10, FollowsTransitive
  <2> QED
    BY <1>5, <1>9, <2>1, <2>2
<1> QED
  BY <1>1, <1>2, <1>11

----------------------------------------------------------------------------
(* The script: steps that finalize nothing *)

\* The session of the screen, and the recovery it shows, stay what they were.
SameScreen ==
  /\ js'.screen = js.screen /\ js'.sess = js.sess
  /\ \A s \in Sessions : work[s] = "recovering" => work'[s] = "recovering"

LEMMA SameScreenAgrees ==
  ASSUME ScreenAgrees, SameScreen
  PROVE  ScreenAgrees'
  BY DEF ScreenAgrees, SameScreen

Elsewhere ==
  UNCHANGED <<reader, turn, acceptor, wire, waiting, settled, cash, taken, inserted>>

\* What a step of the script shows that finalizes nothing.
LEMMA ScriptKeeps ==
  ASSUME IInv, Elsewhere, UNCHANGED <<ticket, credit>>,
         faults' \in 0..MaxFaults, mishap' \in [Sessions -> SUBSET Mishaps],
         Keeps(calls, queue, calls', queue'), Follows(calls, calls'),
         js' \in Screens, work' \in [Sessions -> Works], oos' \in BOOLEAN, box' \in Boxes,
         \A s \in Sessions : \/ work'[s] = work[s]
                             \/ work[s] \notin Early /\ work'[s] \notin Early \cup {"calling"},
         pending' \in {pending, None}, retry' \in {retry, pending, None},
         ScreenAgrees'
  PROVE  IInv'
<1>1. Hardwired /\ Scripted /\ ScreenAgrees /\ StopsOnce /\ RefsAgree
  BY IsScripted
<1>2. calls' \in Seq(Calls) /\ queue' \in Seq(Messages)
  BY DEF Keeps
<1>3. Hardwired'
  BY <1>1, <1>2, StillHardwired DEF Elsewhere, device
<1>4. Scripted'
  <2>1. pending' \in Slot /\ retry' \in Slot
    BY <1>1 DEF Scripted, Slot
  <2>2. ASSUME NEW s \in Sessions, work'[s] = "calling"
        PROVE  credit'[s] > 0
    <3>1. work[s] = "calling"
      BY <2>2
    <3> QED
      BY <1>1, <3>1 DEF Scripted
  <2> QED
    BY <1>1, <2>1, <2>2 DEF Scripted
<1>5. \A s \in Sessions : work'[s] \in Early => work[s] \in Early
  OBVIOUS
<1>6. RefsAgree'
  BY <1>1, <1>5, RefsKept
<1>7. \A s \in Sessions : work'[s] # "stopping" => work[s] # "stopping"
  BY DEF Early
<1>8. StopsOnce'
  BY <1>1, <1>7, StopsKept
<1> QED
  BY <1>3, <1>4, <1>6, <1>8, Assembled

\* A result is taken from the queue.
LEMMA ResolvedKeeps ==
  ASSUME Hardwired, NEW what, Resolved(what)
  PROVE  /\ Keeps(calls, queue, calls, queue') /\ queue' \in Seq(Messages)
         /\ Of \in Thens /\ Of.what = what /\ Head(queue) = [k |-> "result", then |-> Of]
<1>1. /\ calls \in Seq(Calls) /\ queue \in Seq(Messages) /\ queue # <<>>
      /\ queue' = Tail(queue) /\ Head(queue).k = "result" /\ Head(queue).then.what = what
  BY DEF Hardwired, Resolved
<1>2. Keeps(calls, queue, calls, queue')
  BY <1>1, HandledKeeps
<1>3. PICK h \in Messages : h = Head(queue)
  BY <1>1
<1>4. h \in Results(Thens)
  BY <1>1, <1>3 DEF Messages, Events
<1>5. h.then \in Thens /\ h = [k |-> "result", then |-> h.then]
  BY <1>4 DEF Results
<1> QED
  BY <1>1, <1>2, <1>3, <1>5 DEF Of, Keeps

LEMMA AfterStopKeeps ==
  ASSUME IInv, AfterStop
  PROVE  IInv'
<1>1. Hardwired /\ Scripted /\ ScreenAgrees
  BY IsScripted
<1>2. Keeps(calls, queue, calls, queue')
  BY <1>1, ResolvedKeeps DEF AfterStop
<1>3. /\ UNCHANGED <<ticket, credit, faults, mishap, calls, work, pending, retry, oos, box>>
      /\ Elsewhere
  BY DEF AfterStop, Elsewhere, device, plugin, history
<1>4. js' \in Screens /\ SameScreen
  BY <1>1, <1>3 DEF AfterStop, Scripted, Screens, Stopped, SameScreen
<1>5. ScreenAgrees'
  BY <1>1, <1>4, SameScreenAgrees
<1>6. Follows(calls, calls') /\ Keeps(calls, queue, calls', queue')
  BY <1>2, <1>3, FollowsItself
<1>7. work' \in [Sessions -> Works] /\ oos' \in BOOLEAN /\ box' \in Boxes
  BY <1>1, <1>3 DEF Scripted
<1>8. faults' \in 0..MaxFaults /\ mishap' \in [Sessions -> SUBSET Mishaps]
  BY <1>1, <1>3 DEF Hardwired
<1> QED
  BY <1>3, <1>4, <1>5, <1>6, <1>7, <1>8, ScriptKeeps

LEMMA AfterBackKeeps ==
  ASSUME IInv, AfterBack
  PROVE  IInv'
<1>1. Hardwired /\ Scripted /\ ScreenAgrees
  BY IsScripted
<1>2. Keeps(calls, queue, calls, queue')
  BY <1>1, ResolvedKeeps DEF AfterBack
<1>3. /\ UNCHANGED <<ticket, credit, faults, calls, work, pending, retry, oos, box>>
      /\ Elsewhere
  BY DEF AfterBack, Elsewhere, device, plugin
<1>4. PICK j \in Screens :
        j = ResetSession(js) /\ j.screen = js.screen /\ j.sess = js.sess
  BY <1>1, ResetTyped DEF Scripted
<1>5. \/ js' = [j EXCEPT !.screen = "home"]
      \/ js' = [j EXCEPT !.screen = j.screen]
  BY <1>4 DEF AfterBack
<1>6. /\ js' \in Screens
      /\ js'.screen = "home" \/ (js'.screen = js.screen /\ js'.sess = js.sess)
  BY <1>4, <1>5 DEF Screens
<1>7. ScreenAgrees'
  BY <1>1, <1>3, <1>6 DEF ScreenAgrees
<1>8. Follows(calls, calls') /\ Keeps(calls, queue, calls', queue')
  BY <1>2, <1>3, FollowsItself
<1>9. work' \in [Sessions -> Works] /\ oos' \in BOOLEAN /\ box' \in Boxes
  BY <1>1, <1>3 DEF Scripted
<1>10. faults' \in 0..MaxFaults /\ mishap' \in [Sessions -> SUBSET Mishaps]
  BY <1>1, <1>3, ResetByTyped DEF Hardwired, AfterBack
<1> QED
  BY <1>3, <1>6, <1>7, <1>8, <1>9, <1>10, ScriptKeeps

\* A view goes away, and whatever its session was in the middle of is over only
\* if it was at its recovery.
LEMMA UnmountKeeps ==
  ASSUME IInv, Elsewhere, UNCHANGED <<ticket, credit, pending, retry, box>>,
         faults' \in 0..MaxFaults, mishap' \in [Sessions -> SUBSET Mishaps],
         oos' \in BOOLEAN, Keeps(calls, queue, calls, queue'),
         NEW j \in Screens, NEW w \in [Sessions -> Works], NEW more,
         more = <<>> \/ \E s \in Sessions \cup {0} : more = <<Stop("nothing", s)>>,
         \A s \in Sessions : w[s] = work[s] \/ (work[s] = "recovering" /\ w[s] = "done"),
         Unmount(j, w, more)
  PROVE  IInv'
<1>1. Hardwired /\ Scripted /\ ScreenAgrees
  BY IsScripted
<1>2. queue' \in Seq(Messages)
  BY DEF Keeps
<1>3. PICK q \in Seq(Messages) : q = queue'
  BY <1>2
<1>4. /\ js' \in Screens /\ js'.screen \in {"home", "oos"}
      /\ work' \in [Sessions -> Works]
      /\ \A s \in Sessions :
           work'[s] = w[s] \/ (js.screen = "recovery" /\ s = js.sess /\ work'[s] = "done")
      /\ Keeps(calls, q, calls', q) /\ Follows(calls, calls')
  BY <1>1, Unmounted
<1>5. Keeps(calls, queue, calls', queue')
  <2>1. Keeps(calls, queue, calls, q)
    BY <1>3
  <2>2. Keeps(calls, queue, calls', q)
    BY <1>4, <2>1, KeepsTransitive
  <2> QED
    BY <1>3, <2>2
<1>6. ScreenAgrees'
  BY <1>4 DEF ScreenAgrees
<1>7. \A s \in Sessions : work'[s] = work[s] \/ (work[s] = "recovering" /\ work'[s] = "done")
  <2> SUFFICES ASSUME NEW s \in Sessions, work'[s] # work[s]
               PROVE  work[s] = "recovering" /\ work'[s] = "done"
    OBVIOUS
  <2>1. CASE work'[s] = w[s]
    BY <2>1
  <2>2. CASE js.screen = "recovery" /\ s = js.sess /\ work'[s] = "done"
    BY <1>1, <2>2 DEF ScreenAgrees
  <2> QED
    BY <1>4, <2>1, <2>2
<1>8. \A s \in Sessions : \/ work'[s] = work[s]
                          \/ work[s] \notin Early /\ work'[s] \notin Early \cup {"calling"}
  BY <1>7 DEF Early
<1>9. box' \in Boxes
  BY <1>1 DEF Scripted
<1> QED
  BY <1>4, <1>5, <1>6, <1>8, <1>9, ScriptKeeps

LEMMA AfterLeaveKeeps ==
  ASSUME IInv, AfterLeave
  PROVE  IInv'
<1>1. Hardwired /\ Scripted
  BY IsScripted
<1>2. Keeps(calls, queue, calls, queue')
  BY <1>1, ResolvedKeeps DEF AfterLeave
<1>3. UNCHANGED <<ticket, credit, faults, oos, pending, retry, box>> /\ Elsewhere
  BY DEF AfterLeave, Elsewhere, device
<1>4. PICK j \in Screens : j = ResetSession(js)
  BY <1>1, ResetTyped DEF Scripted
<1>5. Unmount(j, work, <<>>)
  BY <1>4 DEF AfterLeave
<1>6. mishap' \in [Sessions -> SUBSET Mishaps]
  <2>1. PICK m : m = ResetBy(Of.s)
    OBVIOUS
  <2>2. PICK l : l = LeftBehind(mishap)
    OBVIOUS
  <2>3. m \in [Sessions -> SUBSET Mishaps] /\ l \in [Sessions -> SUBSET Mishaps]
    BY <1>1, <2>1, <2>2, ResetByTyped, LeftTyped DEF Hardwired
  <2>4. mishap' \in {m, [x \in Sessions |-> m[x] \cup l[x]]}
    BY <2>1, <2>2 DEF AfterLeave
  <2> QED
    BY <2>3, <2>4
<1>7. faults' \in 0..MaxFaults /\ oos' \in BOOLEAN /\ work \in [Sessions -> Works]
  BY <1>1, <1>3 DEF Hardwired, Scripted
<1> QED
  BY <1>2, <1>3, <1>4, <1>5, <1>6, <1>7, UnmountKeeps

LEMMA FinishKeeps ==
  ASSUME IInv, FinishAndLogout
  PROVE  IInv'
<1>1. Hardwired /\ Scripted
  BY IsScripted
<1>2. Elsewhere /\ UNCHANGED <<queue, ticket, credit, faults, mishap, oos, pending, retry, box>>
  BY DEF FinishAndLogout, Elsewhere, device, history
<1>3. Keeps(calls, queue, calls, queue')
  BY <1>1, <1>2, KeepsItself DEF Hardwired
<1>4. PICK more : more = <<Stop("nothing", js.sess)>>
  OBVIOUS
<1>5. js \in Screens /\ js.sess \in Sessions \cup {0} /\ work \in [Sessions -> Works]
  BY <1>1 DEF Scripted, Screens
<1>6. \E s \in Sessions \cup {0} : more = <<Stop("nothing", s)>>
  BY <1>4, <1>5
<1>7. Unmount(js, work, more)
  BY <1>4 DEF FinishAndLogout
<1>8. /\ faults' \in 0..MaxFaults /\ mishap' \in [Sessions -> SUBSET Mishaps]
      /\ oos' \in BOOLEAN
  BY <1>1, <1>2 DEF Hardwired, Scripted
<1> QED
  BY <1>2, <1>3, <1>5, <1>6, <1>7, <1>8, UnmountKeeps

LEMMA ResumeKeeps ==
  ASSUME IInv, ResumeApp
  PROVE  IInv'
<1>1. Hardwired /\ Scripted
  BY IsScripted
<1>2. Elsewhere /\ UNCHANGED <<queue, ticket, credit, oos, pending, retry, box>>
  BY DEF ResumeApp, Elsewhere, device
<1>3. Keeps(calls, queue, calls, queue')
  BY <1>1, <1>2, KeepsItself DEF Hardwired
<1>4. js \in Screens /\ work \in [Sessions -> Works] /\ oos' \in BOOLEAN
  BY <1>1, <1>2 DEF Scripted
<1>5. mishap' \in [Sessions -> SUBSET Mishaps] /\ faults' \in 0..MaxFaults
  BY <1>1, LeftTyped, FaultsStay DEF Hardwired, ResumeApp
<1>6. Unmount(js, work, <<>>)
  BY DEF ResumeApp
<1> QED
  BY <1>2, <1>3, <1>4, <1>5, <1>6, UnmountKeeps

LEMMA LockKeeps ==
  ASSUME IInv, NEW s \in Sessions, EnterOutOfService(s)
  PROVE  IInv'
<1>1. Hardwired /\ Scripted
  BY IsScripted
<1>2. Elsewhere /\ UNCHANGED <<queue, ticket, credit, faults, pending, retry, box>>
  BY DEF EnterOutOfService, Elsewhere, device
<1>3. Keeps(calls, queue, calls, queue')
  BY <1>1, <1>2, KeepsItself DEF Hardwired
<1>4. PICK w : w = [work EXCEPT ![s] = "done"]
  OBVIOUS
<1>5. js \in Screens /\ w \in [Sessions -> Works] /\ oos' \in BOOLEAN
  BY <1>1, <1>4 DEF Scripted, EnterOutOfService, Works
<1>6. \A x \in Sessions : w[x] = work[x] \/ (work[x] = "recovering" /\ w[x] = "done")
  BY <1>1, <1>4 DEF Scripted, EnterOutOfService
<1>7. mishap' \in [Sessions -> SUBSET Mishaps] /\ faults' \in 0..MaxFaults
  BY <1>1, <1>2, LeftTyped DEF Hardwired, EnterOutOfService
<1>8. PICK more : more = <<Stop("nothing", s)>>
  OBVIOUS
<1>9. Unmount(js, w, more)
  BY <1>4, <1>8 DEF EnterOutOfService
<1>10. \E x \in Sessions \cup {0} : more = <<Stop("nothing", x)>>
  BY <1>8
<1> QED
  BY <1>2, <1>3, <1>5, <1>6, <1>7, <1>9, <1>10, UnmountKeeps

----------------------------------------------------------------------------
(* The customer *)

\* A touch makes one call and changes at most what the screen shows.
LEMMA TouchKeeps ==
  ASSUME IInv, Free, work' = work, mishap' \in [Sessions -> SUBSET Mishaps],
         js' \in Screens, ScreenAgrees',
         Keeps(calls, queue, calls', queue), Follows(calls, calls')
  PROVE  IInv'
<1>1. Hardwired /\ Scripted
  BY IsScripted
<1>2. Elsewhere /\ UNCHANGED <<ticket, credit, faults, oos, box, pending, retry, queue, work>>
  BY DEF Free, Elsewhere, device
<1>3. Keeps(calls, queue, calls', queue')
  BY <1>2
<1>4. /\ work' \in [Sessions -> Works] /\ oos' \in BOOLEAN /\ box' \in Boxes
      /\ faults' \in 0..MaxFaults
  BY <1>1, <1>2 DEF Hardwired, Scripted
<1> QED
  BY <1>2, <1>3, <1>4, ScriptKeeps

\* A touch that only asks the reader to stop.
LEMMA StopTouchKeeps ==
  ASSUME IInv, Free, UNCHANGED <<work, mishap>>, js' \in Screens,
         js'.screen = js.screen, js'.sess = js.sess,
         NEW what \in {"nothing", "leave", "back"}, calls' = Append(calls, Stop(what, js.sess))
  PROVE  IInv'
<1>1. Hardwired /\ Scripted /\ ScreenAgrees
  BY IsScripted
<1>2. /\ calls \in Seq(Calls) /\ queue \in Seq(Messages) /\ js.sess \in Sessions \cup {0}
      /\ mishap' \in [Sessions -> SUBSET Mishaps]
  BY <1>1 DEF Hardwired, Scripted, Screens
<1>3. Keeps(calls, queue, calls', queue) /\ Follows(calls, calls')
  BY <1>1, <1>2, StopCall
<1>4. ScreenAgrees'
  BY <1>1, SameScreenAgrees DEF SameScreen
<1> QED
  BY <1>2, <1>3, <1>4, TouchKeeps

LEMMA SelectKeeps ==
  ASSUME IInv, NEW t \in Targets, SelectCash(t)
  PROVE  IInv'
<1>1. Hardwired /\ Scripted /\ ScreenAgrees
  BY IsScripted
<1>2. PICK s \in Sessions : s = js.sess + 1
  BY DEF SelectCash
<1>3. PICK j \in Screens : j = ResetSession(js)
  BY <1>1, ResetTyped DEF Scripted
<1>4. js' = [j EXCEPT !.screen = "cash", !.sess = s, !.ref = s, !.inhibited = FALSE]
  BY <1>2, <1>3 DEF SelectCash
<1>5. js' \in Screens /\ js'.screen = "cash" /\ js'.sess = s
  BY <1>3, <1>4 DEF Screens
<1>6. ScreenAgrees'
  BY <1>5 DEF ScreenAgrees
<1>7. mishap' \in [Sessions -> SUBSET Mishaps]
  <2>1. "dropped" \in Mishaps
    BY DEF Mishaps
  <2>2. \A x \in Sessions : mishap[x] \in SUBSET Mishaps
    BY <1>1 DEF Hardwired
  <2>3. \A x \in Sessions : mishap[x] \cup {"dropped"} \in SUBSET Mishaps
    BY <2>1, <2>2
  <2>4. mishap' = [x \in Sessions |->
          IF work[x] = "stopping" THEN mishap[x] \cup {"dropped"} ELSE mishap[x]]
    BY DEF SelectCash
  <2> QED
    BY <2>2, <2>3, <2>4
<1>8. PICK m : m = [op |-> "start", target |-> t, s |-> s]
  OBVIOUS
<1>9. calls' = Append(calls, m)
  BY <1>2, <1>8 DEF SelectCash
<1>10. Keeps(calls, queue, calls', queue) /\ Follows(calls, calls')
  BY <1>1, <1>8, <1>9, StartCall DEF Hardwired
<1>11. Free /\ work' = work
  BY DEF SelectCash
<1> QED
  BY <1>5, <1>6, <1>7, <1>10, <1>11, TouchKeeps

LEMMA BackKeeps ==
  ASSUME IInv, Back
  PROVE  IInv'
<1>1. Scripted
  BY IsScripted
<1>2. /\ Free /\ UNCHANGED <<work, mishap, js>>
      /\ calls' = Append(calls, Stop("back", js.sess))
  BY DEF Back
<1>3. js' \in Screens /\ js'.screen = js.screen /\ js'.sess = js.sess
  BY <1>1, <1>2 DEF Scripted
<1> QED
  BY <1>2, <1>3, StopTouchKeeps

LEMMA InhibitKeeps ==
  ASSUME IInv, InhibitAccepting
  PROVE  IInv'
<1>1. Scripted
  BY IsScripted
<1>2. /\ Free /\ UNCHANGED <<work, mishap>> /\ js' = [js EXCEPT !.inhibited = TRUE]
      /\ calls' = Append(calls, Stop("nothing", js.sess))
  BY DEF InhibitAccepting
<1>3. js' \in Screens /\ js'.screen = js.screen /\ js'.sess = js.sess
  BY <1>1, <1>2 DEF Scripted, Screens
<1> QED
  BY <1>2, <1>3, StopTouchKeeps

LEMMA AnswerKeeps ==
  ASSUME IInv, NEW op \in {"accept", "return"}, AnswerOverpay(op)
  PROVE  IInv'
<1>1. Hardwired /\ Scripted /\ ScreenAgrees
  BY IsScripted
<1>2. /\ Free /\ UNCHANGED <<work, mishap, js>>
      /\ calls' = Append(calls, Call(op, "overpay", js.sess))
  BY DEF AnswerOverpay
<1>3. /\ calls \in Seq(Calls) /\ queue \in Seq(Messages) /\ js.sess \in Sessions \cup {0}
      /\ mishap' \in [Sessions -> SUBSET Mishaps] /\ js' \in Screens
  BY <1>1, <1>2 DEF Hardwired, Scripted, Screens
<1>4. Keeps(calls, queue, calls', queue) /\ Follows(calls, calls')
  BY <1>2, <1>3, AnswerCall
<1>5. ScreenAgrees'
  BY <1>1, <1>2 DEF ScreenAgrees
<1> QED
  BY <1>2, <1>3, <1>4, <1>5, TouchKeeps

----------------------------------------------------------------------------
(* The request of the top-up *)

LEMMA ReturnsKeeps ==
  ASSUME IInv, NEW s \in Sessions, CallReturns(s)
  PROVE  IInv'
<1>1. Hardwired /\ Scripted /\ ScreenAgrees
  BY IsScripted
<1>2. /\ Elsewhere
      /\ UNCHANGED <<calls, queue, faults, js, credit, retry, oos, box, ticket>>
  BY DEF CallReturns, Elsewhere, device, plugin
<1>3. pending' = None /\ work' = [work EXCEPT ![s] = "refreshing"] /\ work[s] = "calling"
  BY DEF CallReturns, ClearPending
<1>4. work' \in [Sessions -> Works]
  BY <1>1, <1>3 DEF Scripted, Works
<1>5. \A x \in Sessions : \/ work'[x] = work[x]
                          \/ work[x] \notin Early /\ work'[x] \notin Early \cup {"calling"}
  BY <1>1, <1>3 DEF Early, Scripted
<1>6. mishap' \in [Sessions -> SUBSET Mishaps]
  <2>1. "cleared" \in Mishaps
    BY DEF Mishaps
  <2> QED
    BY <1>1, <2>1, LostTyped DEF CallReturns, ClearPending, Hardwired
<1>7. ScreenAgrees'
  BY <1>1, <1>2, <1>3 DEF ScreenAgrees, Scripted
<1>8. Keeps(calls, queue, calls', queue') /\ Follows(calls, calls')
  BY <1>1, <1>2, KeepsItself, FollowsItself DEF Hardwired
<1>9. faults' \in 0..MaxFaults /\ js' \in Screens /\ oos' \in BOOLEAN /\ box' \in Boxes
  BY <1>1, <1>2 DEF Hardwired, Scripted
<1> QED
  BY <1>2, <1>3, <1>4, <1>5, <1>6, <1>7, <1>8, <1>9, ScriptKeeps

\* The finally of finalizeCashTopUp, after the call or after the refresh.
LEMMA EndsKeeps ==
  ASSUME IInv, NEW s \in Sessions, NEW screen,
         \/ work[s] = "refreshing" /\ work' = [work EXCEPT ![s] = "done"] /\ screen = "success"
         \/ work[s] = "calling" /\ work' = [work EXCEPT ![s] = "recovering"] /\ screen = "recovery",
         faults' \in 0..MaxFaults, Ends(s, screen)
  PROVE  IInv'
<1>1. Hardwired /\ Scripted /\ ScreenAgrees
  BY IsScripted
<1>2. Elsewhere /\ UNCHANGED <<calls, queue, credit, pending, retry, oos, box, ticket>>
  BY DEF Ends, Elsewhere, device, plugin
<1>3. work' \in [Sessions -> Works]
  BY <1>1 DEF Scripted, Works
<1>4. \A x \in Sessions : \/ work'[x] = work[x]
                          \/ work[x] \notin Early /\ work'[x] \notin Early \cup {"calling"}
  BY <1>1 DEF Early, Scripted
<1>5. mishap' \in [Sessions -> SUBSET Mishaps]
  BY <1>1, ResetByTyped DEF Hardwired, Ends
<1>6. PICK j \in Screens :
        j = ResetSession(js) /\ j.screen = js.screen /\ j.sess = js.sess
  BY <1>1, ResetTyped DEF Scripted
<1>7. PICK now : now = IF js.sess = s /\ js.screen = "cash" THEN screen ELSE js.screen
  OBVIOUS
<1>8. js' = [j EXCEPT !.screen = now]
  BY <1>6, <1>7 DEF Ends
<1>9. now \in {"home", "cash", "success", "recovery", "oos"}
  BY <1>1, <1>7 DEF Scripted, Screens
<1>10. js' \in Screens /\ js'.screen = now /\ js'.sess = js.sess
  BY <1>6, <1>8, <1>9 DEF Screens
<1>11. ScreenAgrees'
  <2>1. CASE js.sess = s /\ js.screen = "cash"
    BY <1>1, <1>7, <1>10, <2>1 DEF ScreenAgrees, Scripted
  <2>2. CASE ~(js.sess = s /\ js.screen = "cash")
    <3>1. js'.screen = js.screen /\ js'.sess = js.sess
      BY <1>7, <1>10, <2>2
    <3>2. \A x \in Sessions : work[x] = "recovering" => work'[x] = "recovering"
      BY <1>1 DEF Scripted
    <3> QED
      BY <1>1, <3>1, <3>2, SameScreenAgrees DEF SameScreen
  <2> QED
    BY <2>1, <2>2
<1>12. Keeps(calls, queue, calls', queue') /\ Follows(calls, calls')
  BY <1>1, <1>2, KeepsItself, FollowsItself DEF Hardwired
<1>13. oos' \in BOOLEAN /\ box' \in Boxes
  BY <1>1, <1>2 DEF Scripted
<1> QED
  BY <1>2, <1>3, <1>4, <1>5, <1>10, <1>11, <1>12, <1>13, ScriptKeeps

LEMMA RefreshedKeeps ==
  ASSUME IInv, NEW s \in Sessions, Refreshed(s) \/ CallFails(s)
  PROVE  IInv'
<1>1. Hardwired
  BY IsScripted
<1>2. CASE Refreshed(s)
  BY <1>1, <1>2, EndsKeeps DEF Refreshed, Hardwired
<1>3. CASE CallFails(s)
  <2>1. faults' \in 0..MaxFaults
    BY <1>1, <1>3, FaultsStay DEF CallFails, Hardwired
  <2> QED
    BY <1>3, <2>1, EndsKeeps DEF CallFails
<1> QED
  BY <1>2, <1>3

LEMMA UnlockKeeps ==
  ASSUME IInv, HandleUnlock
  PROVE  IInv'
<1>1. Hardwired /\ Scripted /\ ScreenAgrees
  BY IsScripted
<1>2. /\ Elsewhere
      /\ UNCHANGED <<calls, queue, faults, work, credit, retry, box, ticket>>
  BY DEF HandleUnlock, Elsewhere, device, plugin
<1>3. js' \in Screens /\ js'.screen = "home" /\ pending' = None /\ oos' \in BOOLEAN
  BY <1>1 DEF HandleUnlock, Scripted, Screens
<1>4. mishap' \in [Sessions -> SUBSET Mishaps]
  <2>1. "unlocked" \in Mishaps
    BY DEF Mishaps
  <2> QED
    BY <1>1, <2>1, LostTyped DEF HandleUnlock, Hardwired
<1>5. ScreenAgrees'
  BY <1>3 DEF ScreenAgrees
<1>6. Keeps(calls, queue, calls', queue') /\ Follows(calls, calls')
  BY <1>1, <1>2, KeepsItself, FollowsItself DEF Hardwired
<1>7. faults' \in 0..MaxFaults /\ work' \in [Sessions -> Works] /\ box' \in Boxes
  BY <1>1, <1>2 DEF Hardwired, Scripted
<1> QED
  BY <1>2, <1>3, <1>4, <1>5, <1>6, <1>7, ScriptKeeps

LEMMA RetryKeeps ==
  ASSUME IInv, RetryReturns \/ RetryFails
  PROVE  IInv'
<1>1. Hardwired /\ Scripted /\ ScreenAgrees
  BY IsScripted
<1>2. /\ Elsewhere
      /\ UNCHANGED <<calls, queue, faults, js, work, credit, oos, box, ticket>>
  BY DEF RetryReturns, RetryFails, Elsewhere, device, plugin, readerVars
<1>3. retry' = None /\ pending' \in {pending, None}
  BY DEF RetryReturns, RetryFails, ClearPending
<1>4. mishap' \in [Sessions -> SUBSET Mishaps]
  <2>1. "cleared" \in Mishaps
    BY DEF Mishaps
  <2>2. CASE RetryReturns
    BY <1>1, <2>1, <2>2, LostTyped DEF RetryReturns, ClearPending, Hardwired
  <2>3. CASE RetryFails
    BY <1>1, <2>3 DEF RetryFails, readerVars, Hardwired
  <2> QED
    BY <2>2, <2>3
<1>5. ScreenAgrees'
  BY <1>1, <1>2 DEF ScreenAgrees
<1>6. Keeps(calls, queue, calls', queue') /\ Follows(calls, calls')
  BY <1>1, <1>2, KeepsItself, FollowsItself DEF Hardwired
<1>7. /\ faults' \in 0..MaxFaults /\ work' \in [Sessions -> Works] /\ box' \in Boxes
      /\ js' \in Screens /\ oos' \in BOOLEAN
  BY <1>1, <1>2 DEF Hardwired, Scripted
<1> QED
  BY <1>2, <1>3, <1>4, <1>5, <1>6, <1>7, ScriptKeeps

\* The server credits an amount that is asked for, the one of its ref.
LEMMA CreditKeeps ==
  ASSUME IInv, NEW q \in Request, ServerCredits(q)
  PROVE  IInv'
<1>1. Hardwired /\ Scripted /\ ScreenAgrees /\ StopsOnce /\ RefsAgree
  BY IsScripted
<1>2. /\ UNCHANGED <<reader, turn, acceptor, wire, calls, waiting, settled, queue, cash, taken,
                     inserted, faults, mishap>>
      /\ UNCHANGED <<js, work, credit, pending, retry, oos, box>>
      /\ ticket' = [ticket EXCEPT ![q.ref] = q.amount]
  BY DEF ServerCredits, readerVars, script
<1>3. /\ q.ref \in Sessions /\ q.amount = credit[q.ref]
      /\ work[q.ref] \notin Early
  <2>1. ASSUME NEW s \in Sessions, work[s] = "calling", q = [ref |-> s, amount |-> credit[s]]
        PROVE  q.ref \in Sessions /\ q.amount = credit[q.ref] /\ work[q.ref] \notin Early
    BY <2>1 DEF Early
  <2>2. CASE q = retry /\ q # None
    <3>1. q.ref \in Sessions /\ q.amount = credit[q.ref]
      BY <1>1, <2>2 DEF Scripted, Slot, RefsAgree
    <3>2. work[q.ref] \notin Early
      BY <1>1, <2>2, <3>1 DEF RefsAgree, Early
    <3> QED
      BY <3>1, <3>2
  <2> QED
    BY <2>1, <2>2 DEF Request
<1>4. PICK r \in Sessions : r = q.ref
  BY <1>3
<1>5. credit[r] \in Nat /\ ticket' = [ticket EXCEPT ![r] = credit[r]] /\ work[r] \notin Early
  BY <1>1, <1>2, <1>3, <1>4 DEF Scripted
<1>6. Hardwired'
  BY <1>1, <1>2 DEF Hardwired
<1>7. Scripted'
  BY <1>1, <1>2, <1>5 DEF Scripted
<1>8. ScreenAgrees' /\ StopsOnce'
  BY <1>1, <1>2 DEF ScreenAgrees, StopsOnce
<1>9. RefsAgree'
  <2>1. \A s \in Sessions : ticket'[s] \in {0, credit'[s]}
    BY <1>1, <1>2, <1>5 DEF RefsAgree, Scripted
  <2>2. \A s \in Sessions : work'[s] \in {"none", "stopping"} =>
          ticket'[s] = 0 /\ pending'.ref # s /\ retry'.ref # s
    BY <1>1, <1>2, <1>5 DEF RefsAgree, Scripted, Early
  <2>3. \A slot \in {pending', retry'} : slot # None => slot.amount = credit'[slot.ref]
    BY <1>1, <1>2 DEF RefsAgree
  <2> QED
    BY <2>1, <2>2, <2>3 DEF RefsAgree
<1> QED
  BY <1>6, <1>7, <1>8, <1>9, Assembled

----------------------------------------------------------------------------
(* The finalize: from its stop to its request *)

\* A session of the screen starts to finalize: it waits for no stop yet.
LEMMA FinalizeAsked ==
  ASSUME IInv, Keeps(calls, queue, calls, queue'),
         NEW j \in Screens, j.screen = js.screen, j.sess = js.sess, ShouldFinalize(j),
         NEW why \in {"finalize", "cancel"}, FinalizeStarts(j, why)
  PROVE  /\ work' \in [Sessions -> Works]
         /\ \A s \in Sessions :
              work'[s] = work[s] \/ (work[s] = "none" /\ work'[s] = "stopping")
         /\ calls' \in Seq(Calls) /\ queue' \in Seq(Messages) /\ Follows(calls, calls')
         /\ StopsOnce'
<1>1. Hardwired /\ Scripted /\ ScreenAgrees /\ StopsOnce
  BY IsScripted
<1>2. PICK s : s = js.sess
  OBVIOUS
<1>3. s \in Sessions /\ work[s] = "none" /\ work' = [work EXCEPT ![s] = "stopping"]
  BY <1>1, <1>2 DEF ShouldFinalize, FinalizeStarts, ScreenAgrees
<1>4. /\ work' \in [Sessions -> Works]
      /\ \A x \in Sessions :
           work'[x] = work[x] \/ (work[x] = "none" /\ work'[x] = "stopping")
  BY <1>1, <1>3 DEF Scripted, Works
<1>5. PICK q \in Seq(Messages) : q = queue'
  BY DEF Keeps
<1>6. Keeps(calls, queue, calls, q) /\ calls \in Seq(Calls)
  BY <1>1, <1>5 DEF Hardwired
<1>7. PICK m : m = [Stop(why, j.sess) EXCEPT !.then.ref = j.ref]
  OBVIOUS
<1>8. m = [op |-> "stop", then |-> [what |-> why, s |-> s, ref |-> j.ref]]
  <2>1. PICK r : r = j.ref
    OBVIOUS
  <2>2. PICK k : k = [what |-> why, s |-> s, ref |-> 0]
    OBVIOUS
  <2>3. PICK k2 : k2 = [k EXCEPT !.ref = r]
    OBVIOUS
  <2>4. k2 = [what |-> why, s |-> s, ref |-> r]
    BY <2>2, <2>3
  <2>5. PICK c : c = [op |-> "stop", then |-> k]
    OBVIOUS
  <2>6. m = [c EXCEPT !.then = k2]
    BY <1>2, <1>7, <2>1, <2>2, <2>3, <2>5 DEF Stop, Call
  <2>7. m = [op |-> "stop", then |-> k2]
    BY <2>5, <2>6
  <2> QED
    BY <2>1, <2>4, <2>7
<1>9. m \in Stops(Finalizes(s)) /\ m \in Calls
  <2>1. j.ref \in Sessions \cup {0}
    BY DEF Screens
  <2> QED
    BY <1>3, <1>8, <2>1 DEF Stops, Finalizes, Calls, Thens
<1>10. calls' = Append(calls, m)
  BY <1>7 DEF FinalizeStarts
<1>11. NoStop(calls, queue, s) /\ NoStop(calls, queue, 0)
       /\ \A x \in Sessions : OneStop(calls, queue, x)
                              /\ (work[x] # "stopping" => NoStop(calls, queue, x))
  BY <1>1, <1>3, Zenon DEF StopsOnce
<1>12. NoStop(calls, q, s) /\ NoStop(calls, q, 0)
       /\ \A x \in Sessions : OneStop(calls, q, x)
                              /\ (work[x] # "stopping" => NoStop(calls, q, x))
  BY <1>3, <1>6, <1>11 DEF Keeps
<1>13. /\ Append(calls, m) \in Seq(Calls)
       /\ OneStop(Append(calls, m), q, s)
       /\ \A x \in Sessions \cup {0} : x # s =>
            /\ OneStop(calls, q, x) => OneStop(Append(calls, m), q, x)
            /\ NoStop(calls, q, x) => NoStop(Append(calls, m), q, x)
  BY <1>3, <1>6, <1>9, <1>12, AskKeepsOne, SessionsAbove
<1>14. NoStop(calls', q, 0)
  BY <1>3, <1>10, <1>12, <1>13, SessionsAbove
<1>15. ASSUME NEW x \in Sessions
       PROVE  OneStop(calls', q, x) /\ (work'[x] # "stopping" => NoStop(calls', q, x))
  <2>1. CASE x = s
    BY <1>1, <1>3, <1>10, <1>13, <2>1 DEF Scripted
  <2>2. CASE x # s
    <3>1. work'[x] = work[x]
      BY <1>1, <1>3, <2>2 DEF Scripted
    <3> QED
      BY <1>10, <1>12, <1>13, <2>2, <3>1
  <2> QED
    BY <2>1, <2>2
<1>16. StopsOnce'
  BY <1>5, <1>14, <1>15, Zenon DEF StopsOnce
<1>17. Follows(calls, calls') /\ calls' \in Seq(Calls) /\ queue' \in Seq(Messages)
  BY <1>5, <1>6, <1>9, <1>10, <1>13, AppendFollows
<1> QED
  BY <1>4, <1>16, <1>17

\* What a step shows whose finalize begins.
LEMMA FinalizeKeeps ==
  ASSUME IInv, Elsewhere, Keeps(calls, queue, calls, queue'),
         UNCHANGED <<ticket, credit, faults, mishap, pending, retry, oos>>,
         js' \in Screens, js'.screen = js.screen, js'.sess = js.sess, box' \in Boxes,
         ShouldFinalize(js'), NEW why \in {"finalize", "cancel"}, FinalizeStarts(js', why)
  PROVE  IInv'
<1>1. Hardwired /\ Scripted /\ ScreenAgrees /\ RefsAgree
  BY IsScripted
<1>2. PICK j \in Screens : j = js'
  OBVIOUS
<1>3. /\ work' \in [Sessions -> Works]
      /\ \A s \in Sessions :
           work'[s] = work[s] \/ (work[s] = "none" /\ work'[s] = "stopping")
      /\ calls' \in Seq(Calls) /\ queue' \in Seq(Messages) /\ Follows(calls, calls')
      /\ StopsOnce'
  BY <1>2, FinalizeAsked
<1>4. Hardwired'
  <2>1. faults' \in 0..MaxFaults /\ mishap' \in [Sessions -> SUBSET Mishaps]
    BY <1>1 DEF Hardwired
  <2> QED
    BY <1>1, <1>3, <2>1, StillHardwired DEF Elsewhere, device
<1>5. Scripted'
  <2>1. \A s \in Sessions : work'[s] = "calling" => work[s] = "calling"
    BY <1>3
  <2> QED
    BY <1>1, <1>3, <2>1 DEF Scripted
<1>6. \A s \in Sessions : work'[s] \in Early => work[s] \in Early
  BY <1>3 DEF Early
<1>7. RefsAgree'
  BY <1>1, <1>6, RefsKept
<1>8. ScreenAgrees'
  <2>1. SameScreen
    BY <1>3 DEF SameScreen
  <2> QED
    BY <1>1, <2>1, SameScreenAgrees
<1> QED
  BY <1>3, <1>4, <1>5, <1>7, <1>8, Assembled

LEMMA HandleKeeps ==
  ASSUME IInv, HandleEvent
  PROVE  IInv'
<1>1. Hardwired /\ Scripted /\ ScreenAgrees
  BY IsScripted
<1>2. /\ Elsewhere
      /\ UNCHANGED <<ticket, credit, faults, mishap, pending, retry, oos>>
      /\ queue # <<>> /\ Head(queue).k # "result" /\ queue' = Tail(queue)
  BY DEF HandleEvent, Elsewhere, device, history
<1>3. calls \in Seq(Calls) /\ queue \in Seq(Messages)
  BY <1>1 DEF Hardwired
<1>4. Keeps(calls, queue, calls, queue')
  BY <1>2, <1>3, HandledKeeps
<1>5. PICK e \in Events : e = Head(queue)
  <2>1. PICK h \in Messages : h = Head(queue)
    BY <1>2, <1>3
  <2>2. h \in Events
    BY <1>2, <2>1 DEF Messages, Results
  <2> QED
    BY <2>1, <2>2
<1>6. js' = Handled(e)
  BY <1>5 DEF HandleEvent
<1>7. js' \in Screens /\ js'.screen = js.screen /\ js'.sess = js.sess
  <2>1. e.total \in Nat
    BY DEF Events
  <2>2. PICK f \in BOOLEAN : f = InFlightAfter(e.k)
    <3>1. js.inFlight \in BOOLEAN
      BY <1>1 DEF Scripted, Screens
    <3> QED
      BY <3>1 DEF InFlightAfter
  <2>3. PICK o \in BOOLEAN : o = CASE e.k = "overpayPending" -> TRUE
                                   [] e.k \in {"collecting", "stacked", "returned"} -> FALSE
                                   [] OTHER -> js.overpay
    <3>1. js.overpay \in BOOLEAN
      BY <1>1 DEF Scripted, Screens
    <3> QED
      BY <3>1
  <2>4. PICK n \in Nat :
          n = IF e.k \in {"escrowPending", "accepted"} THEN js.collected ELSE e.total
    BY <1>1, <2>1 DEF Scripted, Screens
  <2>5. js' = [js EXCEPT !.inFlight = f, !.collected = n, !.overpay = o]
    BY <1>6, <2>2, <2>3, <2>4 DEF Handled
  <2> QED
    BY <1>1, <2>5 DEF Scripted, Screens
<1>8. box' \in Boxes
  <2>1. /\ onBillStacked(box, e.amount, e.inFlight) \in Boxes
        /\ onBillReturned(box, e.amount) \in Boxes /\ flushPending(box) \in Boxes
    BY <1>1, BoxTyped DEF Scripted
  <2>2. box' \in {onBillStacked(box, e.amount, e.inFlight), onBillReturned(box, e.amount),
                  flushPending(box), box}
    BY <1>5 DEF HandleEvent
  <2> QED
    BY <1>1, <2>1, <2>2 DEF Scripted
<1>9. CASE e.k = "collectComplete" /\ ShouldFinalize(js')
  <2>1. FinalizeStarts(js', "finalize")
    BY <1>5, <1>6, <1>9 DEF HandleEvent
  <2> QED
    BY <1>2, <1>4, <1>7, <1>8, <1>9, <2>1, FinalizeKeeps
<1>10. CASE ~(e.k = "collectComplete" /\ ShouldFinalize(js'))
  <2>1. UNCHANGED <<work, calls>>
    BY <1>5, <1>6, <1>10 DEF HandleEvent
  <2>2. Keeps(calls, queue, calls', queue') /\ Follows(calls, calls')
    BY <1>4, <2>1, FollowsItself
  <2>3. ScreenAgrees'
    BY <1>1, <1>7, <2>1, SameScreenAgrees DEF SameScreen
  <2>4. /\ work' \in [Sessions -> Works] /\ oos' \in BOOLEAN
        /\ faults' \in 0..MaxFaults /\ mishap' \in [Sessions -> SUBSET Mishaps]
    BY <1>1, <1>2, <2>1 DEF Hardwired, Scripted
  <2> QED
    BY <1>2, <1>7, <1>8, <2>1, <2>2, <2>3, <2>4, ScriptKeeps
<1> QED
  BY <1>9, <1>10

LEMMA CancelKeeps ==
  ASSUME IInv, ExecuteCancel
  PROVE  IInv'
<1>1. Hardwired /\ Scripted
  BY IsScripted
<1>2. UNCHANGED <<js, mishap>> /\ Free
  BY DEF ExecuteCancel
<1>3. js' \in Screens /\ js'.screen = js.screen /\ js'.sess = js.sess
  BY <1>1, <1>2 DEF Scripted
<1>4. CASE js.collected > 0 /\ ShouldFinalize(js)
  <2>1. FinalizeStarts(js', "cancel") /\ ShouldFinalize(js')
    <3>1. js' = js
      BY <1>2
    <3>2. FinalizeStarts(js, "cancel")
      BY <1>4 DEF ExecuteCancel
    <3> QED
      BY <1>4, <3>1, <3>2 DEF FinalizeStarts, ShouldFinalize
  <2>2. /\ Elsewhere
        /\ UNCHANGED <<queue, ticket, credit, faults, mishap, pending, retry, oos, box>>
    BY <1>2 DEF Free, Elsewhere, device
  <2>3. Keeps(calls, queue, calls, queue') /\ box' \in Boxes
    BY <1>1, <2>2, KeepsItself DEF Hardwired, Scripted
  <2> QED
    BY <1>3, <2>1, <2>2, <2>3, FinalizeKeeps
<1>5. CASE ~(js.collected > 0 /\ ShouldFinalize(js))
  <2>1. calls' = Append(calls, Stop("leave", js.sess)) /\ UNCHANGED work
    BY <1>5 DEF ExecuteCancel
  <2> QED
    BY <1>2, <1>3, <2>1, StopTouchKeeps
<1> QED
  BY <1>4, <1>5

\* The stop a finalize waited for: its session is stopping, waits for no other,
\* and nothing has been sent for it.
LEMMA StopWaitedFor ==
  ASSUME IInv, NEW what \in {"finalize", "cancel"}, Resolved(what)
  PROVE  /\ Of.s \in Sessions /\ work[Of.s] = "stopping"
         /\ OneStop(calls, queue', Of.s) /\ NoStop(calls, queue', Of.s)
<1>1. Hardwired /\ StopsOnce
  BY IsScripted
<1>2. /\ queue' \in Seq(Messages) /\ Of \in Thens /\ Of.what = what
      /\ Head(queue) = [k |-> "result", then |-> Of]
  BY <1>1, ResolvedKeeps
<1>3. /\ calls \in Seq(Calls) /\ queue \in Seq(Messages) /\ queue # <<>>
      /\ queue' = Tail(queue)
  BY <1>1 DEF Hardwired, Resolved
<1>4. PICK s \in Sessions \cup {0} : s = Of.s
  BY <1>2 DEF Thens
<1>5. Head(queue) \in Results(Finalizes(s))
  <2>1. PICK o \in Thens : o = Of
    BY <1>2
  <2>2. o \in Finalizes(s)
    BY <1>2, <1>4, <2>1 DEF Thens, Finalizes
  <2> QED
    BY <1>2, <2>1, <2>2 DEF Results
<1>6. 1 \in StopDone(queue, s)
  BY <1>3, <1>5, PlacesTail DEF StopDone
<1>7. s \in Sessions /\ work[s] = "stopping" /\ OneStop(calls, queue, s)
  BY <1>1, <1>6, Zenon DEF StopsOnce, NoStop
<1>8. StopAsked(calls, s) = {} /\ AtMostOne(StopDone(queue, s))
  BY <1>6, <1>7, Zenon DEF OneStop
<1>9. StopDone(queue', s) = {}
  BY <1>3, <1>5, <1>8, TailKeepsOne DEF StopDone
<1>10. NoStop(calls, queue', s) /\ OneStop(calls, queue', s)
  BY <1>8, <1>9 DEF NoStop, OneStop, AtMostOne
<1> QED
  BY <1>4, <1>7, <1>10

LEMMA FinalizedKeeps ==
  ASSUME IInv, NEW what \in {"finalize", "cancel"}, Resolved(what), NEW cancelled,
         Finalized(Of.s, Of.ref, cancelled), Elsewhere,
         UNCHANGED <<faults, retry, oos, ticket>>
  PROVE  IInv'
<1>1. Hardwired /\ Scripted /\ ScreenAgrees /\ StopsOnce /\ RefsAgree
  BY IsScripted
<1>2. PICK s \in Sessions : s = Of.s
  BY StopWaitedFor
<1>3. work[s] = "stopping" /\ NoStop(calls, queue', s) /\ OneStop(calls, queue', s)
  BY <1>2, StopWaitedFor
<1>4. Keeps(calls, queue, calls, queue') /\ queue' \in Seq(Messages) /\ calls \in Seq(Calls)
  BY <1>1, ResolvedKeeps DEF Hardwired
<1>5. PICK n \in Nat : n = CreditAmount(js)
  BY <1>1 DEF Scripted, Screens, CreditAmount
<1>6. box' \in Boxes
  BY <1>1, BoxTyped DEF Scripted, Finalized
<1>7. ticket[s] = 0 /\ pending.ref # s /\ retry.ref # s
  BY <1>1, <1>3 DEF RefsAgree
\* No session but s has its stop, nor its work, changed.
<1>8. ASSUME NEW w \in Works, w # "recovering", work' = [work EXCEPT ![s] = w],
             Keeps(calls, queue', calls', queue'), js'.screen = js.screen, js'.sess = js.sess
      PROVE  /\ work' \in [Sessions -> Works] /\ StopsOnce' /\ ScreenAgrees'
  <2>1. work' \in [Sessions -> Works] /\ work'[s] = w
        /\ \A x \in Sessions : x # s => work'[x] = work[x]
    BY <1>1, <1>8 DEF Scripted
  <2>2. Keeps(calls, queue, calls', queue')
    BY <1>4, <1>8, KeepsTransitive
  <2>3. ASSUME NEW x \in Sessions
        PROVE  /\ OneStop(calls', queue', x)
               /\ work'[x] # "stopping" => NoStop(calls', queue', x)
    <3>1. CASE x = s
      BY <1>3, <1>8, <3>1 DEF Keeps
    <3>2. CASE x # s
      BY <1>1, <2>1, <2>2, <3>2, Zenon DEF StopsOnce, Keeps
    <3> QED
      BY <3>1, <3>2
  <2>4. NoStop(calls', queue', 0)
    BY <1>1, <2>2, Zenon DEF StopsOnce, Keeps
  <2>5. StopsOnce'
    BY <2>3, <2>4, Zenon DEF StopsOnce
  <2>6. \A x \in Sessions : work[x] = "recovering" => work'[x] = "recovering"
    BY <1>3, <2>1
  <2>7. ScreenAgrees'
    BY <1>1, <1>8, <2>6, SameScreenAgrees DEF SameScreen
  <2> QED
    BY <2>1, <2>5, <2>7
<1>9. CASE n > 0 /\ Of.ref # 0
  <2>1. /\ js' = Stopped /\ work' = [work EXCEPT ![s] = "calling"] /\ calls' = calls
        /\ credit' = [credit EXCEPT ![s] = n] /\ pending' = [ref |-> s, amount |-> n]
        /\ mishap' = Lost(pending, s, "overwritten")
    BY <1>2, <1>5, <1>9 DEF Finalized, Pending
  <2>2. js' \in Screens /\ js'.screen = js.screen /\ js'.sess = js.sess
    BY <1>1, <2>1 DEF Stopped, Scripted, Screens
  <2>3. Keeps(calls, queue', calls', queue') /\ Follows(calls, calls') /\ calls' \in Seq(Calls)
    BY <1>4, <2>1, KeepsItself, FollowsItself
  <2>4. "calling" \in Works
    BY DEF Works
  <2>5. work' \in [Sessions -> Works] /\ StopsOnce' /\ ScreenAgrees'
    BY <1>8, <2>1, <2>2, <2>3, <2>4
  <2>6. mishap' \in [Sessions -> SUBSET Mishaps]
    <3>1. "overwritten" \in Mishaps
      BY DEF Mishaps
    <3> QED
      BY <1>1, <2>1, <3>1, LostTyped DEF Hardwired
  <2>7. Hardwired'
    <3>1. faults' \in 0..MaxFaults
      BY <1>1 DEF Hardwired
    <3> QED
      BY <1>1, <1>4, <2>3, <2>6, <3>1, StillHardwired DEF Elsewhere, device
  <2>8. credit' \in [Sessions -> Nat] /\ credit'[s] = n
        /\ \A x \in Sessions : x # s => credit'[x] = credit[x] /\ work'[x] = work[x]
    BY <1>1, <2>1 DEF Scripted
  <2>9. Scripted'
    <3>1. \A x \in Sessions : work'[x] = "calling" => credit'[x] > 0
      BY <1>1, <1>9, <2>8 DEF Scripted
    <3>2. pending' \in Slot
      BY <1>9, <2>1 DEF Slot
    <3> QED
      BY <1>1, <1>6, <2>2, <2>5, <2>8, <3>1, <3>2 DEF Scripted
  <2>10. RefsAgree'
    <3>1. work'[s] = "calling"
      BY <1>1, <2>1 DEF Scripted
    <3>2. \A x \in Sessions : work'[x] \in {"none", "stopping"} =>
            ticket'[x] = 0 /\ pending'.ref # x /\ retry'.ref # x
      BY <1>1, <2>1, <2>8, <3>1 DEF RefsAgree
    <3>3. \A x \in Sessions : ticket'[x] \in {0, credit'[x]}
      BY <1>1, <1>7, <2>8 DEF RefsAgree
    <3>4. pending'.amount = credit'[pending'.ref]
      BY <2>1, <2>8
    <3>5. retry' # None => retry'.amount = credit'[retry'.ref]
      <4>1. retry # None => retry.ref \in Sessions /\ retry.ref # s
                            /\ retry.amount = credit[retry.ref]
        BY <1>1, <1>7 DEF RefsAgree, Scripted, Slot
      <4> QED
        BY <2>8, <4>1
    <3> QED
      BY <3>2, <3>3, <3>4, <3>5 DEF RefsAgree
  <2> QED
    BY <2>5, <2>7, <2>9, <2>10, Assembled
<1>10. CASE ~(n > 0 /\ Of.ref # 0)
  <2>1. /\ js' = ResetSession(js) /\ work' = [work EXCEPT ![s] = "none"]
        /\ mishap' = ResetBy(s) /\ UNCHANGED <<credit, pending>>
        /\ calls' \in {calls, Append(calls, Stop("leave", s))}
    BY <1>2, <1>5, <1>10 DEF Finalized
  <2>2. js' \in Screens /\ js'.screen = js.screen /\ js'.sess = js.sess
    BY <1>1, <2>1, ResetTyped DEF Scripted
  <2>3. Keeps(calls, queue', calls', queue') /\ Follows(calls, calls')
    <3>1. PICK q \in Seq(Messages) : q = queue'
      BY <1>4
    <3>2. Keeps(calls, q, calls, q) /\ Follows(calls, calls)
      BY <1>4, KeepsItself, FollowsItself
    <3>3. /\ Keeps(calls, q, Append(calls, Stop("leave", s)), q)
          /\ Follows(calls, Append(calls, Stop("leave", s)))
      BY <1>1, <1>4, StopCall
    <3> QED
      BY <2>1, <3>1, <3>2, <3>3
  <2>4. calls' \in Seq(Calls)
    BY <2>3 DEF Keeps
  <2>5. "none" \in Works
    BY DEF Works
  <2>6. work' \in [Sessions -> Works] /\ StopsOnce' /\ ScreenAgrees'
    BY <1>8, <2>1, <2>2, <2>3, <2>5
  <2>7. Hardwired'
    <3>1. faults' \in 0..MaxFaults /\ mishap' \in [Sessions -> SUBSET Mishaps]
      BY <1>1, <2>1, ResetByTyped DEF Hardwired
    <3> QED
      BY <1>1, <1>4, <2>3, <2>4, <3>1, StillHardwired DEF Elsewhere, device
  <2>8. \A x \in Sessions : work'[x] = work[x] \/ (x = s /\ work'[x] = "none")
    BY <1>1, <2>1 DEF Scripted
  <2>9. Scripted'
    <3>1. \A x \in Sessions : work'[x] = "calling" => credit'[x] > 0
      BY <1>1, <2>1, <2>8 DEF Scripted
    <3> QED
      BY <1>1, <1>6, <2>1, <2>2, <2>6, <3>1 DEF Scripted
  <2>10. \A x \in Sessions : work'[x] \in Early => work[x] \in Early
    BY <1>3, <2>8 DEF Early
  <2>11. RefsAgree'
    BY <1>1, <2>1, <2>10, RefsKept
  <2> QED
    BY <2>6, <2>7, <2>9, <2>11, Assembled
<1> QED
  BY <1>9, <1>10

LEMMA AfterFinalizeKeeps ==
  ASSUME IInv, AfterFinalizeStop
  PROVE  IInv'
<1>1. Elsewhere /\ UNCHANGED <<faults, retry, oos, ticket>>
  BY DEF AfterFinalizeStop, Elsewhere, device
<1>2. CASE Resolved("finalize") /\ Finalized(Of.s, Of.ref, FALSE)
  BY <1>1, <1>2, FinalizedKeeps
<1>3. CASE Resolved("cancel") /\ Finalized(Of.s, Of.ref, TRUE)
  BY <1>1, <1>3, FinalizedKeeps
<1> QED
  BY <1>2, <1>3 DEF AfterFinalizeStop

----------------------------------------------------------------------------
(* The application starts, and starts again *)

LEMMA NothingUnderWay ==
  /\ <<>> \in Seq(Calls) /\ <<>> \in Seq(Messages) /\ <<>> \in Seq(Bytes)
  /\ \A s \in Sessions \cup {0} : NoStop(<<>>, <<>>, s) /\ OneStop(<<>>, <<>>, s)
<1>1. \A M : Places(<<>>, M) = {}
  BY DEF Places
<1> QED
  BY <1>1 DEF NoStop, OneStop, StopAsked, StopDone, AtMostOne

LEMMA RestartKeeps ==
  ASSUME IInv, Restart
  PROVE  IInv'
<1>1. Hardwired /\ Scripted /\ ScreenAgrees /\ StopsOnce /\ RefsAgree
  BY IsScripted
<1>2. /\ UNCHANGED <<cash, taken, inserted, credit, pending, oos, ticket>>
      /\ reader' = Reset /\ turn' = Idle /\ wire' = <<>> /\ calls' = <<>> /\ queue' = <<>>
      /\ waiting' = "no" /\ settled' = TRUE
      /\ acceptor' = Disable(Decline(acceptor))
  BY DEF Restart, ReaderRestart
<1>3. reader' \in Readers
  BY <1>2 DEF Reset, Readers
<1>4. acceptor' \in Acceptors
  <2>1. PICK a \in Acceptors : a = Decline(acceptor)
    BY <1>1, DeviceTyped DEF Hardwired
  <2> QED
    BY <1>2, <2>1, DeviceTyped
<1>5. mishap' \in [Sessions -> SUBSET Mishaps]
  <2>1. "restart" \in Mishaps
    BY DEF Mishaps
  <2>2. \A x \in Sessions : mishap[x] \in SUBSET Mishaps
    BY <1>1 DEF Hardwired
  <2>3. \A x \in Sessions : mishap[x] \cup {"restart"} \in SUBSET Mishaps
    BY <2>1, <2>2
  <2>4. mishap' = [s \in Sessions |->
          IF work[s] = "stopping" \/ (js.ref = s /\ work[s] = "none")
          THEN mishap[s] \cup {"restart"} ELSE mishap[s]]
    BY DEF Restart
  <2> QED
    BY <2>2, <2>3, <2>4
<1>6. faults' \in 0..MaxFaults /\ turn' \in Turns
  BY <1>1, <1>2, FaultsStay DEF Restart, Hardwired, Turns
<1>7. Hardwired'
  BY <1>1, <1>2, <1>3, <1>4, <1>5, <1>6, NothingUnderWay DEF Hardwired
<1>8. work' = [s \in Sessions |-> IF work[s] = "none" THEN "none" ELSE "done"]
  BY DEF Restart
<1>9. js' \in Screens /\ js'.screen \in {"home", "oos"}
  <2>1. PICK j \in Screens : j = ResetSession(js)
    BY <1>1, ResetTyped DEF Scripted
  <2>2. \E x \in {"home", "oos"} : js' = [j EXCEPT !.screen = x, !.inhibited = FALSE]
    BY <2>1 DEF Restart
  <2> QED
    BY <2>2 DEF Screens
<1>10. box' \in Boxes
  <2>1. box' = [box EXCEPT !.counted = NoBills, !.unsure = NoBills]
    BY DEF Restart
  <2> QED
    BY <1>1, <2>1, NoBillsTyped DEF Scripted, Boxes
<1>11. retry' \in {pending, None} /\ pending' = pending
  BY <1>2 DEF Restart
<1>12. Scripted'
  <2>1. work' \in [Sessions -> Works] /\ \A s \in Sessions : work'[s] # "calling"
    BY <1>8 DEF Works
  <2>2. retry' \in Slot
    BY <1>1, <1>11 DEF Scripted, Slot
  <2> QED
    BY <1>1, <1>2, <1>9, <1>10, <2>1, <2>2 DEF Scripted
<1>13. ScreenAgrees'
  BY <1>9 DEF ScreenAgrees
<1>14. StopsOnce'
  BY <1>2, NothingUnderWay DEF StopsOnce
<1>15. \A s \in Sessions : work'[s] \in Early => work[s] \in Early
  BY <1>8 DEF Early
<1>16. RefsAgree'
  BY <1>1, <1>2, <1>11, <1>15, RefsKept
<1> QED
  BY <1>7, <1>12, <1>13, <1>14, <1>16, Assembled

LEMMA InitEstablishes ==
  ASSUME Init
  PROVE  IInv
<1>1. /\ reader = Reset /\ turn = Idle /\ wire = <<>> /\ calls = <<>> /\ queue = <<>>
      /\ acceptor = [enabled |-> FALSE, at |-> "empty", bill |-> 0, s |-> 0, now |-> 0]
      /\ waiting = "no" /\ settled = TRUE /\ inserted = 0 /\ faults = 0
      /\ cash = [s \in Sessions |-> NoBills] /\ taken = cash
      /\ mishap = [s \in Sessions |-> {}]
  BY DEF Init, ReaderInit
<1>2. Hardwired
  <2>1. reader \in Readers /\ acceptor \in Acceptors /\ turn \in Turns
    BY <1>1 DEF Readers, Reset, Acceptors, Turns
  <2>2. cash \in [Sessions -> Counts] /\ taken \in [Sessions -> Counts]
    BY <1>1, NoBillsTyped
  <2>3. mishap \in [Sessions -> SUBSET Mishaps]
    BY <1>1
  <2>4. inserted \in 0..MaxBills /\ faults \in 0..MaxFaults
    <3>1. MaxBills \in Nat /\ MaxFaults \in Nat
      BY ReaderAssumption
    <3> QED
      BY <1>1, <3>1
  <2> QED
    BY <1>1, <2>1, <2>2, <2>3, <2>4, NothingUnderWay DEF Hardwired
<1>3. Scripted
  <2>1. js \in Screens /\ box \in Boxes
    BY NoBillsTyped DEF Init, Screens, Boxes
  <2> QED
    BY <2>1 DEF Init, Scripted, Works, Slot
<1>4. ScreenAgrees
  BY DEF Init, ScreenAgrees
<1>5. StopsOnce
  BY <1>1, NothingUnderWay DEF StopsOnce
<1>6. RefsAgree
  BY SessionsAbove DEF Init, RefsAgree, None
<1> QED
  BY <1>2, <1>3, <1>4, <1>5, <1>6 DEF IInv, TypeOK, MessagesOK, Hardwired, Scripted, Messages

----------------------------------------------------------------------------
(* The theorems *)

LEMMA NextKeeps ==
  ASSUME IInv, [Next]_vars
  PROVE  IInv'
<1>1. CASE Hardware
  BY <1>1, HardwareKeepsIInv
<1>2. CASE Customer
  <2>1. CASE \E t \in Targets : SelectCash(t)
    BY <2>1, SelectKeeps
  <2>2. CASE Back
    BY <2>2, BackKeeps
  <2>3. CASE Cancel \/ IdleExpires
    BY <2>3, CancelKeeps DEF Cancel, IdleExpires
  <2>4. CASE InhibitAccepting
    BY <2>4, InhibitKeeps
  <2>5. CASE FinishAndLogout
    BY <2>5, FinishKeeps
  <2>6. CASE AnswerOverpay("accept") \/ AnswerOverpay("return")
    BY <2>6, AnswerKeeps
  <2> QED
    BY <1>2, <2>1, <2>2, <2>3, <2>4, <2>5, <2>6 DEF Customer
<1>3. CASE Script
  BY <1>3, HandleKeeps, AfterStopKeeps, AfterFinalizeKeeps, AfterBackKeeps, AfterLeaveKeeps
     DEF Script
<1>4. CASE Api
  <2>1. CASE \E s \in Sessions :
               \/ CallReturns(s) \/ Refreshed(s) \/ CallFails(s) \/ EnterOutOfService(s)
    BY <2>1, ReturnsKeeps, RefreshedKeeps, LockKeeps
  <2>2. CASE \E q \in Request : ServerCredits(q)
    BY <2>2, CreditKeeps
  <2>3. CASE RetryReturns \/ RetryFails
    BY <2>3, RetryKeeps
  <2> QED
    BY <1>4, <2>1, <2>2, <2>3 DEF Api
<1>5. CASE HandleUnlock
  BY <1>5, UnlockKeeps
<1>6. CASE ResumeApp
  BY <1>6, ResumeKeeps
<1>7. CASE Restart
  BY <1>7, RestartKeeps
<1>8. CASE UNCHANGED vars
  <2>1. UNCHANGED <<reader, turn, acceptor, wire, calls, waiting, settled, queue, cash, taken,
                    inserted, faults, mishap, js, work, credit, pending, retry, oos, box, ticket>>
    BY <1>8 DEF vars, readerVars
  <2> QED
    BY <2>1 DEF IInv, TypeOK, MessagesOK, ScreenAgrees, StopsOnce, RefsAgree
<1> QED
  BY <1>1, <1>2, <1>3, <1>4, <1>5, <1>6, <1>7, <1>8 DEF Next

\* The inductive invariant holds in every state of a run, for every set of
\* bills, of targets and of sessions and every bound.
THEOREM Invariance == Spec => []IInv
<1>1. Init => IInv
  BY InitEstablishes
<1>2. IInv /\ [Next]_vars => IInv'
  BY NextKeeps
<1> QED
  BY <1>1, <1>2, PTL DEF Spec

\* Types: what is kept or sent to be credited is an amount above nothing of a
\* session that was begun, and only a stop makes the plug-in's thread wait.
THEOREM TypeCorrect == Spec => []TypeOK
<1>1. IInv => TypeOK
  BY DEF IInv
<1> QED
  BY <1>1, Invariance, PTL

\* A session waits for at most one stop: the credit of a session is set by one
\* finalize, however its calls and results travel between script and plug-in.
THEOREM StopsAreOnce == Spec => []StopsOnce
<1>1. IInv => StopsOnce
  BY DEF IInv
<1> QED
  BY <1>1, Invariance, PTL

LEMMA AmountsAgree == IInv => RefHasOneAmount
<1> SUFFICES ASSUME IInv PROVE RefHasOneAmount
  OBVIOUS
<1>1. Scripted /\ RefsAgree
  BY IsScripted
<1>2. ASSUME NEW slot \in {pending, retry}, slot # None
      PROVE  ticket[slot.ref] \in {0, slot.amount}
  <2>1. slot.ref \in Sessions /\ slot.amount = credit[slot.ref]
    BY <1>1, <1>2 DEF Scripted, Slot, RefsAgree
  <2> QED
    BY <1>1, <2>1 DEF RefsAgree
<1>3. ASSUME NEW s \in Sessions, NEW q, q = [ref |-> s, amount |-> credit[s]]
      PROVE  ticket[q.ref] \in {0, q.amount}
  BY <1>1, <1>3 DEF RefsAgree
<1> QED
  BY <1>2, <1>3 DEF RefHasOneAmount, Request

\* A ref stands for one amount: retries, lost answers, a restart and a second
\* customer included, whatever is sent or kept to be sent again is what the
\* server has credited under that ref, if it has.
THEOREM OneAmountPerRef == Spec => []RefHasOneAmount
  BY Invariance, AmountsAgree, PTL

----------------------------------------------------------------------------
(* What bills are worth *)

LEMMA WorthType ==
  ASSUME NEW g \in Counts
  PROVE  Worth(g) \in Nat /\ [v \in Bills |-> v * g[v]] \in [Bills -> Nat]
<1>1. IsFiniteSet(Bills) /\ \A v \in Bills : v \in Nat
  BY ReaderAssumption
<1>2. \A v \in Bills : v * g[v] \in Nat
  <2> SUFFICES ASSUME NEW v \in Bills PROVE v * g[v] \in Nat
    OBVIOUS
  <2>1. v \in Nat /\ g[v] \in Nat
    BY <1>1 DEF Counts
  <2> QED
    BY <2>1
<1>3. [v \in Bills |-> v * g[v]] \in [Bills -> Nat]
  BY <1>2
<1> QED
  BY <1>1, <1>3, SumType DEF Worth

\* One more bill is worth so much more.
LEMMA WorthOfOneMore ==
  ASSUME NEW g \in Counts, NEW v \in Bills
  PROVE  Worth(Plus(g, v)) = Worth(g) + v
<1> DEFINE f == [x \in Bills |-> x * g[x]]
           h == [x \in Bills |-> x * Plus(g, v)[x]]
<1>1. Plus(g, v) \in Counts
  BY CountTyped
<1>2. f \in [Bills -> Nat] /\ h \in [Bills -> Nat]
  BY <1>1, WorthType
<1>3. IsFiniteSet(Bills) /\ v \in Nat /\ g[v] \in Nat
  BY ReaderAssumption DEF Counts
<1>4. \A x \in Bills : x # v => h[x] = f[x]
  BY DEF Plus, Counts
<1>5. h[v] = v * (g[v] + 1)
  BY DEF Plus, Counts
<1>6. f[v] = v * g[v]
  OBVIOUS
<1>7. Worth(g) = Sum(f) /\ Worth(Plus(g, v)) = Sum(h)
  BY DEF Worth
<1> HIDE DEF f, h
<1>8. Sum(h) = Sum(f) - f[v] + h[v] /\ Sum(f) \in Nat /\ Sum(h) \in Nat
  <2>1. PICK B, F, H : B = Bills /\ F = f /\ H = h
    OBVIOUS
  <2>2. IsFiniteSet(B) /\ v \in B /\ F \in [B -> Nat] /\ H \in [B -> Nat]
    BY <1>2, <1>3, <2>1
  <2>3. \A x \in B : x # v => H[x] = F[x]
    BY <1>4, <2>1
  <2>4. Sum(H) = Sum(F) - F[v] + H[v] /\ Sum(F) \in Nat /\ Sum(H) \in Nat
    BY <2>2, <2>3, SumChanges
  <2>5. QED
    BY <2>1, <2>4
<1>9. h[v] = f[v] + v /\ f[v] \in Nat
  BY <1>2, <1>3, <1>5, <1>6
<1> QED
  BY <1>3, <1>7, <1>8, <1>9

LEMMA NoBillsWorth == Worth(NoBills) = 0
<1>1. \A v \in Bills : v * NoBills[v] = 0
  BY InBaht DEF NoBills
<1> QED
  BY <1>1, SumZero DEF Worth

\* So are the bills of a session, and of a denomination.
LEMMA OneMoreWorth ==
  ASSUME NEW f \in [Sessions -> Counts], NEW s \in Sessions, NEW v \in Bills
  PROVE  /\ Worth(OneMore(f, s, v)[s]) = Worth(f[s]) + v
         /\ \A x \in Sessions : x # s => OneMore(f, s, v)[x] = f[x]
<1>1. OneMore(f, s, v)[s] = Plus(f[s], v) /\ f[s] \in Counts
  BY DEF OneMore
<1>2. \A x \in Sessions : x # s => OneMore(f, s, v)[x] = f[x]
  BY DEF OneMore
<1> QED
  BY <1>1, <1>2, WorthOfOneMore

LEMMA TotalType ==
  ASSUME NEW f \in [Sessions -> Counts], NEW v \in Bills
  PROVE  Total(f, v) \in Nat /\ [s \in Sessions |-> f[s][v]] \in [Sessions -> Nat]
<1>1. IsFiniteSet(Sessions)
  BY ReaderAssumption
<1>2. [s \in Sessions |-> f[s][v]] \in [Sessions -> Nat]
  BY DEF Counts
<1> QED
  BY <1>1, <1>2, SumType DEF Total

LEMMA OneMoreTotal ==
  ASSUME NEW f \in [Sessions -> Counts], NEW s \in Sessions, NEW v \in Bills, NEW w \in Bills
  PROVE  Total(OneMore(f, s, v), w) = Total(f, w) + (IF w = v THEN 1 ELSE 0)
<1> DEFINE g == OneMore(f, s, v)
           a == [x \in Sessions |-> f[x][w]]
           b == [x \in Sessions |-> g[x][w]]
<1>1. g \in [Sessions -> Counts]
  BY OneMoreTyped
<1>2. a \in [Sessions -> Nat] /\ b \in [Sessions -> Nat]
  BY <1>1, TotalType
<1>3. \A x \in Sessions : x # s => b[x] = a[x]
  BY DEF OneMore
<1>4. a[s] = f[s][w] /\ b[s] = Plus(f[s], v)[w] /\ f[s] \in Counts
  BY DEF OneMore
<1>5. b[s] = a[s] + (IF w = v THEN 1 ELSE 0)
  BY <1>4 DEF Plus, Counts
<1>6. IsFiniteSet(Sessions)
  BY ReaderAssumption
<1>7. Total(f, w) = Sum(a) /\ Total(g, w) = Sum(b)
  BY DEF Total
<1> HIDE DEF g, a, b
<1>8. Sum(b) = Sum(a) - a[s] + b[s] /\ Sum(a) \in Nat /\ Sum(b) \in Nat
  BY <1>2, <1>3, <1>6, SumChanges
<1>9. a[s] \in Nat
  BY <1>2
<1>10. Total(g, w) = Total(f, w) + (IF w = v THEN 1 ELSE 0)
  BY <1>5, <1>7, <1>8, <1>9
<1> QED
  BY <1>10 DEF g

----------------------------------------------------------------------------
(* The bill in the path of the device *)

\* Wires of a byte or two.
LEMMA AppendToOne ==
  ASSUME NEW x, NEW y
  PROVE  Append(<<x>>, y) = <<x, y>>
<1> DEFINE S == {x, y}  q == <<x>> r == <<x, y>>
<1>1. q \in Seq(S) /\ Len(q) = 1 /\ q[1] = x /\ r \in Seq(S) /\ Len(r) = 2 /\ r[1] = x /\ r[2] = y /\ y \in S
  OBVIOUS
<1> HIDE DEF q, r, S
<1>2. /\ Append(q, y) \in Seq(S) /\ Len(Append(q, y)) = 2
      /\ Append(q, y)[1] = x /\ Append(q, y)[2] = y
  <2>1. q \in Seq(S) /\ y \in S
    BY <1>1
  <2>2. PICK p : p = Append(q, y)
    OBVIOUS
  <2>4. /\ p \in Seq(S) /\ Len(p) = Len(q) + 1
        /\ \A i \in 1..Len(q) : p[i] = q[i]
        /\ p[Len(q) + 1] = y
    BY <2>1, <2>2, AppendProperties
  <2>3. Append(q, y)[2] = y
    <3>1. PICK n : n = Len(q) + 1
      OBVIOUS
    <3>2. Append(q, y)[n] = y
      BY <2>2, <2>4, <3>1
    <3>3. n = 2
      BY <1>1, <3>1
    <3> QED
      BY <3>2, <3>3
  <2> QED
    BY <1>1, <2>2, <2>3, <2>4
<1>3. Append(q, y) = r
  <2>1. PICK p : p = Append(q, y)
    OBVIOUS
  <2>2. Len(p) = Len(r) /\ \A i \in 1..Len(p) : p[i] = r[i]
    BY <1>1, <1>2, <2>1
  <2> QED
    BY <1>1, <1>2, <2>1, <2>2, SeqEqual
<1> QED
  BY <1>3 DEF q, r

LEMMA ShortWires ==
  /\ \A x : <<x>>[1] = x /\ Tail(<<x>>) = <<>> /\ <<x>> # <<>> /\ Head(<<x>>) = x
  /\ \A x, y : <<x, y>>[1] = x /\ Tail(<<x, y>>) = <<y>> /\ Append(<<x>>, y) = <<x, y>>
               /\ Head(<<x, y>>) = x /\ <<x, y>> # <<>>
               /\ \A z : <<x, y>> # <<z>>
<1>1. ASSUME NEW x
      PROVE  <<x>>[1] = x /\ Tail(<<x>>) = <<>> /\ <<x>> # <<>> /\ Head(<<x>>) = x
  OBVIOUS
<1>2. ASSUME NEW x, NEW y
      PROVE  /\ <<x, y>>[1] = x /\ Head(<<x, y>>) = x /\ <<x, y>> # <<>>
             /\ \A z : <<x, y>> # <<z>>
  OBVIOUS
<1>3. ASSUME NEW x, NEW y
      PROVE  Tail(<<x, y>>) = <<y>>
  OBVIOUS
<1>4. \A x, y : Append(<<x>>, y) = <<x, y>>
  BY AppendToOne
<1> QED
  BY <1>1, <1>2, <1>3, <1>4, Zenon

LEMMA InsertPath ==
  ASSUME Hardwired, PathAgrees, NEW v \in Bills, InsertBill(v)
  PROVE  PathAgrees'
  BY InBaht DEF Hardwired, PathAgrees, InsertBill, Empty, Stacking, BillByte, Stacked, Returned, Quiescent, Idle, Readers, Acceptors

LEMMA StackPath ==
  ASSUME Hardwired, PathAgrees, StackBill
  PROVE  PathAgrees'
  BY InBaht DEF Hardwired, PathAgrees, StackBill, Emptied, Empty, Stacking, BillByte, Stacked, Returned, Quiescent, Idle, Readers, Acceptors

LEMMA GiveBackPath ==
  ASSUME Hardwired, PathAgrees, GiveBack
  PROVE  PathAgrees'
<1>1. wire = <<>> \/ \E v \in Bills : wire = <<BillByte(v)>>
  BY DEF Hardwired, PathAgrees, GiveBack, Empty, Acceptors
<1>2. CASE wire = <<>>
  BY <1>2, InBaht DEF Hardwired, PathAgrees, GiveBack, Emptied, Empty, Stacking, BillByte, Stacked, Returned, Quiescent, Idle, Readers, Acceptors
<1>3. CASE \E v \in Bills : wire = <<BillByte(v)>>
  <2>1. PICK v \in Bills : wire = <<BillByte(v)>>
    BY <1>3
  <2>2. wire' = <<BillByte(v), Returned>> /\ wire # <<>> /\ wire[1].b = "bill"
    BY <2>1, ShortWires DEF GiveBack, Returned, BillByte
  <2>3. reader.escrow = 0 /\ turn.at # "decide" /\ ~Stacking /\ acceptor.now # 0
    BY <2>2 DEF PathAgrees
  <2>4. /\ wire'[1].b = "bill" /\ wire' # <<>>
        /\ \A x \in Bills : wire' # <<BillByte(x)>>
    BY <2>2, ShortWires DEF BillByte
  <2>5. /\ Empty' /\ ~Stacking' /\ acceptor'.now = acceptor.now
        /\ UNCHANGED <<reader, turn>>
    BY DEF GiveBack, Emptied, Empty, Stacking, Hardwired, Acceptors
  <2> QED
    BY <2>1, <2>2, <2>3, <2>4, <2>5 DEF PathAgrees
<1> QED
  BY <1>1, <1>2, <1>3

\* A byte that is read.
LEMMA ReadPath ==
  ASSUME PathAgrees, NEW b, Byte(b)
  PROVE  /\ b = "bill" => \E v \in Bills : /\ Head(wire) = BillByte(v)
                                           /\ wire' = <<>> \/ wire' = <<Returned>>
                                           /\ wire' = <<>> <=> wire = <<BillByte(v)>>
         /\ b # "bill" => wire' = <<>> /\ wire = <<[b |-> b]>>
         /\ acceptor.now # 0 /\ turn.at = "idle"
<1>1. wire # <<>> /\ Head(wire).b = b /\ wire' = Tail(wire) /\ turn.at = "idle"
  BY DEF Byte
<1>2. acceptor.now # 0
  BY <1>1 DEF PathAgrees
<1>3. \/ wire = <<Stacked>> \/ wire = <<Returned>>
      \/ \E v \in Bills : wire = <<BillByte(v)>> \/ wire = <<BillByte(v), Returned>>
  BY <1>1 DEF PathAgrees
<1>4. CASE wire = <<Stacked>> \/ wire = <<Returned>>
  <2>1. Stacked.b = "stacked" /\ Returned.b = "returned"
    BY DEF Stacked, Returned
  <2> QED
    BY <1>1, <1>2, <1>4, <2>1, ShortWires DEF Stacked, Returned
<1>5. ASSUME NEW v \in Bills, wire = <<BillByte(v)>> \/ wire = <<BillByte(v), Returned>>
      PROVE  /\ b = "bill" /\ Head(wire) = BillByte(v)
             /\ wire' = <<>> \/ wire' = <<Returned>>
             /\ wire' = <<>> <=> wire = <<BillByte(v)>>
  <2>1. Head(wire) = BillByte(v) /\ BillByte(v).b = "bill"
    BY <1>5, ShortWires, Zenon DEF BillByte
  <2>2. wire = <<BillByte(v)>> => wire' = <<>>
    BY <1>1, ShortWires, Zenon
  <2>3. wire = <<BillByte(v), Returned>> => wire' = <<Returned>> /\ wire # <<BillByte(v)>>
    BY <1>1, ShortWires, Zenon
  <2>4. <<Returned>> # <<>>
    OBVIOUS
  <2> QED
    BY <1>1, <1>5, <2>1, <2>2, <2>3, <2>4, Zenon
<1> QED
  BY <1>1, <1>2, <1>3, <1>4, <1>5

LEMMA ReadBillPath ==
  ASSUME Hardwired, PathAgrees, ReadBill
  PROVE  PathAgrees'
<1>1. PICK v \in Bills : /\ Head(wire) = BillByte(v)
                         /\ wire' = <<>> \/ wire' = <<Returned>>
                         /\ wire' = <<>> <=> wire = <<BillByte(v)>>
  BY ReadPath DEF ReadBill
<1>2. acceptor.now # 0 /\ Byte("bill") /\ turn.at = "idle"
  BY ReadPath DEF ReadBill
<1>3. wire # <<>> /\ wire[1].b = "bill" /\ Head(wire).v = v
  BY <1>1, <1>2 DEF Byte, BillByte, Hardwired
<1>4. reader.escrow = 0 /\ ~Stacking
  BY <1>3 DEF PathAgrees
<1>5. Empty => wire' = <<Returned>>
  BY <1>1 DEF PathAgrees
<1>6. ~Empty => acceptor.bill = v /\ wire' = <<>>
  <2>1. ASSUME ~Empty PROVE wire = <<BillByte(acceptor.bill)>>
    BY <1>3, <2>1 DEF PathAgrees
  <2>2. ASSUME ~Empty PROVE acceptor.bill = v
    <3>1. Head(wire) = BillByte(acceptor.bill)
      BY <2>1, <2>2, ShortWires
    <3> QED
      BY <1>1, <3>1 DEF BillByte
  <2> QED
    BY <1>1, <2>1, <2>2
<1>7. acceptor' = acceptor \/ acceptor' = Decline(acceptor)
  BY DEF ReadBill
<1>8. /\ Empty' <=> Empty
      /\ ~Stacking' /\ acceptor'.bill = acceptor.bill /\ acceptor'.now = acceptor.now
  BY <1>4, <1>7 DEF Empty, Stacking, Decline, Holds, Hardwired, Acceptors
<1>9. UNCHANGED reader /\ (turn' = turn \/ turn' = [at |-> "decide", bill |-> v])
  BY <1>3 DEF ReadBill
<1>10. ~Empty => acceptor.bill # 0
  BY DEF PathAgrees
<1>11. wire' # <<>> => wire'[1].b # "bill" /\ \A x \in Bills : wire' # <<BillByte(x)>>
  BY <1>1 DEF Returned, BillByte
<1>12. (turn' = turn /\ turn'.at # "decide") \/ (turn'.at = "decide" /\ turn'.bill = v)
  BY <1>2, <1>9
<1> QED
  BY <1>1, <1>2, <1>4, <1>5, <1>6, <1>8, <1>9, <1>10, <1>11, <1>12 DEF PathAgrees

LEMMA DecidePath ==
  ASSUME Hardwired, PathAgrees, DecideBill
  PROVE  PathAgrees'
<1>1. PICK v : v = turn.bill
  OBVIOUS
<1>2. PICK w : w = Verdict(v)
  OBVIOUS
<1>3. w \in {"decline", "hold", "accept"}
  BY <1>2 DEF Verdict
<1>4. reader'.escrow = v /\ turn'.at = "idle" /\ wire' = wire
  BY <1>1 DEF DecideBill, Hardwired, Readers, Idle
<1>5. acceptor' \in {Decline(acceptor), Hold(acceptor), Accept(acceptor)}
  BY <1>1, <1>2, <1>3 DEF DecideBill
<1>6. turn.at = "decide"
  BY DEF DecideBill
<1>7. ~Stacking /\ acceptor.now # 0 /\ IF Empty THEN wire = <<Returned>> ELSE acceptor.bill = v /\ wire = <<>>
  BY <1>1, <1>6 DEF PathAgrees
<1>8. /\ Empty' <=> Empty
      /\ acceptor'.bill = acceptor.bill /\ acceptor'.now = acceptor.now
      /\ Stacking' => acceptor'.s = acceptor.now /\ ~Empty
  BY <1>5, <1>7 DEF Empty, Stacking, Decline, Hold, Accept, Holds, Hardwired, Acceptors
<1>9. ~Empty => acceptor.bill # 0
  BY DEF PathAgrees
<1>10. wire # <<>> => wire[1].b # "bill" /\ \A x \in Bills : wire # <<BillByte(x)>>
  BY <1>7 DEF Returned, BillByte
<1> QED
  BY <1>4, <1>7, <1>8, <1>9, <1>10 DEF PathAgrees

LEMMA OutcomePath ==
  ASSUME Hardwired, PathAgrees, ReadStacked \/ ReadReturned
  PROVE  PathAgrees'
<1>1. wire' = <<>> /\ acceptor.now # 0
  BY ReadPath DEF ReadStacked, ReadReturned
<1>2. wire # <<>> /\ wire[1].b # "bill"
  <2>1. wire = <<[b |-> "stacked"]>> \/ wire = <<[b |-> "returned"]>>
    BY ReadPath DEF ReadStacked, ReadReturned
  <2> QED
    BY <2>1
<1>3. reader'.escrow = 0 /\ turn'.at = "emit" /\ acceptor' = acceptor
  <2>1. PICK type, total : Settle(type, total)
    BY DEF ReadStacked, ReadReturned
  <2>2. reader'.escrow = 0
    BY <2>1 DEF Settle, Hardwired, Readers
  <2>3. turn'.at = "emit"
    BY <2>1 DEF Settle, Outcome
  <2> QED
    BY <2>1, <2>2, <2>3 DEF Settle
<1>4. Empty
  <2>1. ~Empty => wire = <<>> \/ wire = <<BillByte(acceptor.bill)>>
    BY DEF PathAgrees
  <2>2. wire # <<BillByte(acceptor.bill)>>
    <3>1. <<BillByte(acceptor.bill)>>[1].b = "bill"
      BY DEF BillByte
    <3> QED
      BY <1>2, <3>1
  <2> QED
    BY <1>2, <2>1, <2>2
<1>5. Empty' /\ ~Stacking'
  BY <1>3, <1>4 DEF Empty, Stacking
<1> QED
  BY <1>1, <1>3, <1>5 DEF PathAgrees

\* The path is as it was: the device may have stopped taking bills, given up
\* its bill or been told again what it is told.
LEMMA SamePath ==
  ASSUME PathAgrees, UNCHANGED wire,
         Empty' <=> Empty, Stacking' => Stacking /\ acceptor'.s = acceptor.s,
         acceptor'.bill = acceptor.bill, acceptor'.now = acceptor.now,
         acceptor'.enabled => acceptor.enabled,
         reader'.escrow \in {0, reader.escrow},
         turn'.at = "decide" => turn' = turn
  PROVE  PathAgrees'
  BY DEF PathAgrees

LEMMA EmitPath ==
  ASSUME Hardwired, PathAgrees, EmitOutcome
  PROVE  PathAgrees'
<1>1. acceptor' = acceptor \/ acceptor' = Disable(acceptor)
  BY DEF EmitOutcome
<1>2. /\ Empty' <=> Empty
      /\ Stacking' => Stacking /\ acceptor'.s = acceptor.s
      /\ acceptor'.bill = acceptor.bill /\ acceptor'.now = acceptor.now
      /\ acceptor'.enabled => acceptor.enabled
  BY <1>1 DEF Disable, Empty, Stacking, Hardwired, Acceptors
<1>3. UNCHANGED wire /\ reader'.escrow = reader.escrow /\ turn'.at = "idle"
  BY DEF EmitOutcome, Idle, Hardwired, Readers
<1> QED
  BY <1>2, <1>3, SamePath

\* How the device follows what it is told.
LEMMA DeviceFollows ==
  ASSUME Hardwired, acceptor' \in {acceptor, Disable(acceptor), Decline(acceptor),
                                   Disable(Decline(acceptor))}
  PROVE  /\ Empty' <=> Empty
         /\ Stacking' => Stacking /\ acceptor'.s = acceptor.s
         /\ acceptor'.bill = acceptor.bill /\ acceptor'.now = acceptor.now
         /\ acceptor'.enabled => acceptor.enabled
         /\ acceptor'.s = acceptor.s
         /\ Stacking <=> Stacking'
  BY DEF Disable, Decline, Holds, Empty, Stacking, Hardwired, Acceptors

\* The plug-in's thread stops collecting, with or without a bill in escrow.
LEMMA StopPath ==
  ASSUME Hardwired, PathAgrees,
         StopCollecting \/ StopSettled \/ StopTimesOut \/ ReturnBill
  PROVE  PathAgrees'
<1>1. acceptor' \in {acceptor, Disable(acceptor), Decline(acceptor), Disable(Decline(acceptor))}
  BY DEF StopCollecting, StopSettled, StopTimesOut, ReturnBill
<1>2. UNCHANGED <<wire, turn>>
  BY DEF StopCollecting, StopSettled, StopTimesOut, ReturnBill
<1>3. reader'.escrow \in {0, reader.escrow}
  BY DEF StopCollecting, StopSettled, StopTimesOut, ReturnBill, InFlightCredit, Hardwired, Readers
<1> QED
  BY <1>1, <1>2, <1>3, DeviceFollows, SamePath

LEMMA AcceptPath ==
  ASSUME Hardwired, PathAgrees, AcceptBill
  PROVE  PathAgrees'
<1>1. CASE reader.escrow = 0
  <2>1. UNCHANGED <<reader, acceptor, wire, turn>>
    BY <1>1 DEF AcceptBill
  <2> QED
    BY <2>1 DEF PathAgrees, Empty, Stacking
<1>2. CASE reader.escrow # 0
  <2>1. /\ acceptor' = Accept(acceptor) /\ UNCHANGED <<wire, turn>>
        /\ reader'.escrow = reader.escrow
    BY <1>2 DEF AcceptBill, Hardwired, Readers
  <2>2. /\ Empty' <=> Empty
        /\ acceptor'.bill = acceptor.bill /\ acceptor'.now = acceptor.now
        /\ Stacking' => ~Empty /\ (acceptor'.s = acceptor.now \/ (Stacking /\ acceptor'.s = acceptor.s))
    <3>1. CASE Holds(acceptor)
      <4>1. acceptor' = [acceptor EXCEPT !.at = "stacking", !.s = acceptor.now] /\ ~Empty
        BY <2>1, <3>1 DEF Accept, Holds, Empty
      <4>2. /\ acceptor'.at = "stacking" /\ acceptor'.s = acceptor.now
            /\ acceptor'.bill = acceptor.bill /\ acceptor'.now = acceptor.now
        BY <4>1 DEF Hardwired, Acceptors
      <4> QED
        BY <4>1, <4>2 DEF Empty, Stacking
    <3>2. CASE ~Holds(acceptor)
      <4>1. acceptor' = acceptor
        BY <2>1, <3>2 DEF Accept
      <4> QED
        BY <4>1 DEF Empty, Stacking, Hardwired, Acceptors
    <3> QED
      BY <3>1, <3>2
  <2>3. turn.at # "decide" /\ acceptor.now # 0 /\ ~(wire # <<>> /\ wire[1].b = "bill")
    BY <1>2 DEF PathAgrees
  <2>4. ~Empty => wire = <<>> /\ acceptor.bill = reader.escrow
    <3>1. ASSUME ~Empty PROVE wire = <<>>
      <4>1. <<BillByte(acceptor.bill)>>[1].b = "bill" /\ <<BillByte(acceptor.bill)>> # <<>>
        BY DEF BillByte
      <4> QED
        BY <2>3, <3>1, <4>1 DEF PathAgrees
    <3>2. ASSUME ~Empty PROVE acceptor.bill = reader.escrow
      BY <1>2, <3>2 DEF PathAgrees
    <3> QED
      BY <3>1, <3>2
  <2>5. ~Empty /\ Stacking' => acceptor'.s = acceptor.now
    BY <1>2, <2>2 DEF PathAgrees
  <2> QED
    BY <1>2, <2>1, <2>2, <2>3, <2>4, <2>5 DEF PathAgrees
<1> QED
  BY <1>1, <1>2

LEMMA StartPath ==
  ASSUME Hardwired, PathAgrees, StartCollecting
  PROVE  PathAgrees'
<1>1. PICK n : n = Head(calls).s
  OBVIOUS
<1>2. n # 0
  <2>1. calls \in Seq(Calls) /\ calls # <<>> /\ Head(calls).op = "start"
    BY DEF Hardwired, StartCollecting, Runs
  <2>2. PICK h \in Calls : h = Head(calls)
    BY <2>1
  <2>3. h.s \in Sessions
    BY <2>1, <2>2 DEF Calls, Stops
  <2> QED
    BY <1>1, <2>2, <2>3, SessionsAbove
<1>3. acceptor' = [Enable(acceptor) EXCEPT !.now = n] /\ UNCHANGED <<turn, wire>>
  BY <1>1 DEF StartCollecting
<1>4. reader'.escrow = 0
  BY DEF StartCollecting, Reset
<1>5. /\ Empty' <=> Empty
      /\ Stacking' <=> Stacking
      /\ acceptor'.bill = acceptor.bill /\ acceptor'.now = n /\ acceptor'.s = acceptor.s
  BY <1>3 DEF Enable, Empty, Stacking, Hardwired, Acceptors
<1> QED
  BY <1>2, <1>3, <1>4, <1>5 DEF PathAgrees

\* The device is left with its bill when the application dies.
LEMMA RestartPath ==
  ASSUME Hardwired, PathAgrees, ReaderRestart
  PROVE  PathAgrees'
<1>1. wire' = <<>> /\ reader'.escrow = 0 /\ turn'.at = "idle"
  BY DEF ReaderRestart, Reset, Idle
<1>2. acceptor' = Disable(Decline(acceptor))
  BY DEF ReaderRestart
<1>3. /\ Empty' <=> Empty
      /\ Stacking' => Stacking /\ acceptor'.s = acceptor.s
      /\ acceptor'.bill = acceptor.bill /\ acceptor'.now = acceptor.now
      /\ ~acceptor'.enabled
  BY <1>2 DEF Disable, Decline, Holds, Empty, Stacking, Hardwired, Acceptors
<1>4. \A v : <<BillByte(v)>> # <<>>
  OBVIOUS
<1> QED
  BY <1>1, <1>3, <1>4 DEF PathAgrees

LEMMA HardwarePath ==
  ASSUME Hardwired, PathAgrees, Hardware
  PROVE  PathAgrees'
  BY InsertPath, StackPath, GiveBackPath, ReadBillPath, DecidePath, OutcomePath, EmitPath,
     StopPath, AcceptPath, StartPath, Zenon DEF Hardware, ReaderThread, PluginThread, Device

----------------------------------------------------------------------------
(* What was taken and what is in the box only grow *)

Grown ==
  \A s \in Sessions :
    CashOf(s) <= CashOf(s)' /\ TakenOf(s) <= TakenOf(s)' /\ mishap[s] \subseteq mishap'[s]

LEMMA MoneyTyped ==
  ASSUME Hardwired
  PROVE  \A s \in Sessions : CashOf(s) \in Nat /\ TakenOf(s) \in Nat
<1>1. \A s \in Sessions : cash[s] \in Counts /\ taken[s] \in Counts
  BY DEF Hardwired
<1> QED
  BY <1>1, WorthType DEF CashOf, TakenOf

LEMMA MoneyTypedNext ==
  ASSUME Hardwired'
  PROVE  \A s \in Sessions : CashOf(s)' \in Nat /\ TakenOf(s)' \in Nat
<1>1. \A s \in Sessions : cash'[s] \in Counts /\ taken'[s] \in Counts
  BY DEF Hardwired
<1> QED
  BY <1>1, WorthType DEF CashOf, TakenOf

\* A bill more, of a session.
OneMoreBill(f, g) == \E s \in Sessions : \E v \in Bills : g = OneMore(f, s, v)

LEMMA OneMoreGrows ==
  ASSUME NEW f \in [Sessions -> Counts], NEW g, g = f \/ OneMoreBill(f, g)
  PROVE  /\ \A s \in Sessions : Worth(f[s]) <= Worth(g[s])
         /\ \A v \in Bills : Total(f, v) <= Total(g, v)
<1>1. \A s \in Sessions : f[s] \in Counts /\ Worth(f[s]) \in Nat
  BY WorthType
<1>2. \A v \in Bills : Total(f, v) \in Nat
  BY TotalType
<1>3. CASE g = f
  BY <1>1, <1>2, <1>3
<1>4. CASE OneMoreBill(f, g)
  <2>1. PICK s \in Sessions, v \in Bills : g = OneMore(f, s, v)
    BY <1>4 DEF OneMoreBill
  <2>2. Worth(g[s]) = Worth(f[s]) + v /\ \A x \in Sessions : x # s => g[x] = f[x]
    BY <2>1, OneMoreWorth
  <2>3. v \in Nat
    BY InBaht
  <2>4. \A w \in Bills : Total(g, w) = Total(f, w) + (IF w = v THEN 1 ELSE 0)
    BY <2>1, OneMoreTotal
  <2>5. \A x \in Sessions : Worth(f[x]) <= Worth(g[x])
    BY <1>1, <2>2, <2>3
  <2>6. \A w \in Bills : Total(f, w) <= Total(g, w)
    BY <1>2, <2>4
  <2> QED
    BY <2>5, <2>6
<1> QED
  BY <1>3, <1>4

LEMMA Grows ==
  ASSUME Hardwired, cash' = cash \/ OneMoreBill(cash, cash'),
         taken' = taken \/ OneMoreBill(taken, taken'),
         \A s \in Sessions : mishap[s] \subseteq mishap'[s]
  PROVE  Grown
<1>1. cash \in [Sessions -> Counts] /\ taken \in [Sessions -> Counts]
  BY DEF Hardwired
<1>2. \A s \in Sessions : Worth(cash[s]) <= Worth(cash'[s])
  BY <1>1, OneMoreGrows
<1>3. \A s \in Sessions : Worth(taken[s]) <= Worth(taken'[s])
  BY <1>1, OneMoreGrows
<1> QED
  BY <1>2, <1>3 DEF Grown, CashOf, TakenOf

\* What covers an amount still does.
LEMMA StillCovers ==
  ASSUME Hardwired, Hardwired', Grown, NEW s \in Sessions, NEW n \in Nat, Covers(s, n)
  PROVE  Covers(s, n)'
<1>1. CashOf(s) \in Nat /\ TakenOf(s) \in Nat
  BY MoneyTyped
<1>2. CashOf(s)' \in Nat /\ TakenOf(s)' \in Nat
  BY MoneyTypedNext
<1>3. CashOf(s) <= CashOf(s)' /\ TakenOf(s) <= TakenOf(s)' /\ mishap[s] \subseteq mishap'[s]
  BY DEF Grown
<1>4. n <= TakenOf(s) /\ ("no answer" \notin mishap[s] => n <= CashOf(s))
  BY DEF Covers
<1>5. \A x, y, z \in Nat : x <= y /\ y <= z => x <= z
  OBVIOUS
<1>6. n <= TakenOf(s)'
  BY <1>1, <1>2, <1>3, <1>4, <1>5, Zenon
<1>7. "no answer" \notin mishap'[s] => n <= CashOf(s)'
  BY <1>1, <1>2, <1>3, <1>4, <1>5, Zenon
<1> QED
  BY <1>6, <1>7 DEF Covers

LEMMA StillCovered ==
  ASSUME Hardwired, Hardwired', Grown, NEW s, NEW n \in Nat, Covered(s, n)
  PROVE  Covered(s, n)'
<1> SUFFICES ASSUME s \in Sessions PROVE "strayed" \in mishap'[s] \/ Covers(s, n)'
  BY DEF Covered
<1>1. mishap[s] \subseteq mishap'[s]
  BY DEF Grown
<1> QED
  BY <1>1, StillCovers DEF Covered

LEMMA BlameGrows ==
  ASSUME Hardwired, NEW x, NEW how, mishap' = Blame(x, how)
  PROVE  /\ \A s \in Sessions : mishap[s] \subseteq mishap'[s]
         /\ x \in Sessions => how \in mishap'[x]
  BY DEF Hardwired, Blame

LEMMA HardwareGrows ==
  ASSUME Hardwired, PathAgrees, Hardware
  PROVE  Grown
<1>1. ~Empty => acceptor.bill \in Bills
  BY DEF PathAgrees, Hardwired, Acceptors
<1>2. cash' = cash \/ OneMoreBill(cash, cash')
  <2>1. CASE StackBill
    <3>1. Stacking /\ ~Empty /\ acceptor.s \in Sessions
      BY <2>1 DEF StackBill, Stacking, Empty, PathAgrees, Hardwired, Acceptors
    <3> QED
      BY <1>1, <2>1, <3>1 DEF StackBill, OneMoreBill
  <2>2. CASE ~StackBill
    BY <2>2 DEF Hardware, ReaderThread, PluginThread, Device, InsertBill, GiveBack, ReadBill,
                DecideBill, ReadStacked, ReadReturned, Settle, EmitOutcome, StartCollecting,
                StopCollecting, StopSettled, StopTimesOut, AcceptBill, ReturnBill, history
  <2> QED
    BY <2>1, <2>2
<1>3. taken' = taken \/ OneMoreBill(taken, taken')
  <2>1. CASE DecideBill
    <3>1. turn.at = "decide" /\ turn \in Turns
      BY <2>1 DEF DecideBill, Hardwired
    <3>2. turn.bill \in Bills
      BY <3>1 DEF Turns, Idle
    <3>3. acceptor.now \in Sessions
      BY <3>1 DEF PathAgrees, Hardwired, Acceptors
    <3> QED
      BY <2>1, <3>2, <3>3 DEF DecideBill, OneMoreBill
  <2>2. CASE AcceptBill
    <3>1. CASE reader.escrow = 0
      BY <2>2, <3>1 DEF AcceptBill
    <3>2. CASE reader.escrow # 0
      <4>1. acceptor.now \in Sessions /\ reader.escrow \in Bills
        BY <3>2 DEF PathAgrees, Hardwired, Acceptors, Readers
      <4> QED
        BY <2>2, <3>2, <4>1 DEF AcceptBill, OneMoreBill
    <3> QED
      BY <3>1, <3>2
  <2>3. CASE ~DecideBill /\ ~AcceptBill
    BY <2>3 DEF Hardware, ReaderThread, PluginThread, Device, InsertBill, StackBill, GiveBack,
                ReadBill, ReadStacked, ReadReturned, Settle, EmitOutcome, StartCollecting,
                StopCollecting, StopSettled, StopTimesOut, ReturnBill, history
  <2> QED
    BY <2>1, <2>2, <2>3
<1>4. mishap' = mishap \/ \E x, how : mishap' = Blame(x, how)
  <2>1. PICK a, b : a = acceptor.now /\ b = turn.s
    OBVIOUS
  <2>2. \/ mishap' = mishap \/ mishap' = Blame(a, "late decision") \/ mishap' = Blame(a, "strayed")
        \/ mishap' = Blame(b, "overtaken") \/ mishap' = Blame(a, "no answer")
    BY <2>1 DEF Hardware, ReaderThread, PluginThread, Device, InsertBill, StackBill, GiveBack,
                ReadBill, DecideBill, ReadStacked, ReadReturned, Settle, EmitOutcome,
                StartCollecting, StopCollecting, StopSettled, StopTimesOut, AcceptBill,
                ReturnBill, history, BlameIfOvertaken
  <2> QED
    BY <2>2
<1>5. \A s \in Sessions : mishap[s] \subseteq mishap'[s]
  BY <1>4, BlameGrows
<1> QED
  BY <1>2, <1>3, <1>5, Grows

----------------------------------------------------------------------------
(* The reader's count was taken *)

\* ReaderCovered of what the reader knows: session n, count c, bill e in escrow.
LEMMA ReaderCoveredNext ==
  ASSUME NEW n, n = acceptor'.now, NEW c, c = reader'.collected, NEW e, e = reader'.escrow,
         n # 0 => Covers(n, c)',
         e # 0 /\ (reader'.accepted \/ Stacking') => c + e <= TakenOf(n)',
         Arrived' => Covers(n, c + e)',
         NEW s, s = turn'.s, NEW t, t = turn'.event.total,
         turn'.at = "emit" => s # 0 /\ Covers(s, t)'
  PROVE  ReaderCovered'
<1>1. acceptor'.now # 0 => Covers(acceptor.now, reader.collected)'
  BY DEF Covers, TakenOf, CashOf
<1>2. reader'.escrow # 0 /\ (reader'.accepted \/ Stacking') =>
        reader'.collected + reader'.escrow <= TakenOf(acceptor.now)'
  BY DEF Covers, TakenOf, CashOf
<1>3. Arrived' => Covers(acceptor.now, reader.collected + reader.escrow)'
  BY DEF Covers, TakenOf, CashOf
<1>4. turn'.at = "emit" => turn'.s # 0 /\ Covers(turn.s, turn.event.total)'
  BY DEF Covers, TakenOf, CashOf
<1> QED
  BY <1>1, <1>2, <1>3, <1>4 DEF ReaderCovered

LEMMA TurnTyped ==
  ASSUME Hardwired
  PROVE  turn.at = "emit" => turn.event \in Events /\ turn.event.total \in Nat
                             /\ turn.s \in Sessions \cup {0}
<1> SUFFICES ASSUME turn.at = "emit"
             PROVE  turn.event \in Events /\ turn.event.total \in Nat
                    /\ turn.s \in Sessions \cup {0}
  OBVIOUS
<1>1. turn \in [at : {"emit"}, s : Sessions \cup {0}, event : Events, complete : BOOLEAN]
  BY DEF Hardwired, Turns, Idle
<1>2. turn.event \in Events /\ turn.s \in Sessions \cup {0}
  BY <1>1
<1>3. turn.event.total \in Nat
  BY <1>2 DEF Events
<1> QED
  BY <1>2, <1>3

\* Nothing is counted, and no bill is nearer the box than it was.
LEMMA ReaderStillCovered ==
  ASSUME Hardwired, Hardwired', Grown, PathAgrees, ReaderCovered,
         acceptor'.now = acceptor.now, reader'.collected = reader.collected,
         reader'.escrow \in {0, reader.escrow},
         reader'.escrow # 0 /\ (reader'.accepted \/ Stacking') => reader.accepted \/ Stacking,
         Arrived' => Arrived /\ reader'.escrow = reader.escrow,
         turn'.at = "emit" => turn' = turn
  PROVE  ReaderCovered'
<1>1. PICK n, c, e, s, t : /\ n = acceptor.now /\ c = reader.collected /\ e = reader'.escrow
                           /\ s = turn.s /\ t = turn.event.total
  OBVIOUS
<1>2. c \in Nat /\ e \in Nat /\ c + e \in Nat /\ n \in Sessions \cup {0}
  <2>1. c \in Nat /\ n \in Sessions \cup {0}
    BY <1>1 DEF Hardwired, Readers, Acceptors
  <2>2. e \in Bills \cup {0}
    BY <1>1 DEF Hardwired, Readers
  <2>3. e \in Nat
    BY <2>2, InBaht
  <2> QED
    BY <2>1, <2>3
<1>3. /\ n # 0 => Covers(n, c)
      /\ Arrived' => Covers(n, c + e)
      /\ turn.at = "emit" => s # 0 /\ Covers(s, t)
  BY <1>1 DEF ReaderCovered
<1>4. n # 0 => Covers(n, c)'
  BY <1>2, <1>3, StillCovers
<1>5. Arrived' => Covers(n, c + e)'
  <2>1. Arrived' => n \in Sessions
    <3>1. Arrived => wire # <<>>
      BY DEF Arrived
    <3> QED
      BY <1>1, <1>2, <3>1 DEF PathAgrees
  <2> QED
    BY <1>2, <1>3, <2>1, StillCovers
<1>6. e # 0 /\ (reader'.accepted \/ Stacking') => c + e <= TakenOf(n)'
  <2> SUFFICES ASSUME e # 0, reader'.accepted \/ Stacking' PROVE c + e <= TakenOf(n)'
    OBVIOUS
  <2>1. e = reader.escrow /\ n \in Sessions
    BY <1>1, <1>2 DEF PathAgrees
  <2>2. c + e <= TakenOf(n)
    BY <1>1, <2>1 DEF ReaderCovered
  <2>3. TakenOf(n) \in Nat /\ TakenOf(n)' \in Nat /\ TakenOf(n) <= TakenOf(n)'
    BY <2>1, MoneyTyped, MoneyTypedNext DEF Grown
  <2> QED
    BY <1>2, <2>2, <2>3
<1>7. turn'.at = "emit" => s # 0 /\ Covers(s, t)'
  <2> SUFFICES ASSUME turn'.at = "emit" PROVE s # 0 /\ Covers(s, t)'
    OBVIOUS
  <2>1. turn.at = "emit" /\ t \in Nat /\ s \in Sessions \cup {0}
    BY <1>1, TurnTyped
  <2> QED
    BY <1>3, <2>1, StillCovers
<1>8. n = acceptor'.now /\ c = reader'.collected /\ e = reader'.escrow
  BY <1>1
<1>9. PICK s2, t2 : s2 = turn'.s /\ t2 = turn'.event.total
  OBVIOUS
<1>10. turn'.at = "emit" => s2 # 0 /\ Covers(s2, t2)'
  BY <1>1, <1>7, <1>9
<1> QED
  BY <1>4, <1>5, <1>6, <1>8, <1>9, <1>10, ReaderCoveredNext

\* The steps that bring no bill nearer to the box.
Nearby ==
  \/ \E v \in Bills : InsertBill(v)
  \/ GiveBack \/ ReadBill \/ EmitOutcome \/ StopCollecting \/ StopSettled \/ ReturnBill

LEMMA NoNearer ==
  ASSUME Hardwired, PathAgrees, Nearby
  PROVE  /\ acceptor'.now = acceptor.now /\ reader'.collected = reader.collected
         /\ reader'.escrow = reader.escrow
         /\ reader'.accepted => reader.accepted
         /\ Stacking' => Stacking
         /\ Arrived' => Arrived
         /\ turn'.at = "emit" => turn' = turn
         /\ cash' = cash /\ taken' = taken
<1>1. /\ acceptor'.now = acceptor.now /\ reader'.collected = reader.collected
      /\ reader'.escrow = reader.escrow
      /\ reader'.accepted => reader.accepted
  BY DEF Nearby, InsertBill, GiveBack, ReadBill, EmitOutcome, StopCollecting, StopSettled, ReturnBill,
         Emptied, Decline, Disable, Hardwired, Acceptors, Readers
<1>2. Stacking' => Stacking
  <2>1. \/ acceptor' \in {acceptor, Disable(acceptor), Decline(acceptor),
                          Disable(Decline(acceptor))}
        \/ acceptor'.at \in {"escrow", "empty"}
    BY DEF Nearby, InsertBill, GiveBack, ReadBill, EmitOutcome, StopCollecting, StopSettled, ReturnBill,
           Emptied, Hardwired, Acceptors
  <2>2. CASE acceptor'.at \in {"escrow", "empty"}
    BY <2>2 DEF Stacking
  <2> QED
    BY <2>1, <2>2, DeviceFollows
<1>3. Arrived' => Arrived
  <2>1. CASE \E v \in Bills : InsertBill(v)
    <3>1. PICK v \in Bills : InsertBill(v)
      BY <2>1
    <3>2. wire = <<>> /\ wire' = Append(wire, BillByte(v)) /\ BillByte(v) \in Bytes
      BY <3>1 DEF InsertBill, Quiescent, BillByte, Bytes
    <3>3. wire'[1] = BillByte(v)
      BY <3>2
    <3>4. <<Stacked>>[1] = Stacked /\ Stacked # BillByte(v)
      BY DEF Stacked, BillByte
    <3> QED
      BY <3>3, <3>4 DEF Arrived
  <2>2. CASE GiveBack
    <3>1. PICK w : w = wire
      OBVIOUS
    <3>2. w \in Seq(Bytes) /\ Returned \in Bytes /\ wire' = Append(w, Returned)
      BY <2>2, <3>1 DEF Hardwired, GiveBack, Returned, Bytes
    <3>3. wire'[Len(w) + 1] = Returned /\ Len(wire') = Len(w) + 1
      BY <3>2
    <3>4. Len(<<Stacked>>) = 1 /\ <<Stacked>>[1] = Stacked /\ Stacked # Returned
      BY DEF Stacked, Returned
    <3> QED
      BY <3>3, <3>4 DEF Arrived
  <2>3. CASE ReadBill
    <3>1. wire' \in {<<>>, <<Returned>>}
      BY <2>3, ReadPath DEF ReadBill
    <3> QED
      BY <3>1 DEF Arrived, Stacked, Returned
  <2>4. CASE EmitOutcome \/ StopCollecting \/ StopSettled \/ ReturnBill
    BY <2>4 DEF EmitOutcome, StopCollecting, StopSettled, ReturnBill, Arrived
  <2> QED
    BY <2>1, <2>2, <2>3, <2>4 DEF Nearby
<1>4. turn'.at = "emit" => turn' = turn
  <2>1. turn' \in {turn, Idle} \/ \E v : turn' = [at |-> "decide", bill |-> v]
    BY DEF Nearby, InsertBill, GiveBack, ReadBill, EmitOutcome, StopCollecting, StopSettled, ReturnBill
  <2> QED
    BY <2>1 DEF Idle
<1>5. cash' = cash /\ taken' = taken
  BY DEF Nearby, InsertBill, GiveBack, ReadBill, EmitOutcome, StopCollecting, StopSettled,
         ReturnBill, history
<1> QED
  BY <1>1, <1>2, <1>3, <1>4, <1>5

LEMMA ShortlyCovered ==
  ASSUME Hardwired, Hardwired', Grown, PathAgrees, ReaderCovered, Nearby
  PROVE  ReaderCovered'
<1>1. /\ acceptor'.now = acceptor.now /\ reader'.collected = reader.collected
      /\ reader'.escrow = reader.escrow
      /\ reader'.accepted => reader.accepted
      /\ Stacking' => Stacking
      /\ Arrived' => Arrived
      /\ turn'.at = "emit" => turn' = turn
  BY NoNearer
<1> QED
  BY <1>1, ReaderStillCovered

\* The bill reaches the box.
LEMMA StackCovered ==
  ASSUME Hardwired, Hardwired', Grown, PathAgrees, ReaderCovered, StackBill
  PROVE  ReaderCovered'
<1>1. PICK n, c, e, s, t : /\ n = acceptor.now /\ c = reader.collected /\ e = reader.escrow
                           /\ s = turn.s /\ t = turn.event.total
  OBVIOUS
<1>2. Stacking /\ ~Empty /\ acceptor.s \in Sessions /\ n \in Sessions
  BY <1>1 DEF StackBill, Stacking, Empty, PathAgrees, Hardwired, Acceptors
<1>3. c \in Nat /\ e \in Nat /\ acceptor.bill \in Bills
  <2>1. c \in Nat /\ e \in Bills \cup {0} /\ acceptor.bill \in Bills
    BY <1>1, <1>2 DEF Hardwired, Readers, Acceptors, PathAgrees
  <2> QED
    BY <2>1, InBaht
<1>4. Covers(n, c) /\ (turn.at = "emit" => s # 0 /\ Covers(s, t))
  BY <1>1, <1>2, SessionsAbove DEF ReaderCovered
<1>5. Covers(n, c)'
  BY <1>2, <1>3, <1>4, StillCovers
<1>6. turn.at = "emit" => Covers(s, t)'
  BY <1>1, <1>4, TurnTyped, StillCovers
<1>7. UNCHANGED <<reader, turn, taken, mishap>> /\ acceptor'.now = n /\ ~Stacking'
  BY <1>1 DEF StackBill, Emptied, Stacking, Hardwired, Acceptors
<1>8. Covers(n, c + e)'
  <2>1. CASE e = 0
    BY <1>3, <1>5, <2>1
  <2>2. CASE e # 0
    <3>1. acceptor.bill = e /\ acceptor.s = n
      BY <1>1, <1>2, <2>2 DEF PathAgrees
    <3>2. c + e <= TakenOf(n)
      BY <1>1, <1>2, <2>2 DEF ReaderCovered
    <3>3. CashOf(n)' = CashOf(n) + e
      <4>1. cash' = OneMore(cash, n, e) /\ cash \in [Sessions -> Counts]
        BY <3>1 DEF StackBill, Hardwired
      <4>2. Worth(cash'[n]) = Worth(cash[n]) + e
        BY <1>2, <1>3, <3>1, <4>1, OneMoreWorth
      <4> QED
        BY <4>2 DEF CashOf
    <3>4. TakenOf(n)' = TakenOf(n)
      BY <1>7 DEF TakenOf
    <3>5. "no answer" \notin mishap'[n] => c <= CashOf(n)
      BY <1>4, <1>7 DEF Covers
    <3>6. CashOf(n) \in Nat /\ CashOf(n)' \in Nat
      BY <1>2, MoneyTyped, MoneyTypedNext
    <3>7. "no answer" \notin mishap'[n] => c + e <= CashOf(n)'
      <4>1. PICK k, k2 : k = CashOf(n) /\ k2 = CashOf(n)'
        OBVIOUS
      <4>2. k \in Nat /\ k2 = k + e
        BY <3>3, <3>6, <4>1
      <4>3. "no answer" \notin mishap'[n] => c <= k
        BY <3>5, <4>1
      <4>4. c <= k => c + e <= k2
        BY <1>3, <4>2
      <4> QED
        BY <4>1, <4>3, <4>4
    <3>8. c + e <= TakenOf(n)'
      BY <3>2, <3>4
    <3> QED
      BY <3>7, <3>8 DEF Covers
  <2> QED
    BY <2>1, <2>2
<1>9. n = acceptor'.now /\ c = reader'.collected /\ e = reader'.escrow /\ s = turn'.s
      /\ t = turn'.event.total
  BY <1>1, <1>7
<1>10. turn'.at = "emit" => s # 0 /\ Covers(s, t)'
  BY <1>4, <1>6, <1>7
<1>11. e # 0 /\ (reader'.accepted \/ Stacking') => c + e <= TakenOf(n)'
  BY <1>8 DEF Covers
<1> QED
  BY <1>5, <1>8, <1>9, <1>10, <1>11, ReaderCoveredNext

\* The bill is accepted, at once or by the customer.
LEMMA AcceptCovered ==
  ASSUME Hardwired, Hardwired', Grown, PathAgrees, ReaderCovered, DecideBill \/ AcceptBill
  PROVE  ReaderCovered'
<1>1. PICK n, c, e, s, t : /\ n = acceptor.now /\ c = reader.collected /\ e = reader'.escrow
                           /\ s = turn'.s /\ t = turn'.event.total
  OBVIOUS
<1>2. n \in Sessions \cup {0} /\ c \in Nat /\ e \in Bills \cup {0} /\ e \in Nat
  <2>1. n \in Sessions \cup {0} /\ c \in Nat /\ e \in Bills \cup {0}
    BY <1>1 DEF Hardwired, Acceptors, Readers
  <2> QED
    BY <2>1, InBaht
<1>3. /\ n # 0 => Covers(n, c)
      /\ turn.at = "emit" => turn.s # 0 /\ Covers(turn.s, turn.event.total)
  BY <1>1 DEF ReaderCovered
<1>4. n # 0 => Covers(n, c)'
  BY <1>2, <1>3, StillCovers
<1>5. reader'.collected = c /\ acceptor'.now = n
  <2>1. PICK v : v = turn.bill
    OBVIOUS
  <2>2. acceptor' \in {acceptor, Decline(acceptor), Hold(acceptor), Accept(acceptor)}
    BY <2>1 DEF DecideBill, AcceptBill, Verdict
  <2>3. acceptor'.now = acceptor.now
    BY <2>2 DEF Decline, Hold, Accept, Hardwired, Acceptors
  <2>4. reader'.collected = reader.collected
    BY DEF DecideBill, AcceptBill, Hardwired, Readers
  <2> QED
    BY <1>1, <2>3, <2>4
<1>6. turn'.at = "emit" => turn' = turn /\ s # 0 /\ Covers(s, t)'
  <2>1. turn'.at = "emit" => turn' = turn
    <3>1. turn' = turn \/ turn' = Idle
      BY DEF DecideBill, AcceptBill
    <3> QED
      BY <3>1 DEF Idle
  <2>2. turn'.at = "emit" => s # 0 /\ Covers(s, t) /\ s \in Sessions /\ t \in Nat
    BY <1>1, <1>3, <2>1, TurnTyped
  <2> QED
    BY <2>1, <2>2, StillCovers
<1>7. wire' = wire
  BY DEF DecideBill, AcceptBill
<1>8. Arrived' => Covers(n, c + e)'
  <2> SUFFICES ASSUME Arrived' PROVE Covers(n, c + e)'
    OBVIOUS
  <2>1. Arrived /\ wire # <<>> /\ wire # <<Returned>>
    BY <1>7 DEF Arrived, Stacked, Returned
  <2>2. turn.at # "decide" /\ n # 0
    BY <1>1, <2>1 DEF PathAgrees
  <2>3. e = reader.escrow
    BY <1>1, <2>2 DEF DecideBill, AcceptBill, Hardwired, Readers
  <2>4. Covers(n, c + e)
    BY <1>1, <2>1, <2>3 DEF ReaderCovered
  <2> QED
    BY <1>2, <2>2, <2>4, StillCovers
<1>9. e # 0 /\ (reader'.accepted \/ Stacking') => c + e <= TakenOf(n)'
  <2> SUFFICES ASSUME e # 0, reader'.accepted \/ Stacking' PROVE c + e <= TakenOf(n)'
    OBVIOUS
  <2>1. taken' = OneMore(taken, n, e) /\ n \in Sessions
    <3>1. CASE DecideBill
      <4>1. PICK v, w : v = turn.bill /\ w = Verdict(v)
        OBVIOUS
      <4>2. /\ reader'.escrow = v /\ (reader'.accepted <=> w = "accept")
            /\ turn.at = "decide"
        BY <3>1, <4>1 DEF DecideBill, Hardwired, Readers
      <4>3. n \in Sessions /\ ~Stacking
        BY <1>1, <1>2, <4>2 DEF PathAgrees
      <4>4. w # "accept" => ~Stacking'
        <5>1. w # "accept" => acceptor' \in {Decline(acceptor), Hold(acceptor)}
          BY <3>1, <4>1 DEF DecideBill, Verdict
        <5> QED
          BY <4>3, <5>1 DEF Decline, Hold, Holds, Stacking, Hardwired, Acceptors
      <4>5. w = "accept"
        BY <4>2, <4>4
      <4> QED
        BY <1>1, <3>1, <4>1, <4>2, <4>3, <4>5 DEF DecideBill
    <3>2. CASE AcceptBill
      <4>1. reader'.escrow = reader.escrow
        BY <3>2 DEF AcceptBill, Hardwired, Readers
      <4>2. reader.escrow # 0 /\ n \in Sessions
        BY <1>1, <1>2, <4>1 DEF PathAgrees
      <4> QED
        BY <1>1, <3>2, <4>1, <4>2 DEF AcceptBill
    <3> QED
      BY <3>1, <3>2
  <2>2. TakenOf(n)' = TakenOf(n) + e
    <3>1. taken \in [Sessions -> Counts] /\ e \in Bills
      BY <1>2 DEF Hardwired
    <3>2. Worth(taken'[n]) = Worth(taken[n]) + e
      BY <2>1, <3>1, OneMoreWorth
    <3> QED
      BY <3>2 DEF TakenOf
  <2>3. c <= TakenOf(n)
    BY <1>3, <2>1, SessionsAbove DEF Covers
  <2>4. TakenOf(n) \in Nat
    BY <2>1, MoneyTyped
  <2> QED
    BY <1>2, <2>2, <2>3, <2>4
<1>10. n = acceptor'.now /\ c = reader'.collected
  BY <1>5
<1>11. turn'.at = "emit" => s # 0 /\ Covers(s, t)'
  BY <1>6
<1> QED
  BY <1>1, <1>4, <1>8, <1>9, <1>10, <1>11, ReaderCoveredNext

\* 0x10 and 0x11 are read.
LEMMA OutcomeCovered ==
  ASSUME Hardwired, Hardwired', Grown, PathAgrees, ReaderCovered, ReadStacked \/ ReadReturned
  PROVE  ReaderCovered'
<1>1. PICK n, c, s, t : /\ n = acceptor.now /\ c = reader'.collected
                        /\ s = turn'.s /\ t = turn'.event.total
  OBVIOUS
<1>2. n \in Sessions /\ wire' = <<>>
  <2>1. acceptor.now # 0 /\ wire' = <<>>
    BY ReadPath DEF ReadStacked, ReadReturned
  <2> QED
    BY <1>1, <2>1 DEF Hardwired, Acceptors
<1>3. c \in Nat /\ reader'.escrow = 0 /\ Covers(n, c)
  <2>1. CASE ReadStacked
    <3>1. Arrived
      BY <2>1, ReadPath DEF ReadStacked, Arrived, Stacked
    <3>2. c = reader.collected + reader.escrow /\ reader'.escrow = 0 /\ c \in Nat
      <4>1. reader.collected \in Nat /\ reader.escrow \in Bills \cup {0}
        BY DEF Hardwired, Readers
      <4>2. reader.collected + reader.escrow \in Nat
        BY <4>1, InBaht
      <4>3. reader' = [reader EXCEPT !.collected = reader.collected + reader.escrow,
                                     !.escrow = 0, !.accepted = FALSE]
        BY <2>1 DEF ReadStacked, Settle
      <4> QED
        BY <1>1, <4>2, <4>3 DEF Hardwired, Readers
    <3> QED
      BY <1>1, <3>1, <3>2 DEF ReaderCovered
  <2>2. CASE ReadReturned
    <3>1. reader' = [reader EXCEPT !.collected = reader.collected, !.escrow = 0,
                                   !.accepted = FALSE]
      BY <2>2 DEF ReadReturned, Settle
    <3>2. c = reader.collected /\ reader'.escrow = 0 /\ c \in Nat
      BY <1>1, <3>1 DEF Hardwired, Readers
    <3> QED
      BY <1>1, <1>2, <3>2, SessionsAbove DEF ReaderCovered
  <2> QED
    BY <2>1, <2>2
<1>4. Covers(n, c)'
  BY <1>2, <1>3, StillCovers
<1>5. acceptor' = acceptor
  BY DEF ReadStacked, ReadReturned, Settle
<1>6. s = n /\ t = c
  <2>1. PICK k, x : turn' = Outcome(k, x) /\ reader'.collected = x
    BY <1>3 DEF ReadStacked, ReadReturned, Settle, Hardwired, Readers
  <2>2. turn'.s = acceptor.now /\ turn'.event.total = x
    BY <2>1 DEF Outcome, Event
  <2> QED
    BY <1>1, <2>1, <2>2
<1>7. ~Arrived'
  BY <1>2 DEF Arrived
<1>8. n = acceptor'.now /\ n # 0
  BY <1>1, <1>2, <1>5, SessionsAbove
<1> QED
  BY <1>1, <1>3, <1>4, <1>6, <1>7, <1>8, ReaderCoveredNext

\* A session starts with nothing counted.
LEMMA NothingCovered ==
  ASSUME Hardwired', NEW n \in Sessions
  PROVE  Covers(n, 0)'
<1>1. CashOf(n)' \in Nat /\ TakenOf(n)' \in Nat
  BY MoneyTypedNext
<1>2. PICK a, b : a = CashOf(n)' /\ b = TakenOf(n)'
  OBVIOUS
<1>3. 0 <= a /\ 0 <= b
  BY <1>1, <1>2
<1> QED
  BY <1>2, <1>3 DEF Covers

LEMMA AnewCovered ==
  ASSUME Hardwired, Hardwired', Grown, PathAgrees', ReaderCovered,
         reader'.collected = 0, reader'.escrow = 0, turn' \in {turn, Idle}
  PROVE  ReaderCovered'
<1>1. PICK n, s, t : n = acceptor'.now /\ s = turn'.s /\ t = turn'.event.total
  OBVIOUS
<1>2. n \in Sessions \cup {0}
  BY <1>1 DEF Hardwired, Acceptors
<1>3. n # 0 => Covers(n, 0)'
  BY <1>2, NothingCovered
<1>4. turn'.at = "emit" => s # 0 /\ Covers(s, t)'
  <2> SUFFICES ASSUME turn'.at = "emit" PROVE s # 0 /\ Covers(s, t)'
    OBVIOUS
  <2>1. turn' = turn
    BY DEF Idle
  <2>2. s # 0 /\ Covers(s, t) /\ s \in Sessions /\ t \in Nat
    BY <1>1, <2>1, TurnTyped DEF ReaderCovered
  <2> QED
    BY <2>2, StillCovers
<1>5. Arrived' => n # 0
  <2>1. Arrived' => wire' # <<>>
    BY DEF Arrived
  <2> QED
    BY <1>1, <2>1 DEF PathAgrees
<1>6. 0 + 0 = 0
  OBVIOUS
<1> QED
  BY <1>1, <1>3, <1>4, <1>5, <1>6, ReaderCoveredNext

\* A stop gives up waiting: a bill told to be accepted is counted.
LEMMA TimeOutCovered ==
  ASSUME Hardwired, Hardwired', Grown, PathAgrees, ReaderCovered, StopTimesOut
  PROVE  ReaderCovered'
<1>1. /\ acceptor' = Disable(acceptor) /\ UNCHANGED <<turn, wire>>
      /\ reader' = InFlightCredit /\ mishap' = Blame(acceptor.now, "no answer")
  BY DEF StopTimesOut
<1>2. /\ Stacking' => Stacking
      /\ acceptor'.now = acceptor.now
  BY <1>1, DeviceFollows
<1>3. Arrived' => Arrived
  BY <1>1 DEF Arrived
<1>4. CASE ~(waiting = "stack" /\ reader.accepted /\ reader.escrow # 0)
  <2>1. reader' = reader
    BY <1>1, <1>4 DEF InFlightCredit
  <2> QED
    BY <1>1, <1>2, <1>3, <2>1, ReaderStillCovered
<1>5. CASE reader.accepted /\ reader.escrow # 0 /\ waiting = "stack"
  <2>1. PICK n, c, s, t : /\ n = acceptor.now /\ c = reader.collected + reader.escrow
                          /\ s = turn.s /\ t = turn.event.total
    OBVIOUS
  <2>2. n \in Sessions /\ n # 0
    BY <1>5, <2>1 DEF PathAgrees, Hardwired, Acceptors
  <2>3. c \in Nat
    <3>1. reader.collected \in Nat /\ reader.escrow \in Bills
      BY <1>5 DEF Hardwired, Readers
    <3> QED
      BY <2>1, <3>1, InBaht
  <2>4. reader'.collected = c /\ reader'.escrow = 0
    <3>1. reader' = [reader EXCEPT !.collected = c, !.escrow = 0, !.accepted = FALSE]
      BY <1>1, <1>5, <2>1 DEF InFlightCredit
    <3> QED
      BY <3>1 DEF Hardwired, Readers
  <2>5. Covers(n, c)'
    <3>1. c <= TakenOf(n)
      BY <1>5, <2>1 DEF ReaderCovered
    <3>2. TakenOf(n)' = TakenOf(n)
      BY DEF StopTimesOut, TakenOf
    <3>3. "no answer" \in mishap'[n]
      BY <1>1, <2>1, <2>2, BlameGrows
    <3> QED
      BY <3>1, <3>2, <3>3 DEF Covers
  <2>6. turn'.at = "emit" => s # 0 /\ Covers(s, t)'
    <3> SUFFICES ASSUME turn'.at = "emit" PROVE s # 0 /\ Covers(s, t)'
      OBVIOUS
    <3>1. s # 0 /\ Covers(s, t) /\ s \in Sessions /\ t \in Nat
      BY <1>1, <2>1, TurnTyped DEF ReaderCovered
    <3> QED
      BY <3>1, StillCovers
  <2>7. c + 0 = c
    BY <2>3
  <2>8. n = acceptor'.now /\ s = turn'.s /\ t = turn'.event.total
    BY <1>1, <1>2, <2>1
  <2> QED
    BY <2>4, <2>5, <2>6, <2>7, <2>8, ReaderCoveredNext
<1> QED
  BY <1>4, <1>5

LEMMA HardwareCovered ==
  ASSUME Hardwired, Hardwired', PathAgrees, ReaderCovered, Hardware
  PROVE  ReaderCovered'
<1>1. Grown /\ PathAgrees'
  BY HardwareGrows, HardwarePath
<1>2. StartCollecting => /\ reader'.collected = 0 /\ reader'.escrow = 0
                         /\ turn' \in {turn, Idle}
  BY DEF StartCollecting, Reset
<1>3. StartCollecting => ReaderCovered'
  BY <1>1, <1>2, AnewCovered
<1> QED
  BY <1>1, <1>3, ShortlyCovered, StackCovered, AcceptCovered, OutcomeCovered, TimeOutCovered,
     Zenon DEF Hardware, ReaderThread, PluginThread, Device, Nearby

\* A step of the script, or of the server, leaves the reader and the bills alone.
LEMMA ElsewherePath ==
  ASSUME PathAgrees, Elsewhere
  PROVE  PathAgrees'
  BY DEF PathAgrees, Elsewhere, Empty, Stacking

LEMMA ElsewhereGrows ==
  ASSUME Hardwired, Elsewhere, \A s \in Sessions : mishap[s] \subseteq mishap'[s]
  PROVE  Grown
<1>1. cash' = cash /\ taken' = taken
  BY DEF Elsewhere
<1> QED
  BY <1>1, Grows

LEMMA ElsewhereCovered ==
  ASSUME Hardwired, Hardwired', PathAgrees, ReaderCovered, Elsewhere,
         \A s \in Sessions : mishap[s] \subseteq mishap'[s]
  PROVE  ReaderCovered'
<1>1. Grown
  BY ElsewhereGrows
<1>2. UNCHANGED <<reader, acceptor, wire, turn>>
  BY DEF Elsewhere
<1>3. (Stacking' <=> Stacking) /\ (Arrived' <=> Arrived)
  BY <1>2 DEF Stacking, Arrived
<1> QED
  BY <1>1, <1>2, <1>3, ReaderStillCovered

----------------------------------------------------------------------------
(* How many of a kind are in a queue *)

CountIn(q, M) == Cardinality(Places(q, M))

LEMMA PlacesFinite ==
  ASSUME NEW S, NEW M, NEW q \in Seq(S)
  PROVE  IsFiniteSet(Places(q, M)) /\ CountIn(q, M) \in Nat
<1>1. Len(q) \in Nat /\ DOMAIN q = 1..Len(q)
  OBVIOUS
<1>2. IsFiniteSet(1..Len(q))
  BY <1>1, FS_Interval
<1>3. Places(q, M) \in SUBSET (1..Len(q))
  BY <1>1 DEF Places
<1>4. IsFiniteSet(Places(q, M))
  BY <1>2, <1>3, FS_Subset
<1> QED
  BY <1>4, FS_CardinalityType DEF CountIn

LEMMA CountAppend ==
  ASSUME NEW S, NEW M, NEW q \in Seq(S), NEW e \in S
  PROVE  CountIn(Append(q, e), M) = CountIn(q, M) + OneIf(e \in M)
<1>1. IsFiniteSet(Places(q, M)) /\ CountIn(q, M) \in Nat
  BY PlacesFinite
<1>2. CASE e \in M
  <2>1. Places(Append(q, e), M) = Places(q, M) \cup {Len(q) + 1}
    BY <1>2, PlacesAppend
  <2>2. Len(q) + 1 \notin Places(q, M)
    <3>1. PICK n : n = Len(q)
      OBVIOUS
    <3>2. n \in Nat /\ DOMAIN q = 1..n
      BY <3>1
    <3>3. n + 1 \notin DOMAIN q
      BY <3>2
    <3> QED
      BY <3>1, <3>3 DEF Places
  <2>3. Cardinality(Places(Append(q, e), M)) = Cardinality(Places(q, M)) + 1
    BY <1>1, <2>1, <2>2, FS_AddElement
  <2> QED
    BY <1>2, <2>3 DEF CountIn, OneIf
<1>3. CASE e \notin M
  <2>1. Places(Append(q, e), M) = Places(q, M)
    BY <1>3, OtherAppended
  <2> QED
    BY <1>1, <1>3, <2>1 DEF CountIn, OneIf
<1> QED
  BY <1>2, <1>3

LEMMA CountTail ==
  ASSUME NEW S, NEW M, NEW q \in Seq(S), q # <<>>
  PROVE  CountIn(q, M) = CountIn(Tail(q), M) + OneIf(Head(q) \in M)
<1> DEFINE P == Places(q, M)
           T == Places(Tail(q), M)
           f == [i \in T |-> i + 1]
<1>1. Tail(q) \in Seq(S) /\ Len(q) \in Nat \ {0} /\ Len(Tail(q)) = Len(q) - 1
  OBVIOUS
<1>2. \A i \in 1..(Len(q) - 1) : Tail(q)[i] = q[i + 1]
  OBVIOUS
<1>3. DOMAIN q = 1..Len(q) /\ DOMAIN Tail(q) = 1..(Len(q) - 1)
  BY <1>1
<1>4. \A i \in T : i \in Nat \ {0} /\ i + 1 \in P /\ i + 1 # 1
  BY <1>1, <1>2, <1>3 DEF Places
<1>5. \A k \in P \ {1} : k - 1 \in T /\ k \in Nat /\ (k - 1) + 1 = k
  BY <1>1, <1>2, <1>3 DEF Places
<1>6. IsFiniteSet(P) /\ IsFiniteSet(T)
  BY <1>1, PlacesFinite
<1>7. 1 \in P <=> Head(q) \in M
  BY <1>1, <1>3 DEF Places
<1> HIDE DEF P, T
<1>8. f \in Bijection(T, P \ {1})
  <2>1. f \in [T -> P \ {1}]
    BY <1>4
  <2>2. \A i, j \in T : f[i] = f[j] => i = j
    <3>1. \A i, j \in T : i + 1 = j + 1 => i = j
      BY <1>4
    <3> QED
      BY <3>1
  <2>3. \A k \in P \ {1} : \E i \in T : f[i] = k
    BY <1>5
  <2> QED
    BY <2>1, <2>2, <2>3 DEF Bijection, Injection, Surjection, IsInjective
<1>9. ExistsBijection(T, P \ {1})
  BY <1>8 DEF ExistsBijection
<1>10. Cardinality(P \ {1}) = Cardinality(T)
  BY <1>6, <1>9, FS_Bijection
<1>11. Cardinality(P \ {1}) = IF 1 \in P THEN Cardinality(P) - 1 ELSE Cardinality(P)
  BY <1>6, FS_RemoveElement
<1>12. Cardinality(P) \in Nat /\ Cardinality(T) \in Nat
  BY <1>6, FS_CardinalityType
<1>13. Cardinality(P) = Cardinality(T) + OneIf(1 \in P)
  BY <1>10, <1>11, <1>12 DEF OneIf
<1> QED
  BY <1>7, <1>13 DEF CountIn, P, T

----------------------------------------------------------------------------
(* The counter of the box *)

LEMMA CountsTyped ==
  ASSUME Hardwired, Scripted, NEW v \in Bills
  PROVE  /\ Coming(v) \in Nat /\ CountOf(v) \in Nat
         /\ Accepted(v) \in {0, 1} /\ Landed(v) \in {0, 1}
         /\ Total(taken, v) \in Nat /\ Total(cash, v) \in Nat
<1>1. queue \in Seq(Messages) /\ taken \in [Sessions -> Counts] /\ cash \in [Sessions -> Counts]
  BY DEF Hardwired
<1>2. CountIn(queue, StackedOf(v)) \in Nat
  BY <1>1, PlacesFinite
<1>3. \A b : OneIf(b) \in {0, 1}
  BY DEF OneIf
<1>4. Coming(v) \in Nat
  BY <1>2, <1>3 DEF Coming, CountIn
<1>5. box.counter[v] \in Nat /\ box.unsure[v] \in Nat
  BY DEF Scripted, Boxes, Counts
<1>6. CountOf(v) \in Nat
  BY <1>4, <1>5 DEF CountOf
<1>7. Accepted(v) \in {0, 1} /\ Landed(v) \in {0, 1}
  BY <1>3, Zenon DEF Accepted, Landed
<1>8. Total(taken, v) \in Nat /\ Total(cash, v) \in Nat
  BY <1>1, TotalType
<1> QED
  BY <1>4, <1>6, <1>7, <1>8

LEMMA CountsTypedNext ==
  ASSUME Hardwired', Scripted', NEW v \in Bills
  PROVE  /\ Coming(v)' \in Nat /\ CountOf(v)' \in Nat
         /\ Accepted(v)' \in {0, 1} /\ Landed(v)' \in {0, 1}
         /\ Total(taken, v)' \in Nat /\ Total(cash, v)' \in Nat
<1>1. /\ queue' \in Seq(Messages)
      /\ taken' \in [Sessions -> Counts] /\ cash' \in [Sessions -> Counts]
  BY DEF Hardwired
<1>2. CountIn(queue', StackedOf(v)) \in Nat
  BY <1>1, PlacesFinite
<1>3. \A b : OneIf(b) \in {0, 1}
  BY DEF OneIf
<1>4. Coming(v)' \in Nat
  BY <1>2, <1>3 DEF Coming, CountIn
<1>5. box'.counter[v] \in Nat /\ box'.unsure[v] \in Nat
  BY DEF Scripted, Boxes, Counts
<1>6. CountOf(v)' \in Nat
  BY <1>4, <1>5 DEF CountOf
<1>7. Accepted(v)' \in {0, 1} /\ Landed(v)' \in {0, 1}
  BY <1>3, Zenon DEF Accepted, Landed
<1>8. Total(taken', v) \in Nat /\ Total(cash', v) \in Nat
  BY <1>1, TotalType
<1> QED
  BY <1>4, <1>6, <1>7, <1>8

\* What is counted or under way becomes no more than what is taken besides.
LEMMA BoxKept ==
  ASSUME Hardwired, Hardwired', Scripted, Scripted', BoxAgrees,
         \A s \in Sessions : mishap[s] \subseteq mishap'[s],
         \A v \in Bills :
           /\ \E x, y \in Nat : /\ Total(taken, v)' = Total(taken, v) + x
                                /\ CountOf(v)' + Accepted(v)' <= CountOf(v) + Accepted(v) + x
                                /\ Total(cash, v)' = Total(cash, v) + y
                                /\ AllAnswered' =>
                                     CountOf(v)' + Landed(v)' <= CountOf(v) + Landed(v) + y
  PROVE  BoxAgrees'
<1> SUFFICES ASSUME NEW v \in Bills
             PROVE  /\ CountOf(v)' + Accepted(v)' <= Total(taken, v)'
                    /\ AllAnswered' => CountOf(v)' + Landed(v)' <= Total(cash, v)'
  BY DEF BoxAgrees
<1>1. AllAnswered' => AllAnswered
  BY DEF AllAnswered
<1>2. PICK c, a, l, t, m : /\ c = CountOf(v) /\ a = Accepted(v) /\ l = Landed(v)
                           /\ t = Total(taken, v) /\ m = Total(cash, v)
  OBVIOUS
<1>3. PICK c2, a2, l2, t2, m2 : /\ c2 = CountOf(v)' /\ a2 = Accepted(v)' /\ l2 = Landed(v)'
                                /\ t2 = Total(taken, v)' /\ m2 = Total(cash, v)'
  OBVIOUS
<1>4. c \in Nat /\ a \in {0, 1} /\ l \in {0, 1} /\ t \in Nat /\ m \in Nat
  BY <1>2, CountsTyped
<1>5. c2 \in Nat /\ a2 \in {0, 1} /\ l2 \in {0, 1} /\ t2 \in Nat /\ m2 \in Nat
  BY <1>3, CountsTypedNext
<1>6. c + a <= t /\ (AllAnswered => c + l <= m)
  BY <1>2 DEF BoxAgrees
<1>7. PICK x, y \in Nat : /\ t2 = t + x /\ c2 + a2 <= c + a + x
                          /\ m2 = m + y /\ (AllAnswered' => c2 + l2 <= c + l + y)
  BY <1>2, <1>3
<1>8. c2 + a2 <= t2
  BY <1>4, <1>5, <1>6, <1>7
<1>9. ASSUME AllAnswered' PROVE c2 + l2 <= m2
  <2>1. c + l <= m /\ c2 + l2 <= c + l + y /\ m2 = m + y
    BY <1>1, <1>6, <1>7, <1>9
  <2> QED
    BY <1>4, <1>5, <1>7, <2>1
<1> QED
  BY <1>3, <1>8, <1>9

\* What the reader thread and the queue bring of a denomination.
LEMMA ComingPosted ==
  ASSUME Hardwired, NEW e \in Messages, NEW v, queue' = Append(queue, e),
         turn.at = "emit" \/ turn'.at = "emit" => turn' = turn
  PROVE  Coming(v)' = Coming(v) + OneIf(e \in StackedOf(v))
<1>1. queue \in Seq(Messages)
  BY DEF Hardwired
<1>2. CountIn(queue', StackedOf(v)) = CountIn(queue, StackedOf(v)) + OneIf(e \in StackedOf(v))
  BY <1>1, CountAppend
<1>3. CountIn(queue, StackedOf(v)) \in Nat
  BY <1>1, PlacesFinite
<1>4. PICK t : t = OneIf(turn.at = "emit" /\ turn.event \in StackedOf(v))
  OBVIOUS
<1>5. PICK x : x = OneIf(e \in StackedOf(v))
  OBVIOUS
<1>6. t \in {0, 1} /\ x \in {0, 1}
  BY <1>4, <1>5 DEF OneIf
<1>7. Coming(v) = CountIn(queue, StackedOf(v)) + t
  BY <1>4 DEF Coming, CountIn
<1>8. Coming(v)' = CountIn(queue', StackedOf(v)) + t
  BY <1>4 DEF Coming, CountIn
<1>9. PICK k, k2 : k = CountIn(queue, StackedOf(v)) /\ k2 = CountIn(queue', StackedOf(v))
  OBVIOUS
<1>10. k \in Nat /\ k2 = k + x /\ Coming(v) = k + t /\ Coming(v)' = k2 + t
  BY <1>2, <1>3, <1>5, <1>7, <1>8, <1>9
<1>11. Coming(v)' = Coming(v) + x
  BY <1>6, <1>10
<1> QED
  BY <1>5, <1>11

LEMMA ComingHandled ==
  ASSUME Hardwired, queue # <<>>, NEW v, queue' = Tail(queue), UNCHANGED turn
  PROVE  Coming(v) = Coming(v)' + OneIf(Head(queue) \in StackedOf(v))
<1>1. queue \in Seq(Messages) /\ queue' \in Seq(Messages)
  BY DEF Hardwired
<1>2. CountIn(queue, StackedOf(v)) =
        CountIn(queue', StackedOf(v)) + OneIf(Head(queue) \in StackedOf(v))
  BY <1>1, CountTail
<1>3. CountIn(queue', StackedOf(v)) \in Nat
  BY <1>1, PlacesFinite
<1>4. PICK t : t = OneIf(turn.at = "emit" /\ turn.event \in StackedOf(v))
  OBVIOUS
<1>5. PICK x : x = OneIf(Head(queue) \in StackedOf(v))
  OBVIOUS
<1>6. t \in {0, 1} /\ x \in {0, 1}
  BY <1>4, <1>5 DEF OneIf
<1>7. Coming(v) = CountIn(queue, StackedOf(v)) + t
  BY <1>4 DEF Coming, CountIn
<1>8. Coming(v)' = CountIn(queue', StackedOf(v)) + t
  BY <1>4 DEF Coming, CountIn
<1>9. PICK k, k2 : k = CountIn(queue, StackedOf(v)) /\ k2 = CountIn(queue', StackedOf(v))
  OBVIOUS
<1>10. k2 \in Nat /\ k = k2 + x /\ Coming(v) = k + t /\ Coming(v)' = k2 + t
  BY <1>2, <1>3, <1>5, <1>7, <1>8, <1>9
<1>11. Coming(v) = Coming(v)' + x
  BY <1>6, <1>10
<1> QED
  BY <1>5, <1>11

----------------------------------------------------------------------------
(* What the threads post *)

AnEvent(e, k, amount, total) ==
  e \in Events /\ e \in Messages /\ e.k = k /\ e.amount = amount /\ e.total = total

LEMMA EventIs ==
  ASSUME NEW k \in {"escrowPending", "accepted", "overpayPending", "stacked", "returned",
                    "collectComplete", "collecting"},
         NEW amount \in Bills \cup {0}, NEW total \in Nat, NEW inFlight \in BOOLEAN
  PROVE  AnEvent(Event(k, amount, total, inFlight), k, amount, total)
<1>1. Event(k, amount, total, inFlight) \in Events
  BY EventTyped
<1> QED
  BY <1>1 DEF AnEvent, Event, Messages

LEMMA ReadBillPosts ==
  ASSUME Hardwired, ReadBill
  PROVE  \E e : AnEvent(e, "escrowPending", 0, 0) /\ queue' = Append(queue, e)
<1>1. PICK e : e = Event("escrowPending", 0, 0, FALSE)
  OBVIOUS
<1>2. AnEvent(e, "escrowPending", 0, 0)
  BY <1>1, EventIs
<1>3. queue' = queue \o <<e>> /\ queue \in Seq(Messages) /\ e \in Messages
  BY <1>1, <1>2 DEF ReadBill, Post, Hardwired, AnEvent
<1> QED
  BY <1>2, <1>3, PostedOneByOne

LEMMA DecidePosts ==
  ASSUME Hardwired, DecideBill
  PROVE  \/ queue' = queue
         \/ \E e, v : /\ AnEvent(e, "overpayPending", v, reader.collected)
                      /\ queue' = Append(queue, e)
         \/ \E e, v : /\ AnEvent(e, "accepted", v, reader.collected)
                      /\ queue' = Append(queue, e)
<1>1. PICK v, c, w : v = turn.bill /\ c = reader.collected /\ w = Verdict(v)
  OBVIOUS
<1>2. v \in Bills /\ c \in Nat
  <2>1. turn.at = "decide" /\ turn \in Turns
    BY DEF DecideBill, Hardwired
  <2>2. turn.bill \in Bills
    BY <2>1 DEF Turns, Idle
  <2> QED
    BY <1>1, <2>2 DEF Hardwired, Readers
<1>3. PICK e, f : /\ e = Event("overpayPending", v, c, FALSE)
                  /\ f = Event("accepted", v, c, FALSE)
  OBVIOUS
<1>4. AnEvent(e, "overpayPending", v, c) /\ AnEvent(f, "accepted", v, c)
  BY <1>2, <1>3, EventIs
<1>5. w \in {"decline", "hold", "accept"}
  BY <1>1 DEF Verdict
<1>6. queue' = queue \o <<>> \/ queue' = queue \o <<e>> \/ queue' = queue \o <<f>>
  BY <1>1, <1>3, <1>5 DEF DecideBill, Post
<1>7. queue \in Seq(Messages) /\ e \in Messages /\ f \in Messages
  BY <1>4 DEF Hardwired, AnEvent
<1>8. queue' = queue \/ queue' = Append(queue, e) \/ queue' = Append(queue, f)
  BY <1>6, <1>7, PostedOneByOne
<1> QED
  BY <1>1, <1>4, <1>8

LEMMA EmitPosts ==
  ASSUME Hardwired, EmitOutcome
  PROVE  \E e, f : /\ e \in Events /\ e \in Messages /\ e = turn.event
                   /\ AnEvent(f, "collectComplete", 0, turn.event.total)
                   /\ \/ queue' = Append(queue, e)
                      \/ queue' = Append(Append(queue, e), f)
<1>1. turn.event \in Events /\ turn.event.total \in Nat
  BY TurnTyped DEF EmitOutcome
<1>2. PICK e, f : e = turn.event /\ f = Event("collectComplete", 0, turn.event.total, FALSE)
  OBVIOUS
<1>3. AnEvent(f, "collectComplete", 0, turn.event.total)
  BY <1>1, <1>2, EventIs
<1>4. queue' = queue \o <<e>> \/ queue' = queue \o <<e, f>>
  BY <1>2 DEF EmitOutcome, Post
<1>5. queue \in Seq(Messages) /\ e \in Messages /\ f \in Messages
  BY <1>1, <1>2, <1>3 DEF Hardwired, AnEvent, Messages
<1>6. queue' = Append(queue, e) \/ queue' = Append(Append(queue, e), f)
  BY <1>4, <1>5, PostedOneByOne
<1> QED
  BY <1>1, <1>2, <1>3, <1>5, <1>6

LEMMA StartPosts ==
  ASSUME Hardwired, StartCollecting
  PROVE  \E e : AnEvent(e, "collecting", 0, 0) /\ queue' = Append(queue, e)
<1>1. PICK e : e = Event("collecting", 0, 0, FALSE)
  OBVIOUS
<1>2. AnEvent(e, "collecting", 0, 0)
  BY <1>1, EventIs
<1>3. queue' = queue \o <<e>> /\ queue \in Seq(Messages) /\ e \in Messages
  BY <1>1, <1>2 DEF StartCollecting, Post, Hardwired, AnEvent
<1> QED
  BY <1>2, <1>3, PostedOneByOne

\* The result of the call at the head.
AResult(r) == r \in Messages /\ r = [k |-> "result", then |-> Head(calls).then]

LEMMA ResultIs ==
  ASSUME Hardwired, calls # <<>>, Head(calls).op # "start", NEW r, r = Result
  PROVE  AResult(r)
<1>1. calls \in Seq(Calls) /\ queue \in Seq(Messages)
  BY DEF Hardwired
<1>2. r = [k |-> "result", then |-> Head(calls).then]
  BY DEF Result
<1>3. r \in Results(Thens)
  BY <1>1, <1>2, ResultKeeps
<1> QED
  BY <1>2, <1>3 DEF AResult, Messages

LEMMA ResultPosts ==
  ASSUME Hardwired, calls # <<>>, Head(calls).op # "start", Post(<<Result>>)
  PROVE  \E r : AResult(r) /\ queue' = Append(queue, r)
<1>1. PICK r : r = Result
  OBVIOUS
<1>2. AResult(r)
  BY <1>1, ResultIs
<1>3. queue' = queue \o <<r>> /\ queue \in Seq(Messages) /\ r \in Messages
  BY <1>1, <1>2 DEF Post, Hardwired, AResult
<1> QED
  BY <1>2, <1>3, PostedOneByOne

\* A call is of the reader's thread while it waits.
LEMMA WaitsForStop ==
  ASSUME Hardwired, waiting # "no"
  PROVE  calls # <<>> /\ Head(calls).op # "start" /\ Head(calls).op = "stop"
  BY DEF Hardwired

LEMMA TimeOutPosts ==
  ASSUME Hardwired, StopTimesOut
  PROVE  \/ /\ reader' = reader
            /\ \E r : AResult(r) /\ queue' = Append(queue, r)
         \/ /\ reader.accepted /\ reader.escrow # 0
            /\ reader'.collected = reader.collected + reader.escrow /\ reader'.escrow = 0
            /\ reader'.collected \in Nat /\ ~reader'.accepted
            /\ reader'.collecting = reader.collecting
            /\ \E e, r : /\ AnEvent(e, "stacked", reader.escrow, reader'.collected)
                         /\ AResult(r) /\ queue' = Append(Append(queue, e), r)
<1>1. calls # <<>> /\ Head(calls).op # "start"
  BY WaitsForStop DEF StopTimesOut
<1>2. reader' = InFlightCredit
  BY DEF StopTimesOut
<1>3. CASE InFlightCredit = reader
  <2>1. Post(<<Result>>)
    BY <1>3 DEF StopTimesOut
  <2> QED
    BY <1>1, <1>2, <1>3, <2>1, ResultPosts
<1>4. CASE InFlightCredit # reader
  <2>1. PICK c, b : c = reader.collected + reader.escrow /\ b = reader.escrow
    OBVIOUS
  <2>2. reader.accepted /\ b # 0
    BY <1>4, <2>1 DEF InFlightCredit
  <2>3. b \in Bills /\ c \in Nat
    <3>1. reader.collected \in Nat /\ b \in Bills
      BY <2>1, <2>2 DEF Hardwired, Readers
    <3> QED
      BY <2>1, <3>1, InBaht
  <2>4. reader' = [reader EXCEPT !.collected = c, !.escrow = 0, !.accepted = FALSE]
    BY <1>2, <1>4, <2>1 DEF InFlightCredit
  <2>5. /\ reader'.collected = c /\ reader'.escrow = 0 /\ ~reader'.accepted
        /\ reader'.collecting = reader.collecting
    BY <2>4 DEF Hardwired, Readers
  <2>6. PICK e, r : e = Event("stacked", b, c, TRUE) /\ r = Result
    OBVIOUS
  <2>7. AnEvent(e, "stacked", b, c) /\ AResult(r)
    BY <1>1, <2>3, <2>6, EventIs, ResultIs
  <2>8. queue' = queue \o <<e, r>>
    BY <1>4, <2>1, <2>5, <2>6 DEF StopTimesOut, Post
  <2>9. queue \in Seq(Messages) /\ e \in Messages /\ r \in Messages
    BY <2>7 DEF Hardwired, AnEvent, AResult
  <2>10. queue' = Append(Append(queue, e), r)
    BY <2>8, <2>9, PostedOneByOne
  <2> QED
    BY <2>1, <2>2, <2>3, <2>5, <2>7, <2>10
<1> QED
  BY <1>3, <1>4

\* The calls that return at once, and a stop that no bill keeps waiting.
LEMMA ReturnPosts ==
  ASSUME Hardwired, \/ StopCollecting /\ reader.escrow = 0
                    \/ StopSettled \/ AcceptBill \/ ReturnBill
  PROVE  /\ \E r : AResult(r) /\ queue' = Append(queue, r)
         /\ calls # <<>> /\ Head(calls).op # "start" /\ calls' = Tail(calls)
<1>1. calls # <<>> /\ Head(calls).op # "start"
  <2>1. CASE StopSettled
    BY <2>1, WaitsForStop DEF StopSettled
  <2>2. CASE StopCollecting \/ AcceptBill \/ ReturnBill
    BY <2>2 DEF StopCollecting, AcceptBill, ReturnBill, Runs
  <2> QED
    BY <2>1, <2>2
<1>2. Post(<<Result>>) /\ Returns
  BY DEF StopCollecting, StopSettled, AcceptBill, ReturnBill
<1>3. \E r : AResult(r) /\ queue' = Append(queue, r)
  BY <1>1, <1>2, ResultPosts
<1> QED
  BY <1>1, <1>2, <1>3 DEF Returns

----------------------------------------------------------------------------
(* The counter of the box: the hardware *)

\* The counts of a denomination move together, by x bills told to be accepted
\* and y in the box.
CountsMove(v, x, y) ==
  /\ Total(taken, v)' = Total(taken, v) + x
  /\ Coming(v)' + Accepted(v)' <= Coming(v) + Accepted(v) + x
  /\ Total(cash, v)' = Total(cash, v) + y
  /\ AllAnswered' => Coming(v)' + Landed(v)' <= Coming(v) + Landed(v) + y

LEMMA HardBoxKept ==
  ASSUME Hardwired, Hardwired', Scripted, Scripted', BoxAgrees, UNCHANGED box,
         \A s \in Sessions : mishap[s] \subseteq mishap'[s],
         \A v \in Bills : \E x, y \in Nat : CountsMove(v, x, y)
  PROVE  BoxAgrees'
<1>1. ASSUME NEW v \in Bills
      PROVE  \E x, y \in Nat :
               /\ Total(taken, v)' = Total(taken, v) + x
               /\ CountOf(v)' + Accepted(v)' <= CountOf(v) + Accepted(v) + x
               /\ Total(cash, v)' = Total(cash, v) + y
               /\ AllAnswered' => CountOf(v)' + Landed(v)' <= CountOf(v) + Landed(v) + y
  <2>1. PICK x \in Nat, y \in Nat : CountsMove(v, x, y)
    OBVIOUS
  <2>2. PICK k, c, a, l : /\ k = box.counter[v] + box.unsure[v] /\ c = Coming(v)
                          /\ a = Accepted(v) /\ l = Landed(v)
    OBVIOUS
  <2>3. PICK c2, a2, l2 : c2 = Coming(v)' /\ a2 = Accepted(v)' /\ l2 = Landed(v)'
    OBVIOUS
  <2>4. c \in Nat /\ a \in {0, 1} /\ l \in {0, 1}
    BY <2>2, CountsTyped
  <2>5. c2 \in Nat /\ a2 \in {0, 1} /\ l2 \in {0, 1}
    BY <2>3, CountsTypedNext
  <2>6. k \in Nat
    <3>1. box.counter[v] \in Nat /\ box.unsure[v] \in Nat
      BY DEF Scripted, Boxes, Counts
    <3> QED
      BY <2>2, <3>1
  <2>7. PICK n, n2 : n = CountOf(v) /\ n2 = CountOf(v)'
    OBVIOUS
  <2>8. n = k + c /\ n2 = k + c2
    BY <2>2, <2>3, <2>7 DEF CountOf
  <2>9. c2 + a2 <= c + a + x => n2 + a2 <= n + a + x
    BY <2>4, <2>5, <2>6, <2>8
  <2>10. c2 + l2 <= c + l + y => n2 + l2 <= n + l + y
    BY <2>4, <2>5, <2>6, <2>8
  <2>11. /\ Total(taken, v)' = Total(taken, v) + x /\ c2 + a2 <= c + a + x
         /\ Total(cash, v)' = Total(cash, v) + y /\ (AllAnswered' => c2 + l2 <= c + l + y)
    BY <2>1, <2>2, <2>3 DEF CountsMove
  <2>12. n2 + a2 <= n + a + x /\ (AllAnswered' => n2 + l2 <= n + l + y)
    BY <2>9, <2>10, <2>11
  <2> QED
    BY <2>2, <2>3, <2>7, <2>11, <2>12
<1> QED
  BY <1>1, BoxKept

\* No bill more is told to be accepted, or reaches the box.
LEMMA CountsStay ==
  ASSUME Hardwired, Hardwired', Scripted, Scripted', NEW v \in Bills,
         UNCHANGED <<cash, taken>>,
         \E d \in {0, 1} : /\ Coming(v)' = Coming(v) + d
                           /\ Accepted(v)' + d <= Accepted(v)
                           /\ AllAnswered' => Landed(v)' + d <= Landed(v)
  PROVE  \E x, y \in Nat : CountsMove(v, x, y)
<1>1. PICK d \in {0, 1} : /\ Coming(v)' = Coming(v) + d
                          /\ Accepted(v)' + d <= Accepted(v)
                          /\ AllAnswered' => Landed(v)' + d <= Landed(v)
  OBVIOUS
<1>2. PICK c, a, l, t, m : /\ c = Coming(v) /\ a = Accepted(v) /\ l = Landed(v)
                           /\ t = Total(taken, v) /\ m = Total(cash, v)
  OBVIOUS
<1>3. PICK a2, l2 : a2 = Accepted(v)' /\ l2 = Landed(v)'
  OBVIOUS
<1>4. c \in Nat /\ a \in {0, 1} /\ l \in {0, 1} /\ t \in Nat /\ m \in Nat
  BY <1>2, CountsTyped
<1>5. a2 \in {0, 1} /\ l2 \in {0, 1}
  BY <1>3, CountsTypedNext
<1>6. Total(taken, v)' = t /\ Total(cash, v)' = m
  BY <1>2
<1>7. t = t + 0 /\ m = m + 0
  BY <1>4
<1>8. a2 + d <= a => (c + d) + a2 <= c + a + 0
  BY <1>4, <1>5
<1>9. l2 + d <= l => (c + d) + l2 <= c + l + 0
  BY <1>4, <1>5
<1>10. CountsMove(v, 0, 0)
  BY <1>1, <1>2, <1>3, <1>6, <1>7, <1>8, <1>9 DEF CountsMove
<1> QED
  BY <1>10

LEMMA OneIfFacts ==
  /\ \A b : b => OneIf(b) = 1
  /\ \A b : ~b => OneIf(b) = 0
  /\ \A b : OneIf(b) \in {0, 1}
  BY DEF OneIf

\* Events and results that tell of no bill in the box.
LEMMA NotOfABill ==
  ASSUME NEW e, NEW v
  PROVE  /\ \A k, b, n : AnEvent(e, k, b, n) /\ k # "stacked" => OneIf(e \in StackedOf(v)) = 0
         /\ AResult(e) => OneIf(e \in StackedOf(v)) = 0
<1>1. e \in StackedOf(v) => e.k = "stacked"
  BY DEF StackedOf
<1>2. AResult(e) => e.k = "result"
  BY DEF AResult
<1> QED
  BY <1>1, <1>2, OneIfFacts DEF AnEvent

LEMMA NearbyComing ==
  ASSUME Hardwired, Hardwired', PathAgrees, Nearby, NEW v \in Bills
  PROVE  Coming(v)' = Coming(v)
<1>0. Coming(v) \in Nat /\ Coming(v) + 0 = Coming(v)
  <2>1. CountIn(queue, StackedOf(v)) \in Nat
    BY PlacesFinite DEF Hardwired
  <2>2. Coming(v) = CountIn(queue, StackedOf(v)) + OneIf(turn.at = "emit" /\ turn.event \in StackedOf(v))
    BY DEF Coming, CountIn
  <2>3. OneIf(turn.at = "emit" /\ turn.event \in StackedOf(v)) \in {0, 1}
    BY DEF OneIf
  <2> QED
    BY <2>1, <2>2, <2>3
<1>1. ASSUME NEW e \in Messages, OneIf(e \in StackedOf(v)) = 0, queue' = Append(queue, e),
             turn.at = "emit" \/ turn'.at = "emit" => turn' = turn
      PROVE  Coming(v)' = Coming(v)
  BY <1>0, <1>1, ComingPosted
<1>2. CASE UNCHANGED <<queue, turn>>
  BY <1>2 DEF Coming
<1>3. CASE ReadBill
  <2>1. PICK e : AnEvent(e, "escrowPending", 0, 0) /\ queue' = Append(queue, e)
    BY <1>3, ReadBillPosts
  <2>2. OneIf(e \in StackedOf(v)) = 0 /\ e \in Messages
    BY <2>1, NotOfABill DEF AnEvent
  <2>3. turn.at # "emit" /\ turn'.at # "emit"
    BY <1>3 DEF ReadBill, Byte
  <2> QED
    BY <1>1, <2>1, <2>2, <2>3
<1>4. CASE EmitOutcome
  <2>1. PICK e, f : /\ e \in Events /\ e \in Messages /\ e = turn.event
                    /\ AnEvent(f, "collectComplete", 0, turn.event.total)
                    /\ \/ queue' = Append(queue, e)
                       \/ queue' = Append(Append(queue, e), f)
    BY <1>4, EmitPosts
  <2>2. turn.at = "emit" /\ turn' = Idle /\ queue \in Seq(Messages) /\ f \in Messages
    BY <1>4, <2>1 DEF EmitOutcome, Hardwired, AnEvent
  <2>3. PICK q, M : q = Append(queue, e) /\ M = StackedOf(v)
    OBVIOUS
  <2>4. q \in Seq(Messages)
    BY <2>1, <2>2, <2>3
  <2>5. CountIn(q, M) = CountIn(queue, M) + OneIf(e \in M)
    BY <2>1, <2>2, <2>3, CountAppend
  <2>6. CountIn(Append(q, f), M) = CountIn(q, M) + OneIf(f \in M)
    BY <2>2, <2>4, CountAppend
  <2>7. OneIf(f \in M) = 0 /\ CountIn(q, M) \in Nat /\ CountIn(queue, M) \in Nat
    BY <2>1, <2>2, <2>3, <2>4, NotOfABill, PlacesFinite
  <2>8. CountIn(queue', M) = CountIn(queue, M) + OneIf(e \in M)
    <3>1. queue' = q \/ queue' = Append(q, f)
      BY <2>1, <2>3
    <3>2. CountIn(Append(q, f), M) = CountIn(q, M)
      BY <2>6, <2>7
    <3> QED
      BY <2>5, <3>1, <3>2
  <2>9. turn'.at # "emit"
    BY <2>2 DEF Idle
  <2>10. Coming(v) = CountIn(queue, M) + OneIf(e \in M)
    <3>1. Coming(v) = CountIn(queue, StackedOf(v))
                        + OneIf(turn.at = "emit" /\ turn.event \in StackedOf(v))
      BY DEF Coming, CountIn
    <3>2. OneIf(turn.at = "emit" /\ turn.event \in StackedOf(v)) = OneIf(e \in M)
      BY <2>1, <2>2, <2>3 DEF OneIf
    <3> QED
      BY <2>3, <3>1, <3>2
  <2>11. Coming(v)' = CountIn(queue', M) + 0
    <3>1. Coming(v)' = CountIn(queue', StackedOf(v))
                        + OneIf(turn'.at = "emit" /\ turn'.event \in StackedOf(v))
      BY DEF Coming, CountIn
    <3>2. OneIf(turn'.at = "emit" /\ turn'.event \in StackedOf(v)) = 0
      BY <2>9 DEF OneIf
    <3> QED
      BY <2>3, <3>1, <3>2
  <2>12. OneIf(e \in M) \in {0, 1}
    BY DEF OneIf
  <2>13. PICK k, o : k = CountIn(queue, M) /\ o = OneIf(e \in M)
    OBVIOUS
  <2> QED
    BY <2>7, <2>8, <2>10, <2>11, <2>12, <2>13
<1>5. CASE StopCollecting \/ StopSettled \/ ReturnBill
  <2>1. CASE StopCollecting /\ reader.escrow # 0
    <3>1. UNCHANGED <<queue, turn>>
      BY <2>1 DEF StopCollecting
    <3> QED
      BY <1>2, <3>1
  <2>2. CASE ~(StopCollecting /\ reader.escrow # 0)
    <3>1. PICK r : AResult(r) /\ queue' = Append(queue, r)
      BY <1>5, <2>2, ReturnPosts
    <3>2. OneIf(r \in StackedOf(v)) = 0 /\ r \in Messages
      BY <3>1, NotOfABill DEF AResult
    <3>3. turn' = turn
      BY <1>5 DEF StopCollecting, StopSettled, ReturnBill
    <3> QED
      BY <1>1, <3>1, <3>2, <3>3
  <2> QED
    BY <2>1, <2>2
<1>6. CASE (\E b \in Bills : InsertBill(b)) \/ GiveBack
  <2>1. UNCHANGED <<queue, turn>>
    BY <1>6 DEF InsertBill, GiveBack
  <2> QED
    BY <1>2, <2>1
<1> QED
  BY <1>3, <1>4, <1>5, <1>6 DEF Nearby

LEMMA NearbyBox ==
  ASSUME Hardwired, Hardwired', Scripted, Scripted', PathAgrees, Nearby, NEW v \in Bills
  PROVE  \E x, y \in Nat : CountsMove(v, x, y)
<1>1. /\ reader'.escrow = reader.escrow
      /\ reader'.accepted => reader.accepted
      /\ Stacking' => Stacking
      /\ Arrived' => Arrived
      /\ cash' = cash /\ taken' = taken
  BY NoNearer
<1>2. Coming(v)' = Coming(v) + 0
  BY NearbyComing, CountsTyped
<1>3. Accepted(v)' + 0 <= Accepted(v)
  <2>1. (reader'.escrow = v /\ (reader'.accepted \/ Stacking' \/ Arrived')) =>
          (reader.escrow = v /\ (reader.accepted \/ Stacking \/ Arrived))
    BY <1>1
  <2>2. PICK a, b : /\ a = (reader'.escrow = v /\ (reader'.accepted \/ Stacking' \/ Arrived'))
                    /\ b = (reader.escrow = v /\ (reader.accepted \/ Stacking \/ Arrived))
    OBVIOUS
  <2> QED
    BY <2>1 DEF Accepted, OneIf
<1>4. Landed(v)' + 0 <= Landed(v)
  <2>1. (reader'.escrow = v /\ Arrived') => (reader.escrow = v /\ Arrived)
    BY <1>1
  <2> QED
    BY <2>1 DEF Landed, OneIf
<1>5. UNCHANGED <<cash, taken>>
  BY <1>1
<1> QED
  BY <1>2, <1>3, <1>4, <1>5, CountsStay

\* Nothing in escrow is nothing on its way.
LEMMA NoEscrow ==
  ASSUME Hardwired', reader'.escrow = 0, NEW v \in Bills
  PROVE  Accepted(v)' = 0 /\ Landed(v)' = 0
<1>1. v # 0
  BY InBaht
<1>2. reader'.escrow # v
  BY <1>1
<1>3. ~(reader'.escrow = v /\ (reader'.accepted \/ Stacking' \/ Arrived'))
  BY <1>2
<1>4. ~(reader'.escrow = v /\ Arrived')
  BY <1>2
<1> QED
  BY <1>3, <1>4 DEF Accepted, Landed, OneIf

LEMMA StartBox ==
  ASSUME Hardwired, Hardwired', Scripted, Scripted', StartCollecting, NEW v \in Bills
  PROVE  \E x, y \in Nat : CountsMove(v, x, y)
<1>1. PICK e : AnEvent(e, "collecting", 0, 0) /\ queue' = Append(queue, e)
  BY StartPosts
<1>2. OneIf(e \in StackedOf(v)) = 0 /\ e \in Messages
  BY <1>1, NotOfABill DEF AnEvent
<1>3. turn' = turn /\ reader'.escrow = 0 /\ UNCHANGED <<cash, taken>>
  BY DEF StartCollecting, Reset, history
<1>4. Coming(v)' = Coming(v) + 0
  BY <1>1, <1>2, <1>3, ComingPosted
<1>5. Accepted(v)' = 0 /\ Landed(v)' = 0
  BY <1>3, NoEscrow
<1>6. Accepted(v) \in {0, 1} /\ Landed(v) \in {0, 1}
  BY CountsTyped
<1>7. PICK a, l : a = Accepted(v) /\ l = Landed(v)
  OBVIOUS
<1>8. 0 + 0 <= a /\ 0 + 0 <= l
  BY <1>6, <1>7
<1>9. Accepted(v)' + 0 <= Accepted(v) /\ Landed(v)' + 0 <= Landed(v)
  BY <1>5, <1>7, <1>8
<1> QED
  BY <1>3, <1>4, <1>9, CountsStay

\* 0x10 and 0x11 are read: what was in escrow is to be told.
LEMMA OutcomeBox ==
  ASSUME Hardwired, Hardwired', Scripted, Scripted', PathAgrees, ReadStacked \/ ReadReturned,
         NEW v \in Bills
  PROVE  \E x, y \in Nat : CountsMove(v, x, y)
<1>1. UNCHANGED <<cash, taken, queue>> /\ turn.at = "idle"
  BY DEF ReadStacked, ReadReturned, Settle, history, Byte
<1>2. reader'.escrow = 0
  BY OutcomePath, ReadPath DEF ReadStacked, ReadReturned, Settle, Hardwired, Readers
<1>3. Accepted(v)' = 0 /\ Landed(v)' = 0
  BY <1>2, NoEscrow
<1>4. PICK d : d = OneIf(turn'.at = "emit" /\ turn'.event \in StackedOf(v))
  OBVIOUS
<1>5. d \in {0, 1}
  BY <1>4 DEF OneIf
<1>6. Coming(v)' = Coming(v) + d
  <2>1. PICK k : k = CountIn(queue, StackedOf(v))
    OBVIOUS
  <2>2. k \in Nat
    BY <2>1, PlacesFinite DEF Hardwired
  <2>3. Coming(v) = k + 0
    <3>1. ~(turn.at = "emit" /\ turn.event \in StackedOf(v))
      BY <1>1
    <3>2. OneIf(turn.at = "emit" /\ turn.event \in StackedOf(v)) = 0
      BY <3>1 DEF OneIf
    <3> QED
      BY <2>1, <3>2 DEF Coming, CountIn
  <2>4. Coming(v)' = k + d
    BY <1>1, <1>4, <2>1 DEF Coming, CountIn
  <2> QED
    BY <1>5, <2>2, <2>3, <2>4
<1>7. ASSUME d = 1 PROVE reader.escrow = v /\ Arrived
  <2>1. turn'.event \in StackedOf(v)
    BY <1>4, <1>7 DEF OneIf
  <2>2. turn'.event.k = "stacked" /\ turn'.event.amount = v
    BY <2>1 DEF StackedOf
  <2>3. PICK k, t : turn' = Outcome(k, t) /\ (k = "stacked" => ReadStacked)
    BY DEF ReadStacked, ReadReturned, Settle
  <2>4. turn'.event.k = k /\ turn'.event.amount = reader.escrow
    BY <2>3 DEF Outcome, Event
  <2>5. ReadStacked
    BY <2>2, <2>3, <2>4
  <2>6. Arrived
    BY <2>5, ReadPath DEF ReadStacked, Arrived, Stacked
  <2> QED
    BY <2>2, <2>4, <2>6
<1>8. PICK a, l : a = Accepted(v) /\ l = Landed(v)
  OBVIOUS
<1>9. a \in {0, 1} /\ l \in {0, 1}
  BY <1>8, CountsTyped
<1>10. d = 1 => a = 1 /\ l = 1
  <2>1. ASSUME d = 1 PROVE a = 1 /\ l = 1
    <3>1. reader.escrow = v /\ (reader.accepted \/ Stacking \/ Arrived)
      BY <1>7, <2>1
    <3>2. reader.escrow = v /\ Arrived
      BY <1>7, <2>1
    <3> QED
      BY <1>8, <3>1, <3>2 DEF Accepted, Landed, OneIf
  <2> QED
    BY <2>1
<1>11. 0 + d <= a /\ 0 + d <= l
  BY <1>5, <1>9, <1>10
<1>12. Accepted(v)' + d <= Accepted(v) /\ Landed(v)' + d <= Landed(v)
  BY <1>3, <1>8, <1>11
<1>13. UNCHANGED <<cash, taken>>
  BY <1>1
<1> QED
  BY <1>5, <1>6, <1>12, <1>13, CountsStay

\* The stop gives up waiting, and tells of the bill it counts.
LEMMA TimeOutBox ==
  ASSUME Hardwired, Hardwired', Scripted, Scripted', PathAgrees, StopTimesOut, NEW v \in Bills
  PROVE  \E x, y \in Nat : CountsMove(v, x, y)
<1>1. /\ UNCHANGED <<cash, taken, turn, wire>>
      /\ mishap' = Blame(acceptor.now, "no answer") /\ acceptor' = Disable(acceptor)
  BY DEF StopTimesOut
<1>2. Stacking' => Stacking
  BY <1>1, DeviceFollows
<1>3. Arrived' => Arrived
  BY <1>1 DEF Arrived
<1>4. ASSUME reader' = reader, NEW r, AResult(r), queue' = Append(queue, r)
      PROVE  \E x, y \in Nat : CountsMove(v, x, y)
  <2>1. OneIf(r \in StackedOf(v)) = 0 /\ r \in Messages
    BY <1>4, NotOfABill DEF AResult
  <2>2. Coming(v)' = Coming(v) + 0
    BY <1>1, <1>4, <2>1, ComingPosted
  <2>3. (reader'.escrow = v /\ (reader'.accepted \/ Stacking' \/ Arrived')) =>
          (reader.escrow = v /\ (reader.accepted \/ Stacking \/ Arrived))
    BY <1>2, <1>3, <1>4
  <2>4. (reader'.escrow = v /\ Arrived') => (reader.escrow = v /\ Arrived)
    BY <1>3, <1>4
  <2>5. Accepted(v)' + 0 <= Accepted(v)
    BY <2>3 DEF Accepted, OneIf
  <2>6. Landed(v)' + 0 <= Landed(v)
    BY <2>4 DEF Landed, OneIf
  <2> QED
    BY <1>1, <2>2, <2>5, <2>6, CountsStay
<1>5. ASSUME reader.accepted, reader.escrow # 0, reader'.escrow = 0, NEW e, NEW r, AResult(r),
             AnEvent(e, "stacked", reader.escrow, reader'.collected),
             queue' = Append(Append(queue, e), r)
      PROVE  \E x, y \in Nat : CountsMove(v, x, y)
  <2>1. PICK d : d = OneIf(e \in StackedOf(v))
    OBVIOUS
  <2>2. d \in {0, 1}
    BY <2>1 DEF OneIf
  <2>3. Coming(v)' = Coming(v) + d
    <3>1. PICK q, M : q = Append(queue, e) /\ M = StackedOf(v)
      OBVIOUS
    <3>2. e \in Messages /\ r \in Messages /\ queue \in Seq(Messages)
      BY <1>5 DEF AnEvent, AResult, Hardwired
    <3>3. q \in Seq(Messages)
      BY <3>1, <3>2
    <3>4. CountIn(q, M) = CountIn(queue, M) + OneIf(e \in M)
      BY <3>1, <3>2, CountAppend
    <3>5. CountIn(Append(q, r), M) = CountIn(q, M) + OneIf(r \in M)
      BY <3>2, <3>3, CountAppend
    <3>6. OneIf(r \in M) = 0 /\ CountIn(queue, M) \in Nat
      BY <1>5, <3>1, <3>2, NotOfABill, PlacesFinite
    <3>7. PICK k, k2, t : /\ k = CountIn(queue, M) /\ k2 = CountIn(queue', M)
                          /\ t = OneIf(turn.at = "emit" /\ turn.event \in StackedOf(v))
      OBVIOUS
    <3>8. t \in {0, 1}
      BY <3>7 DEF OneIf
    <3>9. k \in Nat /\ k2 = (k + d) + 0
      BY <1>5, <2>1, <3>1, <3>4, <3>5, <3>6, <3>7
    <3>10. Coming(v) = k + t
      BY <3>1, <3>7 DEF Coming, CountIn
    <3>11. Coming(v)' = k2 + t
      BY <1>1, <3>1, <3>7 DEF Coming, CountIn
    <3> QED
      BY <2>2, <3>8, <3>9, <3>10, <3>11
  <2>4. Accepted(v)' = 0 /\ Landed(v)' = 0
    BY <1>5, NoEscrow
  <2>5. PICK a : a = Accepted(v)
    OBVIOUS
  <2>6. a \in {0, 1}
    BY <2>5, CountsTyped
  <2>7. d = 1 => a = 1
    <3>1. ASSUME d = 1 PROVE a = 1
      <4>1. e \in StackedOf(v)
        BY <2>1, <3>1 DEF OneIf
      <4>2. reader.escrow = v
        BY <1>5, <4>1 DEF StackedOf, AnEvent
      <4>3. reader.escrow = v /\ (reader.accepted \/ Stacking \/ Arrived)
        BY <1>5, <4>2
      <4> QED
        BY <2>5, <4>3 DEF Accepted, OneIf
    <3> QED
      BY <3>1
  <2>8. 0 + d <= a
    BY <2>2, <2>6, <2>7
  <2>9. Accepted(v)' + d <= Accepted(v)
    BY <2>4, <2>5, <2>8
  <2>10. ~AllAnswered'
    <3>1. PICK n : n = acceptor.now
      OBVIOUS
    <3>2. n \in Sessions
      BY <1>5, <3>1 DEF PathAgrees, Hardwired, Acceptors
    <3>3. "no answer" \in mishap'[n]
      BY <1>1, <3>1, <3>2, BlameGrows
    <3> QED
      BY <3>2, <3>3 DEF AllAnswered
  <2> QED
    BY <1>1, <2>2, <2>3, <2>9, <2>10, CountsStay
<1> QED
  BY <1>4, <1>5, TimeOutPosts

\* A bill in the box is a bill told to be accepted, and one of the escrow is
\* to be counted.
LEMMA StackBox ==
  ASSUME Hardwired, Hardwired', Scripted, Scripted', PathAgrees, StackBill, NEW v \in Bills
  PROVE  \E x, y \in Nat : CountsMove(v, x, y)
<1>1. Stacking /\ ~Empty /\ acceptor.s \in Sessions /\ acceptor.bill \in Bills
  BY DEF StackBill, Stacking, Empty, PathAgrees, Hardwired, Acceptors
<1>2. PICK y : y = IF v = acceptor.bill THEN 1 ELSE 0
  OBVIOUS
<1>3. Total(cash, v)' = Total(cash, v) + y
  BY <1>1, <1>2, OneMoreTotal DEF StackBill, Hardwired
<1>4. UNCHANGED <<reader, turn, queue, taken>>
  BY DEF StackBill
<1>5. Coming(v)' = Coming(v) /\ Total(taken, v)' = Total(taken, v)
  BY <1>4 DEF Coming
<1>6. reader'.escrow = v => Accepted(v) = 1 /\ y = 1
  <2>1. ASSUME reader.escrow = v
        PROVE  (reader.accepted \/ Stacking \/ Arrived) /\ acceptor.bill = v
    BY <1>1, <2>1, InBaht DEF PathAgrees
  <2> QED
    BY <1>2, <1>4, <2>1 DEF Accepted, OneIf
<1>7. reader'.escrow # v => Accepted(v)' = 0 /\ Landed(v)' = 0
  BY DEF Accepted, Landed, OneIf
<1>8. PICK c, a, l, t, m : /\ c = Coming(v) /\ a = Accepted(v) /\ l = Landed(v)
                           /\ t = Total(taken, v) /\ m = Total(cash, v)
  OBVIOUS
<1>9. PICK a2, l2 : a2 = Accepted(v)' /\ l2 = Landed(v)'
  OBVIOUS
<1>10. c \in Nat /\ a \in {0, 1} /\ l \in {0, 1} /\ t \in Nat /\ m \in Nat
  BY <1>8, CountsTyped
<1>11. a2 \in {0, 1} /\ l2 \in {0, 1} /\ y \in {0, 1}
  BY <1>2, <1>9, CountsTypedNext
<1>12. c + a2 <= c + a + 0 /\ c + l2 <= c + l + y
  <2>1. a2 <= a /\ l2 <= y
    BY <1>6, <1>7, <1>8, <1>9, <1>10, <1>11
  <2> QED
    BY <1>10, <1>11, <2>1
<1>13. t = t + 0
  BY <1>10
<1>14. CountsMove(v, 0, y)
  BY <1>3, <1>5, <1>8, <1>9, <1>12, <1>13 DEF CountsMove
<1> QED
  BY <1>11, <1>14

\* Posting anything but a stacked bill leaves what is coming.
LEMMA OtherComing ==
  ASSUME Hardwired, NEW v \in Bills, turn.at = "emit" \/ turn'.at = "emit" => turn' = turn,
         \/ queue' = queue
         \/ \E e : /\ OneIf(e \in StackedOf(v)) = 0 /\ e \in Messages
                   /\ queue' = Append(queue, e)
  PROVE  Coming(v)' = Coming(v) /\ Coming(v) \in Nat
<1>1. Coming(v) \in Nat
  <2>1. CountIn(queue, StackedOf(v)) \in Nat
    BY PlacesFinite DEF Hardwired
  <2>2. Coming(v) = CountIn(queue, StackedOf(v))
                      + OneIf(turn.at = "emit" /\ turn.event \in StackedOf(v))
    BY DEF Coming, CountIn
  <2>3. OneIf(turn.at = "emit" /\ turn.event \in StackedOf(v)) \in {0, 1}
    BY DEF OneIf
  <2> QED
    BY <2>1, <2>2, <2>3
<1>2. CASE queue' = queue
  <2>1. (turn'.at = "emit" /\ turn'.event \in StackedOf(v))
          <=> (turn.at = "emit" /\ turn.event \in StackedOf(v))
    OBVIOUS
  <2> QED
    BY <1>1, <1>2, <2>1 DEF Coming, OneIf
<1>3. CASE queue' # queue
  <2>1. PICK e \in Messages : OneIf(e \in StackedOf(v)) = 0 /\ queue' = Append(queue, e)
    BY <1>3
  <2>2. Coming(v)' = Coming(v) + 0
    BY <2>1, ComingPosted
  <2> QED
    BY <1>1, <2>2
<1> QED
  BY <1>2, <1>3

\* The device is told to accept a bill, at once or by the customer.
LEMMA AcceptBox ==
  ASSUME Hardwired, Hardwired', Scripted, Scripted', PathAgrees, DecideBill \/ AcceptBill,
         NEW v \in Bills
  PROVE  \E x, y \in Nat : CountsMove(v, x, y)
<1>1. cash' = cash /\ wire' = wire
  BY DEF DecideBill, AcceptBill
<1>2. Coming(v)' = Coming(v)
  <2>1. turn.at = "emit" \/ turn'.at = "emit" => turn' = turn
    <3>1. (turn.at = "decide" /\ turn' = Idle) \/ turn' = turn
      BY DEF DecideBill, AcceptBill
    <3> QED
      BY <3>1 DEF Idle
  <2>2. CASE DecideBill
    <3>1. \/ queue' = queue
          \/ \E e : /\ OneIf(e \in StackedOf(v)) = 0 /\ e \in Messages
                    /\ queue' = Append(queue, e)
      BY <2>2, DecidePosts, NotOfABill DEF AnEvent
    <3> QED
      BY <2>1, <3>1, OtherComing
  <2>3. CASE AcceptBill
    <3>1. \E e : /\ OneIf(e \in StackedOf(v)) = 0 /\ e \in Messages
                 /\ queue' = Append(queue, e)
      BY <2>3, ReturnPosts, NotOfABill DEF AResult
    <3> QED
      BY <2>1, <3>1, OtherComing
  <2> QED
    BY <2>2, <2>3
<1>3. PICK n, e : n = acceptor.now /\ e = reader'.escrow
  OBVIOUS
<1>4. \/ taken' = OneMore(taken, n, e) /\ n \in Sessions /\ e \in Bills
      \/ taken' = taken /\ (e = v => ~reader'.accepted /\ ~Stacking' /\ ~Arrived')
  <2>1. CASE DecideBill
    <3>1. PICK b, w : b = turn.bill /\ w = Verdict(b)
      OBVIOUS
    <3>2. /\ e = b /\ (reader'.accepted <=> w = "accept")
          /\ turn.at = "decide"
      BY <1>3, <2>1, <3>1 DEF DecideBill, Hardwired, Readers
    <3>3. n \in Sessions /\ ~Stacking /\ (wire = <<>> \/ wire = <<Returned>>)
      BY <1>3, <3>2 DEF PathAgrees, Hardwired, Acceptors
    <3>4. w # "accept" => ~Stacking'
      <4>1. w # "accept" => acceptor' \in {Decline(acceptor), Hold(acceptor)}
        BY <2>1, <3>1 DEF DecideBill, Verdict
      <4> QED
        BY <3>3, <4>1 DEF Decline, Hold, Holds, Stacking, Hardwired, Acceptors
    <3>5. ~Arrived'
      BY <1>1, <3>3 DEF Arrived, Stacked, Returned
    <3>6. b \in Bills
      <4>1. turn \in Turns
        BY DEF Hardwired
      <4> QED
        BY <3>1, <3>2, <4>1 DEF Turns, Idle
    <3>7. taken' = IF w = "accept" THEN OneMore(taken, n, b) ELSE taken
      BY <1>3, <2>1, <3>1 DEF DecideBill
    <3> QED
      BY <3>2, <3>3, <3>4, <3>5, <3>6, <3>7
  <2>2. CASE AcceptBill
    <3>1. e = reader.escrow
      BY <1>3, <2>2 DEF AcceptBill, Hardwired, Readers
    <3>2. CASE e = 0
      BY <2>2, <3>1, <3>2, InBaht DEF AcceptBill
    <3>3. CASE e # 0
      <4>1. n \in Sessions /\ e \in Bills
        BY <1>3, <3>1, <3>3 DEF PathAgrees, Hardwired, Acceptors, Readers
      <4> QED
        BY <1>3, <2>2, <3>1, <3>3, <4>1 DEF AcceptBill
    <3> QED
      BY <3>2, <3>3
  <2> QED
    BY <2>1, <2>2
<1>5. Landed(v)' = 1 => Landed(v) = 1
  <2>1. ASSUME reader'.escrow = v, Arrived' PROVE reader.escrow = v /\ Arrived
    <3>1. Arrived
      BY <1>1, <2>1 DEF Arrived
    <3>2. wire # <<>> /\ wire # <<Returned>>
      BY <3>1 DEF Arrived, Stacked, Returned
    <3>3. turn.at # "decide"
      BY <3>2 DEF PathAgrees
    <3>4. reader.escrow = reader'.escrow
      BY <3>3 DEF DecideBill, AcceptBill, Hardwired, Readers
    <3> QED
      BY <2>1, <3>1, <3>4
  <2> QED
    BY <2>1 DEF Landed, OneIf
<1>6. PICK x : x = IF taken' # taken /\ v = e THEN 1 ELSE 0
  OBVIOUS
<1>7. Total(taken, v)' = Total(taken, v) + x
  <2>1. CASE taken' = taken
    <3>1. x = 0 /\ Total(taken, v) \in Nat
      BY <1>6, <2>1, CountsTyped
    <3>2. Total(taken, v)' = Total(taken, v)
      BY <2>1
    <3> QED
      BY <3>1, <3>2
  <2>2. CASE taken' # taken
    <3>1. taken' = OneMore(taken, n, e) /\ n \in Sessions /\ e \in Bills
      BY <1>4, <2>2
    <3>2. Total(taken', v) = Total(taken, v) + (IF v = e THEN 1 ELSE 0)
      BY <3>1, OneMoreTotal DEF Hardwired
    <3> QED
      BY <1>6, <2>2, <3>2
  <2> QED
    BY <2>1, <2>2
<1>8. Accepted(v)' = 1 => Accepted(v) = 1 \/ x = 1
  <2>1. ASSUME reader'.escrow = v, reader'.accepted \/ Stacking' \/ Arrived' PROVE x = 1
    <3>1. e = v
      BY <1>3, <2>1
    <3>2. taken' # taken
      <4>1. CASE taken' = OneMore(taken, n, e) /\ n \in Sessions /\ e \in Bills
        <5>1. Total(taken', e) = Total(taken, e) + 1 /\ Total(taken, e) \in Nat
          BY <4>1, OneMoreTotal, TotalType DEF Hardwired
        <5> QED
          BY <5>1
      <4> QED
        BY <1>4, <2>1, <3>1, <4>1
    <3> QED
      BY <1>6, <3>1, <3>2
  <2> QED
    BY <2>1 DEF Accepted, OneIf
<1>9. PICK c, a, l, t, m : /\ c = Coming(v) /\ a = Accepted(v) /\ l = Landed(v)
                           /\ t = Total(taken, v) /\ m = Total(cash, v)
  OBVIOUS
<1>10. PICK a2, l2 : a2 = Accepted(v)' /\ l2 = Landed(v)'
  OBVIOUS
<1>11. c \in Nat /\ a \in {0, 1} /\ l \in {0, 1} /\ t \in Nat /\ m \in Nat
  BY <1>9, CountsTyped
<1>12. a2 \in {0, 1} /\ l2 \in {0, 1} /\ x \in {0, 1}
  BY <1>6, <1>10, CountsTypedNext
<1>13. c + a2 <= c + a + x /\ c + l2 <= c + l + 0 /\ m = m + 0
  <2>1. a2 <= a + x /\ l2 <= l
    BY <1>5, <1>8, <1>9, <1>10, <1>11, <1>12
  <2> QED
    BY <1>11, <1>12, <2>1
<1>14. CountsMove(v, x, 0)
  BY <1>1, <1>2, <1>7, <1>9, <1>10, <1>13 DEF CountsMove
<1> QED
  BY <1>12, <1>14

LEMMA HardwareBox ==
  ASSUME Hardwired, Hardwired', Scripted, Scripted', PathAgrees, BoxAgrees, Hardware
  PROVE  BoxAgrees'
<1>1. \A s \in Sessions : mishap[s] \subseteq mishap'[s]
  BY HardwareGrows DEF Grown
<1>2. UNCHANGED box
  BY DEF Hardware, script
<1>3. ASSUME NEW v \in Bills PROVE \E x, y \in Nat : CountsMove(v, x, y)
  BY NearbyBox, StackBox, AcceptBox, OutcomeBox, TimeOutBox, StartBox, Zenon
     DEF Hardware, ReaderThread, PluginThread, Device, Nearby
<1> QED
  BY <1>1, <1>2, <1>3, HardBoxKept

----------------------------------------------------------------------------
(* What the script does to the history, and to the counter of the box *)

MishapsGrow == \A s \in Sessions : mishap[s] \subseteq mishap'[s]

LEMMA ResetByGrows ==
  ASSUME Hardwired, NEW x, NEW s \in Sessions
  PROVE  mishap[s] \subseteq ResetBy(x)[s]
<1>1. PICK own : own = IF js.ref = x /\ x # 0 /\ js.collected > 0 /\ work[x] \in {"none", "stopping"}
                       THEN Blame(x, "dropped") ELSE mishap
  OBVIOUS
<1>2. own \in [Sessions -> SUBSET Mishaps] /\ mishap[s] \subseteq own[s]
  BY <1>1, BlameTyped DEF Hardwired, Blame, Mishaps
<1>3. ResetBy(x) = own \/ ResetBy(x) = [own EXCEPT ![js.ref] = @ \cup {"wiped"}]
  BY <1>1 DEF ResetBy
<1> QED
  BY <1>2, <1>3

LEMMA LostGrows ==
  ASSUME Hardwired, NEW slot, NEW x, NEW how, NEW s \in Sessions
  PROVE  mishap[s] \subseteq Lost(slot, x, how)[s]
  BY DEF Lost, Blame, Hardwired

LEMMA LeftGrows ==
  ASSUME Hardwired, NEW s \in Sessions
  PROVE  mishap[s] \subseteq LeftBehind(mishap)[s]
  BY DEF LeftBehind, Hardwired

LEMMA CustomerElsewhere ==
  ASSUME Hardwired, Customer
  PROVE  Elsewhere /\ MishapsGrow /\ UNCHANGED <<queue, box>>
<1>1. Elsewhere /\ UNCHANGED <<queue, box>>
  BY DEF Customer, SelectCash, Back, Cancel, ExecuteCancel, InhibitAccepting, IdleExpires,
         FinishAndLogout, AnswerOverpay, Free, Elsewhere, device, history
<1>2. CASE \E t \in Targets : SelectCash(t)
  <2>1. mishap' = [x \in Sessions |->
                     IF work[x] = "stopping" THEN mishap[x] \cup {"dropped"} ELSE mishap[x]]
    BY <1>2 DEF SelectCash
  <2> QED
    BY <1>1, <2>1 DEF MishapsGrow
<1>3. CASE ~\E t \in Targets : SelectCash(t)
  <2>1. mishap' = mishap
    BY <1>3 DEF Customer, Back, Cancel, ExecuteCancel, InhibitAccepting, IdleExpires,
                FinishAndLogout, AnswerOverpay, history
  <2> QED
    BY <1>1, <2>1 DEF MishapsGrow
<1> QED
  BY <1>2, <1>3

LEMMA ApiElsewhere ==
  ASSUME Hardwired, Api \/ HandleUnlock \/ ResumeApp
  PROVE  Elsewhere /\ MishapsGrow /\ UNCHANGED <<queue, box>>
<1>1. Elsewhere /\ UNCHANGED <<queue, box>>
  <2>1. ASSUME NEW s \in Sessions, \/ CallReturns(s) \/ Refreshed(s) \/ CallFails(s)
                                    \/ EnterOutOfService(s)
        PROVE  Elsewhere /\ UNCHANGED <<queue, box>>
    <3>1. CallReturns(s) => Elsewhere /\ UNCHANGED <<queue, box>>
      BY DEF CallReturns, Elsewhere, device, plugin, history
    <3>2. Refreshed(s) => Elsewhere /\ UNCHANGED <<queue, box>>
      BY DEF Refreshed, Ends, Elsewhere, device, plugin, history
    <3>3. CallFails(s) => Elsewhere /\ UNCHANGED <<queue, box>>
      BY DEF CallFails, Ends, Elsewhere, device, plugin, history
    <3>4. EnterOutOfService(s) => Elsewhere /\ UNCHANGED <<queue, box>>
      BY DEF EnterOutOfService, Elsewhere, device, plugin, history
    <3> QED
      BY <2>1, <3>1, <3>2, <3>3, <3>4
  <2>2. ASSUME NEW q, ServerCredits(q)
        PROVE  Elsewhere /\ UNCHANGED <<queue, box>>
    BY <2>2 DEF ServerCredits, Elsewhere, readerVars, script
  <2>3. RetryReturns => Elsewhere /\ UNCHANGED <<queue, box>>
    BY DEF RetryReturns, Elsewhere, device, plugin, history
  <2>4. RetryFails => Elsewhere /\ UNCHANGED <<queue, box>>
    BY DEF RetryFails, Elsewhere, readerVars
  <2>5. HandleUnlock => Elsewhere /\ UNCHANGED <<queue, box>>
    BY DEF HandleUnlock, Elsewhere, device, plugin, history
  <2>6. ResumeApp => Elsewhere /\ UNCHANGED <<queue, box>>
    BY DEF ResumeApp, Elsewhere, device, plugin, history
  <2> QED
    BY <2>1, <2>2, <2>3, <2>4, <2>5, <2>6 DEF Api
<1>2. \/ mishap' = mishap \/ mishap' = LeftBehind(mishap) \/ (\E x : mishap' = ResetBy(x))
      \/ \E slot, x, how : mishap' = Lost(slot, x, how)
  <2>1. PICK r : r = retry.ref
    OBVIOUS
  <2>2. \/ mishap' = mishap \/ mishap' = LeftBehind(mishap)
        \/ \E s \in Sessions : mishap' = ResetBy(s) \/ mishap' = Lost(pending, s, "cleared")
        \/ mishap' = Lost(pending, 0, "unlocked") \/ mishap' = Lost(pending, r, "cleared")
    BY <2>1 DEF Api, HandleUnlock, ResumeApp, CallReturns, Refreshed, CallFails, Ends,
           EnterOutOfService, ServerCredits, RetryReturns, RetryFails, ClearPending, readerVars
  <2> QED
    BY <2>2
<1>3. MishapsGrow
  BY <1>2, ResetByGrows, LostGrows, LeftGrows DEF MishapsGrow
<1> QED
  BY <1>1, <1>3

LEMMA ScriptElsewhere ==
  ASSUME Hardwired, Script
  PROVE  /\ Elsewhere /\ MishapsGrow /\ queue # <<>> /\ queue' = Tail(queue)
         /\ Head(queue).k = "result" => box' \in {box, flushPending(box)}
<1>1. Elsewhere /\ queue # <<>> /\ queue' = Tail(queue)
  BY DEF Script, HandleEvent, AfterStop, AfterFinalizeStop, AfterBack, AfterLeave, Resolved,
         Elsewhere, device, plugin, history
<1>2. Head(queue).k = "result" => box' \in {box, flushPending(box)}
  BY DEF Script, HandleEvent, AfterStop, AfterFinalizeStop, Finalized, AfterBack, AfterLeave
<1>3. PICK a : a = Of.s
  OBVIOUS
<1>4. \/ mishap' = mishap \/ mishap' = ResetBy(a) \/ mishap' = Lost(pending, a, "overwritten")
      \/ mishap' = [x \in Sessions |-> ResetBy(a)[x] \cup LeftBehind(mishap)[x]]
  BY <1>3 DEF Script, HandleEvent, AfterStop, AfterFinalizeStop, Finalized, AfterBack, AfterLeave, history
<1>5. MishapsGrow
  BY <1>4, ResetByGrows, LostGrows, LeftGrows DEF MishapsGrow
<1> QED
  BY <1>1, <1>2, <1>5

LEMMA RestartGrows ==
  ASSUME Hardwired, Restart
  PROVE  Grown /\ MishapsGrow
<1>1. MishapsGrow
  BY DEF Restart, MishapsGrow, Hardwired
<1>2. cash' = cash /\ taken' = taken
  BY DEF Restart
<1> QED
  BY <1>1, <1>2, Grows DEF MishapsGrow

LEMMA ScriptBox ==
  ASSUME Hardwired, Hardwired', Scripted, Scripted', BoxAgrees, Elsewhere, MishapsGrow,
         \A v \in Bills : CountOf(v)' <= CountOf(v)
  PROVE  BoxAgrees'
<1>1. ASSUME NEW v \in Bills
      PROVE  \E x, y \in Nat :
               /\ Total(taken, v)' = Total(taken, v) + x
               /\ CountOf(v)' + Accepted(v)' <= CountOf(v) + Accepted(v) + x
               /\ Total(cash, v)' = Total(cash, v) + y
               /\ AllAnswered' => CountOf(v)' + Landed(v)' <= CountOf(v) + Landed(v) + y
  <2>1. UNCHANGED <<reader, acceptor, wire, cash, taken>>
    BY DEF Elsewhere
  <2>2. PICK c, a, l, t, m : /\ c = CountOf(v) /\ a = Accepted(v) /\ l = Landed(v)
                             /\ t = Total(taken, v) /\ m = Total(cash, v)
    OBVIOUS
  <2>3. Accepted(v)' = a /\ Landed(v)' = l
    BY <2>1, <2>2 DEF Accepted, Landed, Stacking, Arrived
  <2>4. Total(taken, v)' = t /\ Total(cash, v)' = m
    BY <2>1, <2>2
  <2>5. PICK c2 : c2 = CountOf(v)'
    OBVIOUS
  <2>6. c \in Nat /\ a \in {0, 1} /\ l \in {0, 1} /\ t \in Nat /\ m \in Nat /\ c2 \in Nat
    BY <2>2, <2>5, CountsTyped, CountsTypedNext
  <2>7. c2 <= c
    BY <2>2, <2>5
  <2>8. c2 + a <= c + a + 0 /\ c2 + l <= c + l + 0 /\ t = t + 0 /\ m = m + 0
    BY <2>6, <2>7
  <2>9. 0 \in Nat
    OBVIOUS
  <2> QED
    BY <2>2, <2>3, <2>4, <2>5, <2>8, <2>9
<1> QED
  BY <1>1, BoxKept DEF MishapsGrow

\* A step that handles no message and leaves the counter.
LEMMA SameBox ==
  ASSUME Hardwired, Hardwired', Scripted, Scripted', BoxAgrees, Elsewhere, MishapsGrow,
         UNCHANGED <<queue, box>>
  PROVE  BoxAgrees'
<1>1. ASSUME NEW v \in Bills PROVE CountOf(v)' <= CountOf(v)
  <2>1. turn' = turn
    BY DEF Elsewhere
  <2>2. CountOf(v)' = CountOf(v)
    BY <2>1 DEF CountOf, Coming
  <2> QED
    BY <2>2, CountsTyped
<1> QED
  BY <1>1, ScriptBox

\* The counter, with the part of it that may still be taken back.
Sure(b, v) == b.counter[v] + b.unsure[v]

LEMMA Flushed ==
  ASSUME NEW b \in Boxes, NEW v \in Bills
  PROVE  Sure(flushPending(b), v) = Sure(b, v)
<1>1. flushPending(b).counter[v] = b.counter[v] + b.unsure[v]
      /\ flushPending(b).unsure[v] = 0
  BY DEF flushPending, NoBills
<1>2. b.counter[v] \in Nat /\ b.unsure[v] \in Nat
  BY DEF Boxes, Counts
<1> QED
  BY <1>1, <1>2 DEF Sure

LEMMA StackedCounted ==
  ASSUME NEW b \in Boxes, NEW w \in Bills \cup {0}, NEW inFlight \in BOOLEAN, NEW v \in Bills
  PROVE  Sure(onBillStacked(b, w, inFlight), v) = Sure(b, v) + (IF w = v THEN 1 ELSE 0)
<1>1. PICK c, d, u : /\ c = b.counter /\ d = b.counted /\ u = b.unsure
                     /\ c \in Counts /\ d \in Counts /\ u \in Counts
  BY DEF Boxes
<1>2. c[v] \in Nat /\ u[v] \in Nat
  BY <1>1 DEF Counts
<1>3. CASE w = 0
  <2>1. onBillStacked(b, w, inFlight) = b /\ w # v
    BY <1>3, InBaht DEF onBillStacked
  <2> QED
    BY <1>1, <1>2, <2>1 DEF Sure
<1>4. CASE w # 0 /\ inFlight
  <2>1. onBillStacked(b, w, inFlight) = [b EXCEPT !.unsure = Plus(u, w)]
    BY <1>1, <1>4 DEF onBillStacked
  <2>2. /\ onBillStacked(b, w, inFlight).counter = c
        /\ onBillStacked(b, w, inFlight).unsure = Plus(u, w)
    BY <1>1, <2>1 DEF Boxes
  <2>3. Plus(u, w)[v] = u[v] + (IF w = v THEN 1 ELSE 0)
    BY <1>1, <1>2 DEF Plus, Counts
  <2> QED
    BY <1>1, <1>2, <2>2, <2>3 DEF Sure
<1>5. CASE w # 0 /\ ~inFlight
  <2>1. onBillStacked(b, w, inFlight) = [b EXCEPT !.counter = Plus(c, w), !.counted = Plus(d, w)]
    BY <1>1, <1>5 DEF onBillStacked, recordStackedBill
  <2>2. /\ onBillStacked(b, w, inFlight).counter = Plus(c, w)
        /\ onBillStacked(b, w, inFlight).unsure = u
    BY <1>1, <2>1 DEF Boxes
  <2>3. Plus(c, w)[v] = c[v] + (IF w = v THEN 1 ELSE 0)
    BY <1>1, <1>2 DEF Plus, Counts
  <2> QED
    BY <1>1, <1>2, <2>2, <2>3 DEF Sure
<1> QED
  BY <1>3, <1>4, <1>5

LEMMA MinusLess ==
  ASSUME NEW g \in Counts, NEW w, NEW v \in Bills
  PROVE  Minus(g, w)[v] \in Nat /\ Minus(g, w)[v] <= g[v]
<1>1. g[v] \in Nat
  BY DEF Counts
<1>2. Minus(g, w)[v] = IF v = w THEN (IF g[v] > 0 THEN g[v] - 1 ELSE 0) ELSE g[v]
  BY DEF Minus, Counts
<1> QED
  BY <1>1, <1>2

LEMMA ReturnedCounted ==
  ASSUME NEW b \in Boxes, NEW w, NEW v \in Bills
  PROVE  Sure(onBillReturned(b, w), v) <= Sure(b, v)
<1>1. PICK c, d, u : /\ c = b.counter /\ d = b.counted /\ u = b.unsure
                     /\ c \in Counts /\ d \in Counts /\ u \in Counts
  BY DEF Boxes
<1>2. c[v] \in Nat /\ u[v] \in Nat
  BY <1>1 DEF Counts
<1>3. \/ onBillReturned(b, w) = b
      \/ onBillReturned(b, w) = [b EXCEPT !.unsure = Minus(u, w)]
      \/ onBillReturned(b, w) = [b EXCEPT !.counted = Minus(d, w), !.counter = Minus(c, w)]
  BY <1>1 DEF onBillReturned
<1>4. \/ onBillReturned(b, w).counter = c /\ onBillReturned(b, w).unsure = u
      \/ onBillReturned(b, w).counter = c /\ onBillReturned(b, w).unsure = Minus(u, w)
      \/ onBillReturned(b, w).counter = Minus(c, w) /\ onBillReturned(b, w).unsure = u
  BY <1>1, <1>3 DEF Boxes
<1>5. /\ Minus(c, w)[v] \in Nat /\ Minus(c, w)[v] <= c[v]
      /\ Minus(u, w)[v] \in Nat /\ Minus(u, w)[v] <= u[v]
  BY <1>1, MinusLess
<1>6. PICK r : r = onBillReturned(b, w)
  OBVIOUS
<1> QED
  BY <1>1, <1>2, <1>4, <1>5, <1>6 DEF Sure

LEMMA ScriptStepBox ==
  ASSUME Hardwired, Hardwired', Scripted, Scripted', BoxAgrees, Script
  PROVE  BoxAgrees'
<1>1. /\ Elsewhere /\ MishapsGrow /\ queue # <<>> /\ queue' = Tail(queue)
      /\ Head(queue).k = "result" => box' \in {box, flushPending(box)}
  BY ScriptElsewhere
<1>2. ASSUME NEW v \in Bills PROVE CountOf(v)' <= CountOf(v)
  <2>1. PICK d : d = OneIf(Head(queue) \in StackedOf(v))
    OBVIOUS
  <2>2. turn' = turn
    BY <1>1 DEF Elsewhere
  <2>3. Coming(v) = Coming(v)' + d
    BY <1>1, <2>1, <2>2, ComingHandled
  <2>4. Coming(v) \in Nat /\ Coming(v)' \in Nat /\ d \in {0, 1}
    BY <2>1, CountsTyped, CountsTypedNext DEF OneIf
  <2>5. box \in Boxes /\ box' \in Boxes
    BY DEF Scripted
  <2>6. Sure(box, v) \in Nat /\ Sure(box', v) \in Nat
    BY <2>5 DEF Boxes, Counts, Sure
  <2>7. Sure(box', v) <= Sure(box, v) + d
    <3>1. PICK k, k2 : k = Sure(box, v) /\ k2 = Sure(box', v)
      OBVIOUS
    <3>2. k2 <= k => k2 <= k + d
      BY <2>4, <2>6, <3>1
    <3>3. CASE box' = box \/ box' = flushPending(box)
      <4>1. k2 = k
        BY <2>5, <3>1, <3>3, Flushed
      <4> QED
        BY <2>6, <3>1, <3>2, <4>1
    <3>4. CASE ~(box' = box \/ box' = flushPending(box))
      <4>1. HandleEvent /\ Head(queue).k # "result"
        BY <1>1, <3>4 DEF Script, AfterStop, AfterFinalizeStop, AfterBack, AfterLeave, Resolved
      <4>2. PICK e : e = Head(queue)
        OBVIOUS
      <4>3. e \in Events
        BY <1>1, <4>1, <4>2 DEF Hardwired, Messages, Results
      <4>4. CASE e.k = "stacked"
        <5>1. box' = onBillStacked(box, e.amount, e.inFlight)
          BY <4>1, <4>2, <4>4 DEF HandleEvent
        <5>2. e.amount \in Bills \cup {0} /\ e.inFlight \in BOOLEAN
          BY <4>3 DEF Events
        <5>3. k2 = k + (IF e.amount = v THEN 1 ELSE 0)
          BY <2>5, <3>1, <5>1, <5>2, StackedCounted
        <5>4. e.amount = v => d = 1
          <6>1. e.amount = v => e \in StackedOf(v)
            BY <4>3, <4>4 DEF Events, StackedOf
          <6> QED
            BY <2>1, <4>2, <6>1 DEF OneIf
        <5> QED
          BY <2>4, <2>6, <3>1, <5>3, <5>4
      <4>5. CASE e.k = "returned"
        <5>1. box' = onBillReturned(box, e.amount)
          BY <4>1, <4>2, <4>5 DEF HandleEvent
        <5>2. k2 <= k
          BY <2>5, <3>1, <5>1, ReturnedCounted
        <5> QED
          BY <3>1, <3>2, <5>2
      <4>6. CASE e.k # "stacked" /\ e.k # "returned"
        <5>1. box' = box \/ box' = flushPending(box)
          BY <4>1, <4>2, <4>6 DEF HandleEvent
        <5> QED
          BY <3>4, <5>1
      <4> QED
        BY <4>4, <4>5, <4>6
    <3> QED
      BY <3>3, <3>4
  <2>8. /\ CountOf(v) = Sure(box, v) + Coming(v)
        /\ CountOf(v)' = Sure(box', v) + Coming(v)'
    BY DEF CountOf, Sure
  <2>9. PICK k, k2, c, c2 : /\ k = Sure(box, v) /\ k2 = Sure(box', v)
                            /\ c = Coming(v) /\ c2 = Coming(v)'
    OBVIOUS
  <2>10. k2 + c2 <= k + c
    BY <2>3, <2>4, <2>6, <2>7, <2>9
  <2> QED
    BY <2>8, <2>9, <2>10
<1> QED
  BY <1>1, <1>2, ScriptBox

\* The counter is all a restart leaves of it.
LEMMA RestartBox ==
  ASSUME Hardwired, Hardwired', Scripted, Scripted', BoxAgrees, Restart
  PROVE  BoxAgrees'
<1>1. MishapsGrow /\ UNCHANGED <<cash, taken>>
  BY RestartGrows DEF Restart
<1>2. ASSUME NEW v \in Bills
      PROVE  \E x, y \in Nat :
               /\ Total(taken, v)' = Total(taken, v) + x
               /\ CountOf(v)' + Accepted(v)' <= CountOf(v) + Accepted(v) + x
               /\ Total(cash, v)' = Total(cash, v) + y
               /\ AllAnswered' => CountOf(v)' + Landed(v)' <= CountOf(v) + Landed(v) + y
  <2>1. reader'.escrow = 0 /\ queue' = <<>> /\ turn'.at = "idle"
    BY DEF Restart, ReaderRestart, Reset, Idle
  <2>2. Accepted(v)' = 0 /\ Landed(v)' = 0
    BY <2>1, NoEscrow
  <2>3. Coming(v)' = 0
    <3>1. Places(queue', StackedOf(v)) = {}
      BY <2>1 DEF Places
    <3>2. CountIn(queue', StackedOf(v)) = 0
      BY <3>1, FS_EmptySet DEF CountIn
    <3>3. OneIf(turn'.at = "emit" /\ turn'.event \in StackedOf(v)) = 0
      BY <2>1 DEF OneIf
    <3> QED
      BY <3>2, <3>3 DEF Coming, CountIn
  <2>4. box'.counter = box.counter /\ box'.unsure = NoBills
    BY DEF Restart, Scripted, Boxes
  <2>5. PICK b : b = box.counter[v]
    OBVIOUS
  <2>6. b \in Nat /\ box.unsure[v] \in Nat /\ NoBills[v] = 0
    BY <2>5 DEF Scripted, Boxes, Counts, NoBills
  <2>7. CountOf(v)' = b
    BY <2>3, <2>4, <2>5, <2>6 DEF CountOf
  <2>8. PICK a, l, t, m, c, u : /\ a = Accepted(v) /\ l = Landed(v)
                                /\ t = Total(taken, v) /\ m = Total(cash, v)
                                /\ c = Coming(v) /\ u = box.unsure[v]
    OBVIOUS
  <2>9. a \in {0, 1} /\ l \in {0, 1} /\ t \in Nat /\ m \in Nat /\ c \in Nat /\ u \in Nat
    BY <2>6, <2>8, CountsTyped
  <2>10. CountOf(v) = b + u + c
    BY <2>5, <2>8 DEF CountOf
  <2>11. b + 0 <= b + u + c + a + 0 /\ b + 0 <= b + u + c + l + 0 /\ t = t + 0 /\ m = m + 0
    BY <2>6, <2>9
  <2>12. Total(taken, v)' = t /\ Total(cash, v)' = m
    BY <1>1, <2>8
  <2>13. 0 \in Nat
    OBVIOUS
  <2> QED
    BY <2>2, <2>7, <2>8, <2>10, <2>11, <2>12, <2>13
<1> QED
  BY <1>1, <1>2, BoxKept DEF MishapsGrow

----------------------------------------------------------------------------
(* The sessions start in their order *)

Begins(c) == {i \in DOMAIN c : c[i].op = "start"}
FindsIn(c, n, i, s) ==
  /\ n = s \/ \E j \in Begins(c) : j < i /\ c[j].s = s
  /\ \A j \in Begins(c) : j < i => c[j].s <= s

\* The calls start the sessions after n up to the last; those whose result is
\* in F find theirs.
InOrder(c, n, last, shown, F) ==
  /\ n <= last
  /\ \A i \in Begins(c) : n < c[i].s /\ c[i].s <= last
  /\ \A i, j \in Begins(c) : i < j => c[i].s < c[j].s
  /\ shown => n = last \/ \E i \in Begins(c) : c[i].s = last
  /\ \A i \in DOMAIN c \ Begins(c) : c[i].then \in F => FindsIn(c, n, i, c[i].then.s)

LEMMA OrderWeaker ==
  ASSUME NEW c, NEW n, NEW last, NEW shown, NEW F, InOrder(c, n, last, shown, F),
         NEW shown2, shown2 => shown, NEW G, G \subseteq F
  PROVE  InOrder(c, n, last, shown2, G)
  BY DEF InOrder

LEMMA StartIsOf ==
  ASSUME NEW m \in Calls, m.op = "start"
  PROVE  m.s \in Sessions /\ m.s \in Nat \ {0}
<1>1. m.s \in Sessions
  BY DEF Calls, Stops
<1> QED
  BY <1>1, SessionsAbove

LEMMA BeginsTyped ==
  ASSUME NEW c \in Seq(Calls)
  PROVE  /\ Len(c) \in Nat /\ DOMAIN c = 1..Len(c) /\ Begins(c) \subseteq 1..Len(c)
         /\ \A i \in 1..Len(c) : c[i] \in Calls
         /\ \A i \in Begins(c) : c[i].s \in Nat
<1>1. Len(c) \in Nat /\ DOMAIN c = 1..Len(c) /\ \A i \in 1..Len(c) : c[i] \in Calls
  OBVIOUS
<1>2. Begins(c) \subseteq 1..Len(c)
  BY <1>1 DEF Begins
<1>3. \A i \in Begins(c) : c[i].s \in Nat
  BY <1>1, <1>2, StartIsOf DEF Begins
<1> QED
  BY <1>1, <1>2, <1>3

\* A call is made that starts no session.
LEMMA OrderAppend ==
  ASSUME NEW c \in Seq(Calls), NEW n \in Nat, NEW last \in Nat, NEW shown, NEW F,
         InOrder(c, n, last, shown, F), NEW m \in Calls, m.op # "start",
         m.then \in F => m.then.s = last /\ shown
  PROVE  InOrder(Append(c, m), n, last, shown, F) /\ Append(c, m) \in Seq(Calls)
<1>1. PICK p, k : p = Append(c, m) /\ k = Len(c)
  OBVIOUS
<1>2. /\ p \in Seq(Calls) /\ Len(p) = k + 1 /\ k \in Nat
      /\ \A i \in 1..k : p[i] = c[i]
      /\ p[k + 1] = m
  BY <1>1, AppendProperties
<1>3. Len(p) \in Nat /\ DOMAIN p = 1..(k + 1) /\ DOMAIN c = 1..k
  BY <1>1, <1>2
<1>4. Begins(p) = Begins(c)
  <2>1. \A i \in 1..(k + 1) : i = k + 1 \/ i \in 1..k
    BY <1>2
  <2>2. 1..k \subseteq 1..(k + 1)
    BY <1>2
  <2>3. \A i \in 1..(k + 1) : p[i].op = "start" => i \in 1..k
    BY <1>2, <2>1
  <2>4. \A i : i \in Begins(p) <=> i \in 1..(k + 1) /\ p[i].op = "start"
    BY <1>3 DEF Begins
  <2>5. \A i : i \in Begins(c) <=> i \in 1..k /\ c[i].op = "start"
    BY <1>3 DEF Begins
  <2> QED
    BY <1>2, <2>2, <2>3, <2>4, <2>5
<1>5. PICK B : B = Begins(c)
  OBVIOUS
<1>6. B \subseteq 1..k /\ \A i \in B : p[i] = c[i] /\ c[i].s \in Nat
  BY <1>1, <1>2, <1>5, BeginsTyped
<1>7. n <= last /\ \A i \in B : n < p[i].s /\ p[i].s <= last
  BY <1>5, <1>6 DEF InOrder
<1>8. \A i, j \in B : i < j => p[i].s < p[j].s
  BY <1>5, <1>6 DEF InOrder
<1>9. shown => n = last \/ \E i \in B : p[i].s = last
  BY <1>5, <1>6 DEF InOrder
<1>10. ASSUME NEW i \in 1..k, i \notin B, p[i].then \in F PROVE FindsIn(p, n, i, p[i].then.s)
  <2>1. p[i] = c[i] /\ i \in DOMAIN c
    BY <1>2, <1>3
  <2>2. FindsIn(c, n, i, c[i].then.s)
    BY <1>5, <1>10, <2>1 DEF InOrder
  <2> QED
    BY <1>4, <1>5, <1>6, <2>1, <2>2 DEF FindsIn
<1>11. m.then \in F => FindsIn(p, n, k + 1, last)
  <2> SUFFICES ASSUME m.then \in F PROVE FindsIn(p, n, k + 1, last)
    OBVIOUS
  <2>1. n = last \/ \E i \in B : p[i].s = last
    BY <1>9
  <2>2. \A i \in B : i < k + 1
    BY <1>2, <1>6
  <2> QED
    BY <1>4, <1>5, <1>7, <2>1, <2>2 DEF FindsIn
<1>12. \A i \in DOMAIN p \ B : p[i].then \in F => FindsIn(p, n, i, p[i].then.s)
  <2>1. \A i \in DOMAIN p : i = k + 1 \/ i \in 1..k
    BY <1>2, <1>3
  <2> QED
    BY <1>2, <1>10, <1>11, <2>1
<1>13. InOrder(p, n, last, shown, F)
  BY <1>4, <1>5, <1>7, <1>8, <1>9, <1>12 DEF InOrder
<1> QED
  BY <1>1, <1>2, <1>13

\* The next session is started.
LEMMA OrderStart ==
  ASSUME NEW c \in Seq(Calls), NEW n \in Nat, NEW last \in Nat, NEW shown, NEW F,
         InOrder(c, n, last, shown, F), NEW m \in Calls, m.op = "start", m.s = last + 1
  PROVE  InOrder(Append(c, m), n, last + 1, TRUE, F)
<1>1. PICK p, k : p = Append(c, m) /\ k = Len(c)
  OBVIOUS
<1>2. /\ p \in Seq(Calls) /\ Len(p) = k + 1 /\ k \in Nat
      /\ \A i \in 1..k : p[i] = c[i]
      /\ p[k + 1] = m
  BY <1>1, AppendProperties
<1>3. Len(p) \in Nat /\ DOMAIN p = 1..(k + 1) /\ DOMAIN c = 1..k
  BY <1>1, <1>2
<1>4. PICK B : B = Begins(c)
  OBVIOUS
<1>5. Begins(p) = B \cup {k + 1}
  <2>1. \A i : i \in 1..(k + 1) <=> i = k + 1 \/ i \in 1..k
    BY <1>2
  <2>2. \A i : i \in Begins(p) <=> i \in 1..(k + 1) /\ p[i].op = "start"
    BY <1>3 DEF Begins
  <2>3. \A i : i \in B <=> i \in 1..k /\ c[i].op = "start"
    BY <1>3, <1>4 DEF Begins
  <2> QED
    BY <1>2, <2>1, <2>2, <2>3
<1>6. B \subseteq 1..k /\ \A i \in B : p[i] = c[i] /\ c[i].s \in Nat /\ i < k + 1 /\ i \in Nat
  <2>1. B \subseteq 1..k
    BY <1>1, <1>4, BeginsTyped
  <2>2. \A i \in 1..k : i < k + 1 /\ i \in Nat
    BY <1>2
  <2> QED
    BY <1>2, <1>4, <2>1, <2>2, BeginsTyped
<1>7. n <= last + 1 /\ \A i \in B : n < p[i].s /\ p[i].s <= last /\ p[i].s < last + 1
  <2>1. n <= last /\ \A i \in B : n < p[i].s /\ p[i].s <= last
    BY <1>4, <1>6 DEF InOrder
  <2> QED
    BY <1>6, <2>1
<1>8. p[k + 1].s = last + 1 /\ n < last + 1
  <2>1. n <= last
    BY DEF InOrder
  <2> QED
    BY <1>2, <2>1
<1>9. \A i \in B \cup {k + 1} : n < p[i].s /\ p[i].s <= last + 1
  BY <1>6, <1>7, <1>8
<1>10. \A i, j \in B \cup {k + 1} : i < j => p[i].s < p[j].s
  <2>1. \A i, j \in B : i < j => p[i].s < p[j].s
    BY <1>4, <1>6 DEF InOrder
  <2>2. \A i \in B : p[i].s < p[k + 1].s /\ ~(k + 1 < i)
    BY <1>2, <1>6, <1>7, <1>8
  <2>3. ~(k + 1 < k + 1)
    BY <1>2
  <2> QED
    BY <2>1, <2>2, <2>3
<1>11. ASSUME NEW i \in DOMAIN p \ (B \cup {k + 1}), p[i].then \in F
       PROVE  FindsIn(p, n, i, p[i].then.s)
  <2>1. i \in 1..k /\ p[i] = c[i] /\ i \in DOMAIN c /\ i \notin B /\ ~(k + 1 < i)
    BY <1>2, <1>3
  <2>2. FindsIn(c, n, i, c[i].then.s)
    BY <1>4, <1>11, <2>1 DEF InOrder
  <2> QED
    BY <1>4, <1>5, <1>6, <2>1, <2>2 DEF FindsIn
<1>12. InOrder(p, n, last + 1, TRUE, F)
  BY <1>5, <1>7, <1>8, <1>9, <1>10, <1>11 DEF InOrder
<1> QED
  BY <1>1, <1>12

\* The places of the calls behind the head.
LEMMA BeginsTail ==
  ASSUME NEW c \in Seq(Calls), c # <<>>
  PROVE  /\ Tail(c) \in Seq(Calls) /\ DOMAIN Tail(c) \subseteq Nat \ {0}
         /\ \A i \in DOMAIN Tail(c) : i + 1 \in DOMAIN c /\ Tail(c)[i] = c[i + 1]
         /\ \A i \in Begins(Tail(c)) : i + 1 \in Begins(c)
         /\ \A i \in Begins(c) : /\ i \in Nat \ {0}
                                 /\ i # 1 => i - 1 \in Begins(Tail(c)) /\ Tail(c)[i - 1] = c[i]
         /\ 1 \in DOMAIN c /\ c[1] = Head(c)
         /\ 1 \in Begins(c) <=> Head(c).op = "start"
<1>1. PICK k : k = Len(c)
  OBVIOUS
<1>2. /\ k \in Nat \ {0} /\ Tail(c) \in Seq(Calls) /\ Len(Tail(c)) = k - 1
      /\ DOMAIN c = 1..k /\ DOMAIN Tail(c) = 1..(k - 1)
  BY <1>1
<1>3. \A i \in 1..(k - 1) : Tail(c)[i] = c[i + 1] /\ i + 1 \in 1..k /\ i \in Nat \ {0}
  BY <1>1, <1>2
<1>4. \A i \in 1..k : i # 1 => i - 1 \in 1..(k - 1) /\ (i - 1) + 1 = i
  BY <1>2
<1>5. \A i \in Begins(Tail(c)) : i + 1 \in Begins(c)
  BY <1>2, <1>3 DEF Begins
<1>6. \A i \in Begins(c) : i # 1 => i - 1 \in Begins(Tail(c)) /\ Tail(c)[i - 1] = c[i]
  BY <1>2, <1>3, <1>4 DEF Begins
<1>7. 1 \in DOMAIN c /\ c[1] = Head(c)
  BY <1>2
<1>8. 1 \in Begins(c) <=> Head(c).op = "start"
  BY <1>7 DEF Begins
<1>9. \A i \in Begins(c) : i \in Nat \ {0}
  BY <1>2 DEF Begins
<1> QED
  BY <1>2, <1>3, <1>5, <1>6, <1>7, <1>8, <1>9

\* The head goes: a call that returns, or the start of a session, which is the
\* reader's from now on.
LEMMA OrderTail ==
  ASSUME NEW c \in Seq(Calls), c # <<>>, NEW n \in Nat, NEW last \in Nat, NEW shown, NEW F,
         \A t \in F : t.s \in Nat,
         InOrder(c, n, last, shown, F), NEW n2 \in Nat,
         IF Head(c).op = "start" THEN n2 = Head(c).s ELSE n2 = n
  PROVE  InOrder(Tail(c), n2, last, shown, F)
<1>1. PICK d, B, D : d = Tail(c) /\ B = Begins(c) /\ D = Begins(d)
  OBVIOUS
<1>2. /\ DOMAIN d \subseteq Nat \ {0} /\ D \subseteq DOMAIN d
      /\ \A i \in DOMAIN d : i + 1 \in DOMAIN c /\ d[i] = c[i + 1]
      /\ \A i \in D : i + 1 \in B
      /\ \A i \in B : i \in Nat \ {0} /\ (i # 1 => i - 1 \in D /\ d[i - 1] = c[i])
      /\ c[1] = Head(c) /\ (1 \in B <=> Head(c).op = "start")
  BY <1>1, BeginsTail DEF Begins
<1>3. \A i \in DOMAIN d : i \notin D => i + 1 \notin B
  BY <1>1, <1>2 DEF Begins
<1>4. \A i \in B : c[i].s \in Nat
  BY <1>1, BeginsTyped
<1>5. /\ n <= last /\ \A i \in B : n < c[i].s /\ c[i].s <= last
      /\ \A i, j \in B : i < j => c[i].s < c[j].s
      /\ shown => n = last \/ \E i \in B : c[i].s = last
  BY <1>1 DEF InOrder
<1>6. \A i, j \in Nat \ {0} : /\ i < j => i + 1 < j + 1 /\ 1 < j + 1
                              /\ i < j + 1 /\ i # 1 => i - 1 < j
  OBVIOUS
<1>7. \A i \in D : i \in Nat \ {0} /\ i + 1 \in B /\ d[i].s = c[i + 1].s /\ 1 < i + 1
  BY <1>2
<1>8. n2 <= last /\ n <= n2 /\ (1 \in B => n2 = c[1].s) /\ (1 \notin B => n2 = n)
  BY <1>2, <1>4, <1>5
<1>9. \A i \in D : n2 < d[i].s /\ d[i].s <= last
  BY <1>5, <1>7, <1>8
<1>10. \A i, j \in D : i < j => d[i].s < d[j].s
  BY <1>5, <1>6, <1>7
<1>11. ASSUME shown PROVE n2 = last \/ \E i \in D : d[i].s = last
  <2>1. CASE n = last
    BY <1>4, <1>5, <1>8, <2>1
  <2>2. ASSUME NEW i \in B, c[i].s = last PROVE n2 = last \/ \E x \in D : d[x].s = last
    BY <1>2, <1>8, <2>2
  <2> QED
    BY <1>5, <1>11, <2>1, <2>2
<1>12. ASSUME NEW i \in DOMAIN d \ D, d[i].then \in F PROVE FindsIn(d, n2, i, d[i].then.s)
  <2>1. PICK s : s = d[i].then.s /\ s \in Nat
    BY <1>12
  <2>2. c[i + 1].then.s = s /\ i \in Nat \ {0}
    BY <1>2, <2>1
  <2>3. FindsIn(c, n, i + 1, s)
    BY <1>1, <1>2, <1>3, <1>12, <2>2 DEF InOrder
  <2>4. \A j \in B : j < i + 1 => c[j].s <= s
    BY <1>1, <2>3 DEF FindsIn
  <2>5. \A j \in D : j < i => d[j].s <= s
    BY <1>6, <1>7, <2>2, <2>4
  <2>6. n2 = s \/ \E j \in D : j < i /\ d[j].s = s
    <3>1. CASE n = s
      <4>1. 1 \notin B
        <5>1. 1 \in B => c[1].s <= s /\ n < c[1].s
          BY <1>5, <1>6, <2>2, <2>4
        <5>2. 1 \in B => c[1].s \in Nat
          BY <1>4
        <5> QED
          BY <3>1, <5>1, <5>2
      <4> QED
        BY <1>8, <3>1, <4>1
    <3>2. ASSUME NEW j \in B, j < i + 1, c[j].s = s
          PROVE  n2 = s \/ \E x \in D : x < i /\ d[x].s = s
      <4>1. CASE j = 1
        BY <1>8, <3>2, <4>1
      <4>2. CASE j # 1
        BY <1>2, <1>6, <2>2, <3>2, <4>2
      <4> QED
        BY <4>1, <4>2
    <3> QED
      BY <1>1, <2>3, <3>1, <3>2 DEF FindsIn
  <2> QED
    BY <1>1, <2>1, <2>5, <2>6 DEF FindsIn
<1>13. InOrder(d, n2, last, shown, F)
  BY <1>1, <1>8, <1>9, <1>10, <1>11, <1>12 DEF InOrder
<1> QED
  BY <1>1, <1>13

\* No calls are left.
LEMMA OrderEmpty ==
  ASSUME NEW n \in Nat, NEW last \in Nat, n <= last, NEW F
  PROVE  InOrder(<<>>, n, last, FALSE, F)
<1>1. DOMAIN <<>> = {}
  OBVIOUS
<1> QED
  BY <1>1 DEF InOrder, Begins

FinalizingThens == {t \in Thens : Finalizing(t)}

LEMMA ThenTyped ==
  ASSUME NEW m \in Calls, m.op # "start"
  PROVE  m.then \in Thens
<1>1. m \in Stops(Thens) \cup [op : {"accept", "return"}, then : Answers]
  BY DEF Calls
<1> QED
  BY <1>1 DEF Stops, Answers, Thens

LEMMA ThensOfSessions == \A t \in FinalizingThens : t.s \in Nat
  BY SessionsAbove DEF FinalizingThens, Thens

LEMMA StartsInOrder ==
  ASSUME Hardwired
  PROVE  StartsAgree <=>
           InOrder(calls, acceptor.now, js.sess, js.screen = "cash", FinalizingThens)
<1>1. \A i \in DOMAIN calls \ Begins(calls) :
        Finalizing(calls[i].then) <=> calls[i].then \in FinalizingThens
  BY ThenTyped, BeginsTyped DEF Hardwired, FinalizingThens, Begins
<1> QED
  BY <1>1 DEF StartsAgree, InOrder, Starts, Begins, Begun, Finds, FindsIn

LEMMA StartsInOrderNext ==
  ASSUME Hardwired'
  PROVE  StartsAgree' <=>
           InOrder(calls', acceptor'.now, js'.sess, js'.screen = "cash", FinalizingThens)
<1>1. \A i \in DOMAIN calls' \ Begins(calls') :
        Finalizing(calls'[i].then) <=> calls'[i].then \in FinalizingThens
  BY ThenTyped, BeginsTyped DEF Hardwired, FinalizingThens, Begins
<1> QED
  BY <1>1 DEF StartsAgree, InOrder, Starts, Begins, Begun, Finds, FindsIn

\* The hardware starts a session, returns a call, or neither.
LEMMA HardwareCalls ==
  ASSUME Hardwired, Hardware
  PROVE  \/ calls' = calls /\ acceptor'.now = acceptor.now
         \/ /\ calls # <<>> /\ calls' = Tail(calls)
            /\ IF Head(calls).op = "start" THEN acceptor'.now = Head(calls).s /\ StartCollecting
               ELSE acceptor'.now = acceptor.now
<1>1. CASE StartCollecting
  <2>1. calls # <<>> /\ calls' = Tail(calls) /\ Head(calls).op = "start"
    BY <1>1 DEF StartCollecting, Returns, Runs
  <2>2. acceptor'.now = Head(calls).s
    BY <1>1 DEF StartCollecting, Hardwired, Enable, Acceptors
  <2> QED
    BY <1>1, <2>1, <2>2
<1>2. CASE StopCollecting \/ StopSettled \/ StopTimesOut \/ AcceptBill \/ ReturnBill
  <2>1. acceptor'.now = acceptor.now
    <3>1. acceptor' \in {acceptor, Disable(acceptor), Decline(acceptor), Accept(acceptor)}
      BY <1>2 DEF StopCollecting, StopSettled, StopTimesOut, AcceptBill, ReturnBill
    <3> QED
      BY <3>1 DEF Disable, Decline, Accept, Hardwired, Acceptors
  <2>2. calls' = calls \/ calls' = Tail(calls)
    BY <1>2 DEF StopCollecting, StopSettled, StopTimesOut, AcceptBill, ReturnBill, Returns
  <2>3. calls # <<>> /\ Head(calls).op # "start"
    <3>1. CASE waiting # "no"
      BY <3>1, WaitsForStop
    <3>2. CASE waiting = "no"
      BY <1>2, <3>2 DEF StopCollecting, StopSettled, StopTimesOut, AcceptBill, ReturnBill, Runs
    <3> QED
      BY <3>1, <3>2
  <2> QED
    BY <2>1, <2>2, <2>3
<1>3. CASE ReaderThread \/ Device \/ \E v \in Bills : InsertBill(v)
  <2>1. calls' = calls
    BY <1>3 DEF ReaderThread, Device, InsertBill, StackBill, GiveBack, ReadBill, DecideBill,
                ReadStacked, ReadReturned, Settle, EmitOutcome, plugin
  <2>2. acceptor'.now = acceptor.now
    <3>1. CASE (\E v \in Bills : InsertBill(v)) \/ StackBill \/ GiveBack
      BY <3>1 DEF InsertBill, StackBill, GiveBack, Emptied, Hardwired, Acceptors
    <3>2. CASE ReaderThread
      <4>1. acceptor' \in {acceptor, Disable(acceptor), Decline(acceptor), Hold(acceptor),
                           Accept(acceptor)}
        BY <3>2 DEF ReaderThread, ReadBill, DecideBill, Verdict, ReadStacked, ReadReturned, Settle,
                    EmitOutcome
      <4> QED
        BY <4>1 DEF Disable, Decline, Accept, Hold, Hardwired, Acceptors
    <3> QED
      BY <1>3, <3>1, <3>2 DEF Device
  <2> QED
    BY <2>1, <2>2
<1> QED
  BY <1>1, <1>2, <1>3 DEF Hardware, PluginThread

LEMMA HardwareOrder ==
  ASSUME Hardwired, Scripted, Hardware, NEW F, \A t \in F : t.s \in Nat, NEW shown,
         InOrder(calls, acceptor.now, js.sess, shown, F), Hardwired'
  PROVE  InOrder(calls', acceptor'.now, js.sess, shown, F)
<1>1. acceptor.now \in Nat /\ acceptor'.now \in Nat /\ js.sess \in Nat /\ calls \in Seq(Calls)
  <2>1. acceptor \in Acceptors /\ acceptor' \in Acceptors /\ calls \in Seq(Calls)
    BY DEF Hardwired
  <2>2. acceptor.now \in Sessions \cup {0} /\ acceptor'.now \in Sessions \cup {0}
    BY <2>1 DEF Acceptors
  <2>3. js.sess \in Sessions \cup {0}
    BY DEF Scripted, Screens
  <2> QED
    BY <2>1, <2>2, <2>3, SessionsAbove
<1>2. CASE calls' = calls /\ acceptor'.now = acceptor.now
  BY <1>2
<1>3. CASE /\ calls # <<>> /\ calls' = Tail(calls)
           /\ IF Head(calls).op = "start" THEN acceptor'.now = Head(calls).s
              ELSE acceptor'.now = acceptor.now
  <2>1. PICK n2 : n2 = acceptor'.now
    OBVIOUS
  <2> QED
    BY <1>1, <1>3, <2>1, OrderTail
<1> QED
  BY <1>2, <1>3, HardwareCalls

LEMMA HardwareStarts ==
  ASSUME Hardwired, Hardwired', Scripted, StartsAgree, Hardware
  PROVE  StartsAgree'
<1>1. js' = js
  BY DEF Hardware, script
<1>2. InOrder(calls', acceptor'.now, js.sess, js.screen = "cash", FinalizingThens)
  BY StartsInOrder, HardwareOrder, ThensOfSessions
<1> QED
  BY <1>1, <1>2, StartsInOrderNext

----------------------------------------------------------------------------
(* The calls the script makes *)

\* A call that starts nothing, and whom its result is for.
Plain(m) ==
  /\ m \in Calls /\ m.op # "start"
  /\ \/ m.then.what = "nothing"
     \/ m.then.s = js.sess /\ js.screen = "cash"
     \/ Resolved("cancel") /\ m.then.s = Of.s /\ m.then.what = "leave"

CallsMade ==
  /\ js'.sess = js.sess /\ (js'.screen = "cash" => js.screen = "cash")
  /\ \/ calls' = calls
     \/ \E m : Plain(m) /\ calls' = Append(calls, m)
     \/ \E m, m2 : Plain(m) /\ Plain(m2) /\ calls' = Append(Append(calls, m), m2)

LEMMA PlainStop ==
  ASSUME Scripted, NEW what \in {"nothing", "leave", "back"}, NEW s \in Sessions \cup {0},
         \/ what = "nothing"
         \/ s = js.sess /\ js.screen = "cash"
         \/ Resolved("cancel") /\ s = Of.s /\ what = "leave"
  PROVE  \E m : m = Stop(what, s) /\ Plain(m)
<1>1. PICK m : m = [op |-> "stop", then |-> [what |-> what, s |-> s, ref |-> 0]]
  OBVIOUS
<1>2. m = Stop(what, s)
  BY <1>1 DEF Stop, Call
<1>3. m \in Calls /\ m.op # "start" /\ m.then.what = what /\ m.then.s = s
  BY <1>1 DEF Calls, Stops, Thens
<1>4. Plain(m)
  BY <1>3 DEF Plain
<1> QED
  BY <1>2, <1>4

LEMMA UnmountCalls ==
  ASSUME Hardwired, Scripted, NEW j, NEW w, NEW more, j.sess = js.sess, j \in Screens,
         more = <<>> \/ \E s \in Sessions \cup {0} : more = <<Stop("nothing", s)>>,
         Unmount(j, w, more)
  PROVE  CallsMade
<1>1. js'.sess = js.sess /\ js'.screen # "cash"
  BY DEF Unmount, Screens
<1>2. js.sess \in Sessions \cup {0} /\ calls \in Seq(Calls)
  BY DEF Scripted, Screens, Hardwired
<1>3. PICK last : last = Stop("nothing", js.sess) /\ Plain(last)
  BY <1>2, PlainStop
<1>4. PICK c : c = calls \o more
  OBVIOUS
<1>5. c \in Seq(Calls) /\ (c = calls \/ \E m : Plain(m) /\ c = Append(calls, m))
  <2>1. CASE more = <<>>
    BY <1>2, <1>4, <2>1
  <2>2. ASSUME NEW s \in Sessions \cup {0}, more = <<Stop("nothing", s)>>
        PROVE  c \in Seq(Calls) /\ \E m : Plain(m) /\ c = Append(calls, m)
    <3>1. PICK m : m = Stop("nothing", s) /\ Plain(m)
      BY PlainStop
    <3>2. m \in Calls /\ c = calls \o <<m>>
      BY <1>4, <2>2, <3>1 DEF Plain
    <3>3. c = Append(calls, m)
      BY <1>2, <3>2, PostedOneByOne
    <3> QED
      BY <1>2, <3>1, <3>2, <3>3
  <2> QED
    BY <2>1, <2>2
<1>6. calls' = c \/ calls' = Append(c, last)
  <2>1. calls' = c \o <<last>> \/ calls' = c \o <<>>
    BY <1>3, <1>4 DEF Unmount
  <2>2. last \in Calls
    BY <1>3 DEF Plain
  <2> QED
    BY <1>5, <2>1, <2>2, PostedOneByOne
<1> QED
  BY <1>1, <1>3, <1>5, <1>6 DEF CallsMade

LEMMA FinalizeCalls ==
  ASSUME Hardwired, Scripted, NEW j, j \in Screens, j.screen = js.screen, j.sess = js.sess,
         ShouldFinalize(j), NEW why \in {"finalize", "cancel"}, FinalizeStarts(j, why)
  PROVE  \E m : /\ Plain(m) /\ calls' = Append(calls, m)
                /\ m = [op |-> "stop", then |-> [what |-> why, s |-> js.sess, ref |-> j.ref]]
<1>1. PICK s, r : s = js.sess /\ r = j.ref
  OBVIOUS
<1>2. s \in Sessions \cup {0} /\ r \in Sessions \cup {0} /\ js.screen = "cash"
  BY <1>1 DEF Scripted, Screens, ShouldFinalize
<1>3. PICK m : m = [Stop(why, j.sess) EXCEPT !.then.ref = j.ref]
  OBVIOUS
<1>4. m = [op |-> "stop", then |-> [what |-> why, s |-> s, ref |-> r]]
  <2>2. PICK k : k = [what |-> why, s |-> s, ref |-> 0]
    OBVIOUS
  <2>3. PICK k2 : k2 = [k EXCEPT !.ref = r]
    OBVIOUS
  <2>4. k2 = [what |-> why, s |-> s, ref |-> r]
    BY <2>2, <2>3
  <2>5. PICK c : c = [op |-> "stop", then |-> k]
    OBVIOUS
  <2>6. m = [c EXCEPT !.then = k2]
    BY <1>1, <1>3, <2>2, <2>3, <2>5 DEF Stop, Call
  <2>7. m = [op |-> "stop", then |-> k2]
    BY <2>5, <2>6
  <2> QED
    BY <2>4, <2>7
<1>5. m \in Calls /\ m.op # "start" /\ m.then.s = s
  BY <1>2, <1>4 DEF Calls, Stops, Thens
<1>6. Plain(m)
  BY <1>1, <1>2, <1>5 DEF Plain
<1>7. calls' = Append(calls, m)
  BY <1>3 DEF FinalizeStarts
<1> QED
  BY <1>1, <1>4, <1>6, <1>7

LEMMA HandledTyped ==
  ASSUME Scripted, NEW e \in Events
  PROVE  /\ Handled(e) \in Screens
         /\ Handled(e).screen = js.screen /\ Handled(e).sess = js.sess
         /\ Handled(e).ref = js.ref /\ Handled(e).inhibited = js.inhibited
         /\ Handled(e).collected = IF e.k \in {"escrowPending", "accepted"} THEN js.collected
                                   ELSE e.total
<1>1. PICK a, b, c : /\ a = InFlightAfter(e.k)
                     /\ b = (IF e.k \in {"escrowPending", "accepted"} THEN js.collected ELSE e.total)
                     /\ c = (CASE e.k = "overpayPending" -> TRUE
                               [] e.k \in {"collecting", "stacked", "returned"} -> FALSE
                               [] OTHER -> js.overpay)
  OBVIOUS
<1>2. js \in Screens
  BY DEF Scripted
<1>3. a \in BOOLEAN /\ c \in BOOLEAN /\ b \in Nat
  <2>1. js.inFlight \in BOOLEAN /\ js.overpay \in BOOLEAN /\ js.collected \in Nat
    BY <1>2 DEF Screens
  <2>2. e.total \in Nat
    BY DEF Events
  <2>3. a \in BOOLEAN
    BY <1>1, <2>1 DEF InFlightAfter
  <2>4. c \in BOOLEAN
    BY <1>1, <2>1
  <2> QED
    BY <1>1, <2>1, <2>2, <2>3, <2>4
<1>4. Handled(e) = [js EXCEPT !.inFlight = a, !.collected = b, !.overpay = c]
  BY <1>1 DEF Handled
<1>5. Handled(e) = [screen |-> js.screen, sess |-> js.sess, ref |-> js.ref, collected |-> b,
                    overpay |-> c, inFlight |-> a, inhibited |-> js.inhibited]
  BY <1>2, <1>4 DEF Screens
<1>6. Handled(e) \in Screens
  BY <1>2, <1>3, <1>5 DEF Screens
<1> QED
  BY <1>1, <1>5, <1>6

LEMMA CustomerCalls ==
  ASSUME Hardwired, Scripted, Customer, ~\E t \in Targets : SelectCash(t)
  PROVE  CallsMade
<1>1. js \in Screens /\ js.sess \in Sessions \cup {0}
  BY DEF Scripted, Screens
<1>2. CASE Back
  <2>1. js' = js /\ calls' = Append(calls, Stop("back", js.sess)) /\ js.screen = "cash"
    BY <1>2 DEF Back
  <2>2. \E m : m = Stop("back", js.sess) /\ Plain(m)
    BY <1>1, <2>1, PlainStop
  <2> QED
    BY <2>1, <2>2 DEF CallsMade
<1>3. CASE Cancel \/ IdleExpires
  <2>1. js' = js /\ ExecuteCancel /\ js.screen = "cash"
    BY <1>3 DEF Cancel, IdleExpires, Ticks, ExecuteCancel
  <2>2. CASE ShouldFinalize(js) /\ FinalizeStarts(js, "cancel")
    <3>1. \E m : Plain(m) /\ calls' = Append(calls, m)
      BY <1>1, <2>2, FinalizeCalls
    <3> QED
      BY <2>1, <3>1 DEF CallsMade
  <2>3. CASE calls' = Append(calls, Stop("leave", js.sess))
    <3>1. \E m : m = Stop("leave", js.sess) /\ Plain(m)
      BY <1>1, <2>1, PlainStop
    <3> QED
      BY <2>1, <2>3, <3>1 DEF CallsMade
  <2> QED
    BY <2>1, <2>2, <2>3 DEF ExecuteCancel
<1>4. CASE InhibitAccepting
  <2>1. /\ js'.sess = js.sess /\ js'.screen = js.screen
        /\ calls' = Append(calls, Stop("nothing", js.sess))
    BY <1>1, <1>4 DEF InhibitAccepting, Screens
  <2>2. \E m : m = Stop("nothing", js.sess) /\ Plain(m)
    BY <1>1, PlainStop
  <2> QED
    BY <2>1, <2>2 DEF CallsMade
<1>5. CASE FinishAndLogout
  BY <1>1, <1>5, UnmountCalls DEF FinishAndLogout
<1>6. ASSUME NEW op \in {"accept", "return"}, AnswerOverpay(op) PROVE CallsMade
  <2>1. PICK m : m = [op |-> op, then |-> [what |-> "overpay", s |-> js.sess, ref |-> 0]]
    OBVIOUS
  <2>2. js' = js /\ js.screen = "cash" /\ calls' = Append(calls, m)
    BY <1>6, <2>1 DEF AnswerOverpay, Call
  <2>3. m \in Calls /\ m.op # "start" /\ m.then.s = js.sess
    BY <1>1, <2>1 DEF Calls, Answers
  <2> QED
    BY <2>2, <2>3 DEF CallsMade, Plain
<1> QED
  BY <1>2, <1>3, <1>4, <1>5, <1>6 DEF Customer

LEMMA ApiCalls ==
  ASSUME Hardwired, Scripted, Api \/ HandleUnlock \/ ResumeApp
  PROVE  CallsMade
<1>1. js \in Screens /\ js.sess \in Sessions \cup {0}
  BY DEF Scripted, Screens
<1>2. ASSUME NEW s \in Sessions, CallReturns(s) PROVE CallsMade
  BY <1>2 DEF CallReturns, plugin, CallsMade
<1>3. ASSUME NEW s \in Sessions, Refreshed(s) \/ CallFails(s) PROVE CallsMade
  <2>1. PICK screen \in {"success", "recovery"} : Ends(s, screen)
    BY <1>3 DEF Refreshed, CallFails
  <2>2. calls' = calls
    BY <2>1 DEF Ends, plugin
  <2>3. PICK j \in Screens : j = ResetSession(js) /\ j.screen = js.screen /\ j.sess = js.sess
    BY <1>1, ResetTyped
  <2>4. \/ js' = [j EXCEPT !.screen = screen] /\ js.screen = "cash"
        \/ js' = [j EXCEPT !.screen = j.screen]
    BY <2>1, <2>3 DEF Ends
  <2>5. js'.sess = js.sess /\ (js'.screen = "cash" => js.screen = "cash")
    BY <2>3, <2>4 DEF Screens
  <2> QED
    BY <2>2, <2>5 DEF CallsMade
<1>4. ASSUME NEW s \in Sessions, EnterOutOfService(s) PROVE CallsMade
  <2>1. PICK w : w = [work EXCEPT ![s] = "done"]
    OBVIOUS
  <2>2. Unmount(js, w, <<Stop("nothing", s)>>)
    BY <1>4, <2>1 DEF EnterOutOfService
  <2> QED
    BY <1>1, <2>2, UnmountCalls
<1>5. ASSUME NEW q, ServerCredits(q) PROVE CallsMade
  BY <1>5 DEF ServerCredits, readerVars, script, CallsMade
<1>6. RetryReturns => CallsMade
  BY DEF RetryReturns, plugin, CallsMade
<1>7. RetryFails => CallsMade
  BY DEF RetryFails, readerVars, CallsMade
<1>8. HandleUnlock => CallsMade
  <2>1. HandleUnlock => js'.sess = js.sess /\ js'.screen = "home" /\ calls' = calls
    BY <1>1 DEF HandleUnlock, plugin, Screens
  <2> QED
    BY <2>1 DEF CallsMade
<1>9. ResumeApp => CallsMade
  BY <1>1, UnmountCalls DEF ResumeApp
<1> QED
  BY <1>2, <1>3, <1>4, <1>5, <1>6, <1>7, <1>8, <1>9 DEF Api

LEMMA ScriptCalls ==
  ASSUME Hardwired, Scripted, Script
  PROVE  CallsMade
<1>1. js \in Screens /\ js.sess \in Sessions \cup {0} /\ queue \in Seq(Messages)
  BY DEF Scripted, Screens, Hardwired
<1>2. CASE HandleEvent
  <2>1. PICK e : e = Head(queue)
    OBVIOUS
  <2>2. e \in Events
    <3>1. queue # <<>> /\ e.k # "result" /\ e \in Messages
      BY <1>1, <1>2, <2>1 DEF HandleEvent
    <3> QED
      BY <3>1 DEF Messages, Results
  <2>3. PICK j : j = Handled(e) /\ j \in Screens /\ j.screen = js.screen /\ j.sess = js.sess
    BY <2>2, HandledTyped
  <2>4. js' = j /\ ((ShouldFinalize(j) /\ FinalizeStarts(j, "finalize")) \/ calls' = calls)
    BY <1>2, <2>1, <2>3 DEF HandleEvent
  <2>5. CASE calls' = calls
    BY <2>3, <2>4, <2>5 DEF CallsMade
  <2>6. CASE ShouldFinalize(j) /\ FinalizeStarts(j, "finalize")
    <3>1. \E m : Plain(m) /\ calls' = Append(calls, m)
      BY <2>3, <2>6, FinalizeCalls
    <3> QED
      BY <2>3, <2>4, <3>1 DEF CallsMade
  <2> QED
    BY <2>4, <2>5, <2>6
<1>3. CASE AfterStop
  <2>1. calls' = calls /\ js'.sess = js.sess /\ js'.screen = js.screen
    BY <1>1, <1>3 DEF AfterStop, Stopped, plugin, Screens
  <2> QED
    BY <2>1 DEF CallsMade
<1>4. ASSUME NEW what \in {"finalize", "cancel"}, Resolved(what), NEW c \in BOOLEAN,
             c => what = "cancel", Finalized(Of.s, Of.ref, c)
      PROVE  CallsMade
  <2>1. js' = Stopped \/ js' = ResetSession(js)
    BY <1>4 DEF Finalized
  <2>2. js'.sess = js.sess /\ js'.screen = js.screen
    BY <1>1, <2>1 DEF Stopped, ResetSession, Screens
  <2>3. calls' = calls \/ (c /\ calls' = Append(calls, Stop("leave", Of.s)))
    BY <1>4 DEF Finalized
  <2>4. Of.s \in Sessions \cup {0}
    BY <1>4, ResolvedKeeps DEF Thens
  <2>5. PICK s : s = Of.s
    OBVIOUS
  <2>6. c => \E m : m = Stop("leave", s) /\ Plain(m)
    BY <1>4, <2>4, <2>5, PlainStop
  <2> QED
    BY <2>2, <2>3, <2>5, <2>6 DEF CallsMade
<1>5. AfterFinalizeStop => CallsMade
  BY <1>4 DEF AfterFinalizeStop
<1>6. CASE AfterBack
  <2>1. PICK j \in Screens : j = ResetSession(js) /\ j.screen = js.screen /\ j.sess = js.sess
    BY <1>1, ResetTyped
  <2>2. js' = [j EXCEPT !.screen = "home"] \/ js' = [j EXCEPT !.screen = j.screen]
    BY <1>6, <2>1 DEF AfterBack
  <2>3. js'.sess = js.sess /\ (js'.screen = "cash" => js.screen = "cash")
    BY <2>1, <2>2 DEF Screens
  <2>4. calls' = calls
    BY <1>6 DEF AfterBack, plugin
  <2> QED
    BY <2>3, <2>4 DEF CallsMade
<1>7. CASE AfterLeave
  <2>1. PICK j \in Screens : j = ResetSession(js) /\ j.sess = js.sess
    BY <1>1, ResetTyped
  <2>2. Unmount(j, work, <<>>)
    BY <1>7, <2>1 DEF AfterLeave
  <2> QED
    BY <2>1, <2>2, UnmountCalls
<1> QED
  BY <1>2, <1>3, <1>5, <1>6, <1>7 DEF Script

LEMMA MadeInOrder ==
  ASSUME Hardwired, Scripted, CallsMade, NEW F, NEW shown,
         InOrder(calls, acceptor.now, js.sess, shown, F),
         \A m : Plain(m) /\ m.then \in F => m.then.s = js.sess /\ shown
  PROVE  InOrder(calls', acceptor.now, js.sess, shown, F)
<1>1. acceptor.now \in Nat /\ js.sess \in Nat /\ calls \in Seq(Calls)
  <2>1. acceptor.now \in Sessions \cup {0} /\ js.sess \in Sessions \cup {0}
    BY DEF Hardwired, Scripted, Acceptors, Screens
  <2> QED
    BY <2>1, SessionsAbove DEF Hardwired
<1>2. PICK n, last : n = acceptor.now /\ last = js.sess
  OBVIOUS
<1>3. ASSUME NEW c \in Seq(Calls), InOrder(c, n, last, shown, F), NEW m, Plain(m)
      PROVE  InOrder(Append(c, m), n, last, shown, F) /\ Append(c, m) \in Seq(Calls)
  <2>1. m \in Calls /\ m.op # "start" /\ (m.then \in F => m.then.s = last /\ shown)
    BY <1>2, <1>3 DEF Plain
  <2> QED
    BY <1>1, <1>2, <1>3, <2>1, OrderAppend
<1>4. CASE calls' = calls
  BY <1>4
<1>5. ASSUME NEW m, Plain(m), calls' = Append(calls, m)
      PROVE  InOrder(calls', acceptor.now, js.sess, shown, F)
  BY <1>1, <1>2, <1>3, <1>5
<1>6. ASSUME NEW m, NEW m2, Plain(m), Plain(m2), calls' = Append(Append(calls, m), m2)
      PROVE  InOrder(calls', acceptor.now, js.sess, shown, F)
  <2>1. PICK c : c = Append(calls, m)
    OBVIOUS
  <2>2. c \in Seq(Calls) /\ InOrder(c, n, last, shown, F)
    BY <1>1, <1>2, <1>3, <1>6, <2>1
  <2> QED
    BY <1>2, <1>3, <1>6, <2>1, <2>2
<1> QED
  BY <1>4, <1>5, <1>6 DEF CallsMade

LEMMA MadeStarts ==
  ASSUME Hardwired, Hardwired', Scripted, StartsAgree, Elsewhere, CallsMade
  PROVE  StartsAgree'
<1>1. PICK last, shown, n : last = js.sess /\ shown = (js.screen = "cash") /\ n = acceptor.now
  OBVIOUS
<1>2. InOrder(calls, acceptor.now, js.sess, shown, FinalizingThens)
  BY <1>1, StartsInOrder
<1>3. ASSUME NEW m, Plain(m), m.then \in FinalizingThens
      PROVE  m.then.s = js.sess /\ shown
  BY <1>1, <1>3 DEF Plain, FinalizingThens, Finalizing
<1>4. InOrder(calls', n, last, shown, FinalizingThens)
  BY <1>1, <1>2, <1>3, MadeInOrder
<1>5. js'.sess = last /\ (js'.screen = "cash" => shown) /\ acceptor'.now = n
  BY <1>1 DEF CallsMade, Elsewhere
<1>6. InOrder(calls', acceptor'.now, js'.sess, js'.screen = "cash", FinalizingThens)
  <2>1. PICK k : k = (js'.screen = "cash")
    OBVIOUS
  <2>2. k => shown
    BY <1>5, <2>1
  <2>3. PICK c : c = calls'
    OBVIOUS
  <2>4. InOrder(c, n, last, k, FinalizingThens)
    BY <1>4, <2>2, <2>3, OrderWeaker
  <2> QED
    BY <1>5, <2>1, <2>3, <2>4
<1> QED
  BY <1>6, StartsInOrderNext

\* The call that starts a session.
LEMMA SelectCalls ==
  ASSUME Hardwired, Scripted, NEW t \in Targets, SelectCash(t)
  PROVE  /\ \E m \in Calls : /\ m.op = "start" /\ m.s = js.sess + 1
                             /\ calls' = Append(calls, m)
         /\ js'.sess = js.sess + 1 /\ js'.screen = "cash"
         /\ js'.ref = js.sess + 1 /\ js'.collected = 0
<1>1. PICK s : s = js.sess + 1 /\ s \in Sessions
  BY DEF SelectCash
<1>2. PICK m : m = [op |-> "start", target |-> t, s |-> s]
  OBVIOUS
<1>3. m \in Calls /\ m.op = "start" /\ m.s = s
  BY <1>1, <1>2 DEF Calls
<1>4. calls' = Append(calls, m)
  BY <1>1, <1>2 DEF SelectCash
<1>5. js' = [ResetSession(js) EXCEPT !.screen = "cash", !.sess = s, !.ref = s, !.inhibited = FALSE]
  BY <1>1 DEF SelectCash
<1>6. ResetSession(js) \in Screens /\ ResetSession(js).collected = 0
  BY DEF Scripted, ResetSession, Screens
<1>7. js'.sess = s /\ js'.screen = "cash" /\ js'.ref = s /\ js'.collected = 0
  BY <1>5, <1>6 DEF Screens
<1> QED
  BY <1>1, <1>3, <1>4, <1>7

LEMMA SelectStarts ==
  ASSUME Hardwired, Hardwired', Scripted, StartsAgree, NEW t \in Targets, SelectCash(t)
  PROVE  StartsAgree'
<1>1. PICK n, last, shown : n = acceptor.now /\ last = js.sess /\ shown = (js.screen = "cash")
  OBVIOUS
<1>2. n \in Nat /\ last \in Nat /\ calls \in Seq(Calls)
  <2>1. n \in Sessions \cup {0} /\ last \in Sessions \cup {0}
    BY <1>1 DEF Hardwired, Scripted, Acceptors, Screens
  <2> QED
    BY <2>1, SessionsAbove DEF Hardwired
<1>3. InOrder(calls, n, last, shown, FinalizingThens)
  BY <1>1, StartsInOrder
<1>4. InOrder(calls', n, last + 1, TRUE, FinalizingThens)
  BY <1>1, <1>2, <1>3, SelectCalls, OrderStart
<1>5. acceptor'.now = n
  BY <1>1 DEF SelectCash, Free, device
<1>6. js'.sess = last + 1 /\ (js'.screen = "cash") = TRUE
  BY <1>1, SelectCalls
<1>7. InOrder(calls', acceptor'.now, js'.sess, js'.screen = "cash", FinalizingThens)
  BY <1>4, <1>5, <1>6
<1> QED
  BY <1>7, StartsInOrderNext

LEMMA RestartStarts ==
  ASSUME Hardwired, Hardwired', Scripted, StartsAgree, Restart
  PROVE  StartsAgree'
<1>1. calls' = <<>> /\ js'.sess = js.sess /\ js'.screen # "cash" /\ acceptor'.now = acceptor.now
  <2>1. calls' = <<>> /\ acceptor' = Disable(Decline(acceptor))
    BY DEF Restart, ReaderRestart
  <2>2. acceptor'.now = acceptor.now
    BY <2>1, DeviceFollows
  <2>3. js'.sess = js.sess /\ js'.screen # "cash"
    BY DEF Restart, ResetSession, Scripted, Screens
  <2> QED
    BY <2>1, <2>2, <2>3
<1>2. PICK n, last : n = acceptor.now /\ last = js.sess
  OBVIOUS
<1>3. n \in Nat /\ last \in Nat
  <2>1. n \in Sessions \cup {0} /\ last \in Sessions \cup {0}
    BY <1>2 DEF Hardwired, Scripted, Acceptors, Screens
  <2> QED
    BY <2>1, SessionsAbove
<1>4. n <= last
  BY <1>2 DEF StartsAgree
<1>5. InOrder(<<>>, n, last, FALSE, FinalizingThens)
  BY <1>3, <1>4, OrderEmpty
<1>6. InOrder(calls', acceptor'.now, js'.sess, js'.screen = "cash", FinalizingThens)
  BY <1>1, <1>2, <1>5
<1> QED
  BY <1>6, StartsInOrderNext

----------------------------------------------------------------------------
(* What the screen will show *)

Last(c, q) == Shown(c, q, Len(q) + 1)
After(c, e) == IF Carries(e) THEN e.total ELSE c

\* What is shown at the results of F is in R with their sessions.
AtResults(c, q, R, F) ==
  \A i \in DOMAIN q : q[i].k = "result" /\ q[i].then \in F =>
    \A x \in Shown(c, q, i) : <<q[i].then.s, x>> \in R

LEMMA CarriesTotal ==
  ASSUME NEW e \in Messages, Carries(e)
  PROVE  e \in Events /\ e.total \in Nat
<1>1. e \in Events
  BY DEF Carries, Messages, Results
<1> QED
  BY <1>1 DEF Events

\* The same messages come before.
LEMMA ShownSame ==
  ASSUME NEW c, NEW q, NEW p, NEW i, NEW j, Carrying(p, j) = Carrying(q, i),
         \A x \in Carrying(q, i) : p[x] = q[x]
  PROVE  Shown(c, p, j) = Shown(c, q, i)
  BY DEF Shown

LEMMA ShownAppend ==
  ASSUME NEW q \in Seq(Messages), NEW c, NEW e \in Messages
  PROVE  /\ \A i \in 1..(Len(q) + 1) : Shown(c, Append(q, e), i) = Shown(c, q, i)
         /\ Last(c, Append(q, e)) = IF Carries(e) THEN {e.total} ELSE Last(c, q)
<1>1. PICK p, k : p = Append(q, e) /\ k = Len(q)
  OBVIOUS
<1>2. /\ p \in Seq(Messages) /\ Len(p) = k + 1 /\ k \in Nat
      /\ \A i \in 1..k : p[i] = q[i]
      /\ p[k + 1] = e
  BY <1>1, AppendProperties
<1>3. DOMAIN p = 1..(k + 1) /\ DOMAIN q = 1..k
  BY <1>1, <1>2
<1>4. ASSUME NEW i \in 1..(k + 1) PROVE Shown(c, p, i) = Shown(c, q, i)
  <2>1. \A x : x \in 1..(k + 1) /\ x < i <=> x \in 1..k /\ x < i
    BY <1>2
  <2>2. Carrying(p, i) = Carrying(q, i) /\ Carrying(q, i) \subseteq 1..k
    BY <1>2, <1>3, <2>1 DEF Carrying
  <2> QED
    BY <1>2, <2>2, ShownSame
<1>5. CASE Carries(e)
  <2>1. PICK C : C = Carrying(p, k + 2)
    OBVIOUS
  <2>2. k + 1 \in C /\ \A x \in C : x <= k + 1 /\ x \in 1..(k + 1)
    <3>1. \A x \in 1..(k + 1) : x <= k + 1
      BY <1>2
    <3>2. k + 1 < k + 2 /\ k + 1 \in 1..(k + 1)
      BY <1>2
    <3> QED
      BY <1>2, <1>3, <1>5, <2>1, <3>1, <3>2 DEF Carrying
  <2>3. {x \in C : \A y \in C : y <= x} = {k + 1}
    <3>1. \A x \in 1..(k + 1) : k + 1 <= x => x = k + 1
      BY <1>2
    <3> QED
      BY <2>2, <3>1
  <2>4. Shown(c, p, k + 2) = {p[k + 1].total}
    BY <2>1, <2>2, <2>3 DEF Shown
  <2>5. (k + 1) + 1 = k + 2
    BY <1>2
  <2> QED
    BY <1>1, <1>2, <1>4, <1>5, <2>4, <2>5 DEF Last
<1>6. CASE ~Carries(e)
  <2>1. \A x : x \in 1..(k + 1) /\ x < k + 2 <=> x = k + 1 \/ (x \in 1..k /\ x < k + 1)
    BY <1>2
  <2>2. \A x \in 1..k : x # k + 1
    BY <1>2
  <2>3. Carrying(p, k + 2) = Carrying(q, k + 1) /\ Carrying(q, k + 1) \subseteq 1..k
    BY <1>2, <1>3, <1>6, <2>1, <2>2 DEF Carrying
  <2>4. Shown(c, p, k + 2) = Shown(c, q, k + 1)
    BY <1>2, <2>3, ShownSame
  <2>5. (k + 1) + 1 = k + 2
    BY <1>2
  <2> QED
    BY <1>1, <1>2, <1>4, <1>6, <2>4, <2>5 DEF Last
<1> QED
  BY <1>5, <1>6

LEMMA ShownTail ==
  ASSUME NEW q \in Seq(Messages), q # <<>>, NEW c
  PROVE  /\ \A i \in 1..Len(q) : Shown(After(c, Head(q)), Tail(q), i) = Shown(c, q, i + 1)
         /\ Last(After(c, Head(q)), Tail(q)) = Last(c, q)
<1>1. PICK p, k, e, c2 : p = Tail(q) /\ k = Len(q) /\ e = Head(q) /\ c2 = After(c, e)
  OBVIOUS
<1>2. /\ k \in Nat \ {0} /\ p \in Seq(Messages) /\ Len(p) = k - 1
      /\ DOMAIN q = 1..k /\ DOMAIN p = 1..(k - 1) /\ q[1] = e
  BY <1>1
<1>3. \A i \in 1..(k - 1) : p[i] = q[i + 1]
  BY <1>1
<1>4. ASSUME NEW i \in 1..k PROVE Shown(c2, p, i) = Shown(c, q, i + 1)
  <2>1. PICK C, D : C = Carrying(q, i + 1) /\ D = Carrying(p, i)
    OBVIOUS
  <2>2. \A x \in D : x \in Nat \ {0} /\ x + 1 \in C /\ p[x] = q[x + 1]
    <3>1. \A x \in 1..(k - 1) : x \in Nat \ {0} /\ x + 1 \in 1..k /\ (x < i => x + 1 < i + 1)
      BY <1>2
    <3> QED
      BY <1>2, <1>3, <2>1, <3>1 DEF Carrying
  <2>3. \A x \in C : x \in Nat \ {0} /\ (x # 1 => x - 1 \in D /\ p[x - 1] = q[x])
    <3>1. \A x \in 1..k : /\ x \in Nat \ {0}
                          /\ x # 1 /\ x < i + 1 => x - 1 \in 1..(k - 1) /\ x - 1 < i
                          /\ (x - 1) + 1 = x
      BY <1>2
    <3> QED
      BY <1>2, <1>3, <2>1, <3>1 DEF Carrying
  <2>4. 1 \in C <=> Carries(e)
    <3>1. 1 \in 1..k /\ 1 < i + 1
      BY <1>2
    <3> QED
      BY <1>2, <2>1, <3>1 DEF Carrying
  <2>5. PICK A, B : /\ A = {x \in C : \A y \in C : y <= x}
                    /\ B = {x \in D : \A y \in D : y <= x}
    OBVIOUS
  <2>6. /\ Shown(c, q, i + 1) = {q[x].total : x \in A} \cup {n \in {c} : C = {}}
        /\ Shown(c2, p, i) = {p[x].total : x \in B} \cup {n \in {c2} : D = {}}
    BY <2>1, <2>5 DEF Shown
  <2>7. CASE D = {}
    <3>1. C \subseteq {1}
      BY <2>3, <2>7
    <3>2. Shown(c2, p, i) = {c2}
      BY <2>5, <2>6, <2>7
    <3>3. CASE Carries(e)
      <4>1. C = {1}
        BY <2>4, <3>1, <3>3
      <4>2. A = {1}
        <5>1. 1 <= 1
          OBVIOUS
        <5> QED
          BY <2>5, <4>1, <5>1
      <4>3. Shown(c, q, i + 1) = {e.total}
        BY <1>2, <2>6, <4>1, <4>2
      <4> QED
        BY <1>1, <3>2, <3>3, <4>3 DEF After
    <3>4. CASE ~Carries(e)
      <4>1. C = {}
        BY <2>4, <3>1, <3>4
      <4>2. c2 = c
        BY <1>1, <3>4 DEF After
      <4>3. A = {}
        BY <2>5, <4>1
      <4>4. Shown(c, q, i + 1) = {c}
        BY <2>6, <4>1, <4>3
      <4> QED
        BY <3>2, <4>2, <4>4
    <3> QED
      BY <3>3, <3>4
  <2>8. CASE D # {}
    <3>1. C # {}
      BY <2>2, <2>8
    <3>2. \A x \in B : x + 1 \in A /\ p[x].total = q[x + 1].total
      <4> SUFFICES ASSUME NEW x \in B PROVE x + 1 \in A /\ p[x].total = q[x + 1].total
        OBVIOUS
      <4>1. x \in Nat \ {0} /\ x + 1 \in C /\ p[x] = q[x + 1] /\ \A y \in D : y <= x
        BY <2>2, <2>5
      <4>2. ASSUME NEW y \in C PROVE y <= x + 1
        <5>1. CASE y = 1
          BY <4>1, <5>1
        <5>2. CASE y # 1
          <6>1. y - 1 <= x /\ y \in Nat
            BY <2>3, <4>1, <5>2
          <6> QED
            BY <4>1, <6>1
        <5> QED
          BY <5>1, <5>2
      <4> QED
        BY <2>5, <4>1, <4>2
    <3>3. \A x \in A : x - 1 \in B /\ p[x - 1].total = q[x].total
      <4> SUFFICES ASSUME NEW x \in A PROVE x - 1 \in B /\ p[x - 1].total = q[x].total
        OBVIOUS
      <4>1. x \in C /\ x \in Nat \ {0} /\ \A y \in C : y <= x
        BY <2>3, <2>5
      <4>2. PICK z : z \in D
        BY <2>8
      <4>3. x # 1
        <5>1. z + 1 <= x /\ z \in Nat \ {0}
          BY <2>2, <4>1, <4>2
        <5> QED
          BY <4>1, <5>1
      <4>4. x - 1 \in D /\ p[x - 1] = q[x]
        BY <2>3, <4>1, <4>3
      <4>5. ASSUME NEW y \in D PROVE y <= x - 1
        <5>1. y + 1 <= x /\ y \in Nat
          BY <2>2, <4>1
        <5> QED
          BY <4>1, <5>1
      <4> QED
        BY <2>5, <4>4, <4>5
    <3>4. {q[x].total : x \in A} = {p[x].total : x \in B}
      BY <3>2, <3>3
    <3> QED
      BY <2>6, <2>8, <3>1, <3>4
  <2> QED
    BY <2>7, <2>8
<1>5. Shown(c2, p, k) = Shown(c, q, k + 1) /\ (k - 1) + 1 = k
  BY <1>2, <1>4
<1> QED
  BY <1>1, <1>2, <1>4, <1>5 DEF Last

LEMMA ShownFirst ==
  ASSUME NEW q \in Seq(Messages), NEW c
  PROVE  Shown(c, q, 1) = {c}
<1>1. Carrying(q, 1) = {}
  <2>1. \A j \in DOMAIN q : ~(j < 1)
    OBVIOUS
  <2> QED
    BY <2>1 DEF Carrying
<1> QED
  BY <1>1 DEF Shown

LEMMA ShownReset ==
  ASSUME NEW q \in Seq(Messages), NEW c, NEW d, NEW i
  PROVE  Shown(d, q, i) \subseteq Shown(c, q, i) \cup {d}
  BY DEF Shown

LEMMA ShownTyped ==
  ASSUME NEW q \in Seq(Messages), NEW c \in Nat, NEW i
  PROVE  Shown(c, q, i) \subseteq Nat
<1>1. \A j \in Carrying(q, i) : q[j] \in Messages /\ Carries(q[j])
  BY DEF Carrying
<1>2. \A j \in Carrying(q, i) : q[j].total \in Nat
  BY <1>1, CarriesTotal
<1> QED
  BY <1>2 DEF Shown

----------------------------------------------------------------------------
(* What is shown at the results *)

LEMMA AppendResults ==
  ASSUME NEW q \in Seq(Messages), NEW c, NEW R, NEW F, AtResults(c, q, R, F),
         NEW e \in Messages,
         e.k = "result" /\ e.then \in F => \A x \in Last(c, q) : <<e.then.s, x>> \in R
  PROVE  AtResults(c, Append(q, e), R, F)
<1>1. PICK p, k : p = Append(q, e) /\ k = Len(q)
  OBVIOUS
<1>2. /\ p \in Seq(Messages) /\ Len(p) = k + 1 /\ k \in Nat
      /\ \A i \in 1..k : p[i] = q[i]
      /\ p[k + 1] = e
  BY <1>1, AppendProperties
<1>3. DOMAIN p = 1..(k + 1) /\ DOMAIN q = 1..k
  BY <1>1, <1>2
<1>4. \A i \in 1..(k + 1) : Shown(c, p, i) = Shown(c, q, i) /\ (i \in 1..k \/ i = k + 1)
  <2>1. \A i \in 1..(k + 1) : i \in 1..k \/ i = k + 1
    BY <1>2
  <2>2. \A i \in 1..(k + 1) : Shown(c, p, i) = Shown(c, q, i)
    BY <1>1, ShownAppend
  <2> QED
    BY <2>1, <2>2
<1>5. k + 1 \in 1..(k + 1)
  BY <1>2
<1> SUFFICES ASSUME NEW i \in 1..(k + 1), p[i].k = "result", p[i].then \in F,
                    NEW x \in Shown(c, p, i)
             PROVE  <<p[i].then.s, x>> \in R
  BY <1>1, <1>3 DEF AtResults
<1>6. CASE i \in 1..k
  BY <1>2, <1>3, <1>4, <1>6 DEF AtResults
<1>7. CASE i = k + 1
  BY <1>1, <1>2, <1>4, <1>7 DEF Last
<1> QED
  BY <1>4, <1>6, <1>7

LEMMA TailResults ==
  ASSUME NEW q \in Seq(Messages), q # <<>>, NEW c, NEW R, NEW F, AtResults(c, q, R, F)
  PROVE  AtResults(After(c, Head(q)), Tail(q), R, F)
<1>1. PICK p, k : p = Tail(q) /\ k = Len(q)
  OBVIOUS
<1>2. /\ k \in Nat \ {0} /\ DOMAIN q = 1..k /\ DOMAIN p = 1..(k - 1)
      /\ \A i \in 1..(k - 1) : p[i] = q[i + 1]
  BY <1>1
<1>3. \A i \in 1..(k - 1) : i \in 1..k /\ i + 1 \in 1..k
  BY <1>2
<1> SUFFICES ASSUME NEW i \in 1..(k - 1), p[i].k = "result", p[i].then \in F,
                    NEW x \in Shown(After(c, Head(q)), p, i)
             PROVE  <<p[i].then.s, x>> \in R
  BY <1>1, <1>2 DEF AtResults
<1>4. x \in Shown(c, q, i + 1)
  BY <1>1, <1>3, ShownTail
<1> QED
  BY <1>2, <1>3, <1>4 DEF AtResults

LEMMA ResetResults ==
  ASSUME NEW q \in Seq(Messages), NEW c, NEW R, NEW F, AtResults(c, q, R, F), NEW d,
         \A i \in DOMAIN q : q[i].k = "result" /\ q[i].then \in F => <<q[i].then.s, d>> \in R
  PROVE  AtResults(d, q, R, F)
<1> SUFFICES ASSUME NEW i \in DOMAIN q, q[i].k = "result", q[i].then \in F,
                    NEW x \in Shown(d, q, i)
             PROVE  <<q[i].then.s, x>> \in R
  BY DEF AtResults
<1>1. x \in Shown(c, q, i) \/ x = d
  BY ShownReset
<1> QED
  BY <1>1 DEF AtResults

LEMMA HeadResult ==
  ASSUME NEW q \in Seq(Messages), q # <<>>, NEW c, NEW R, NEW F, AtResults(c, q, R, F),
         Head(q).k = "result", Head(q).then \in F
  PROVE  <<Head(q).then.s, c>> \in R
<1>1. 1 \in DOMAIN q /\ q[1] = Head(q)
  OBVIOUS
<1>2. c \in Shown(c, q, 1)
  BY ShownFirst
<1> QED
  BY <1>1, <1>2 DEF AtResults

LEMMA WeakerResults ==
  ASSUME NEW q, NEW c, NEW R, NEW F, AtResults(c, q, R, F), NEW S, NEW G,
         \A i \in DOMAIN q : q[i].k = "result" /\ q[i].then \in G =>
           /\ q[i].then \in F
           /\ \A x \in Shown(c, q, i) : <<q[i].then.s, x>> \in R => <<q[i].then.s, x>> \in S
  PROVE  AtResults(c, q, S, G)
  BY DEF AtResults

----------------------------------------------------------------------------
(* What a finalize finds on the screen was taken *)

\* The amounts of each session that were taken; of no session any is.
Backing == {x \in (Sessions \cup {0}) \X Nat : Covered(x[1], x[2])}

LEMMA InBacking ==
  /\ \A s, n : <<s, n>> \in Backing <=> s \in Sessions \cup {0} /\ n \in Nat /\ Covered(s, n)
  /\ \A s, n : <<s, n>> \in Backing' <=> s \in Sessions \cup {0} /\ n \in Nat /\ Covered(s, n)'
<1>1. ASSUME NEW s, NEW n
      PROVE  <<s, n>> \in Backing <=> s \in Sessions \cup {0} /\ n \in Nat /\ Covered(s, n)
  <2>1. <<s, n>>[1] = s /\ <<s, n>>[2] = n
    OBVIOUS
  <2>2. <<s, n>> \in (Sessions \cup {0}) \X Nat <=> s \in Sessions \cup {0} /\ n \in Nat
    OBVIOUS
  <2> QED
    BY <2>1, <2>2 DEF Backing
<1>2. ASSUME NEW s, NEW n
      PROVE  <<s, n>> \in Backing' <=> s \in Sessions \cup {0} /\ n \in Nat /\ Covered(s, n)'
  <2>1. <<s, n>>[1] = s /\ <<s, n>>[2] = n
    OBVIOUS
  <2>2. <<s, n>> \in (Sessions \cup {0}) \X Nat <=> s \in Sessions \cup {0} /\ n \in Nat
    OBVIOUS
  <2> QED
    BY <2>1, <2>2 DEF Backing, Covered, Covers, TakenOf, CashOf
<1> QED
  BY <1>1, <1>2

LEMMA BackingGrows ==
  ASSUME Hardwired, Hardwired', Grown
  PROVE  \A s, n : <<s, n>> \in Backing => <<s, n>> \in Backing'
  BY InBacking, StillCovered

LEMMA NothingBacked ==
  ASSUME Hardwired'
  PROVE  \A s \in Sessions \cup {0} : <<s, 0>> \in Backing'
<1>1. ASSUME NEW s \in Sessions \cup {0} PROVE Covered(s, 0)'
  <2>1. CASE s \in Sessions
    <3>1. Covers(s, 0)'
      BY <2>1, NothingCovered
    <3> QED
      BY <3>1 DEF Covered, Covers, TakenOf, CashOf
  <2>2. CASE s \notin Sessions
    BY <2>2 DEF Covered
  <2> QED
    BY <2>1, <2>2
<1>2. 0 \in Nat
  OBVIOUS
<1> QED
  BY <1>1, <1>2, InBacking

LEMMA ResultTyped ==
  ASSUME NEW q \in Seq(Messages), NEW i \in DOMAIN q, q[i].k = "result"
  PROVE  q[i].then \in Thens /\ q[i].then.s \in Sessions \cup {0}
<1>1. q[i] \in Messages
  OBVIOUS
<1>2. q[i] \in Results(Thens)
  BY <1>1 DEF Messages, Events
<1>3. q[i].then \in Thens
  BY <1>2 DEF Results
<1> QED
  BY <1>3 DEF Thens

AllBacked(n, S) == \A x \in S : <<n, x>> \in Backing

LEMMA ResultsBacked ==
  ASSUME Hardwired, Scripted, ResultsCovered
  PROVE  /\ AllBacked(acceptor.now, Last(js.collected, queue))
         /\ AtResults(js.collected, queue, Backing, FinalizingThens)
         /\ \A s \in Sessions : <<s, credit[s]>> \in Backing
<1>1. queue \in Seq(Messages) /\ js.collected \in Nat /\ acceptor.now \in Sessions \cup {0}
  BY DEF Hardwired, Scripted, Screens, Acceptors
<1>2. \A i : ShownAt(i) = Shown(js.collected, queue, i) /\ ShownAt(i) \subseteq Nat
  BY <1>1, ShownTyped DEF ShownAt
<1>3. AllBacked(acceptor.now, Last(js.collected, queue))
  BY <1>1, <1>2, InBacking DEF ResultsCovered, ShownLast, Last, AllBacked
<1>4. AtResults(js.collected, queue, Backing, FinalizingThens)
  BY <1>1, <1>2, InBacking, ResultTyped DEF ResultsCovered, AtResults, FinalizingThens
<1>5. \A s \in Sessions : credit[s] \in Nat
  BY DEF Scripted
<1> QED
  BY <1>3, <1>4, <1>5, InBacking DEF ResultsCovered

LEMMA ResultsBackedNext ==
  ASSUME Hardwired',
         \A x \in Last(js'.collected, queue') : <<acceptor'.now, x>> \in Backing',
         AtResults(js'.collected, queue', Backing', FinalizingThens),
         \A s \in Sessions : <<s, credit'[s]>> \in Backing'
  PROVE  ResultsCovered'
<1>1. PICK q, c, n, k : q = queue' /\ c = js'.collected /\ n = acceptor'.now /\ k = credit'
  OBVIOUS
<1>2. \A x \in Shown(c, q, Len(q) + 1) : Covered(n, x)'
  BY <1>1, InBacking DEF Last
<1>3. \A i \in DOMAIN q : q[i].k = "result" /\ Finalizing(q[i].then) =>
        \A x \in Shown(c, q, i) : Covered(q[i].then.s, x)'
  <2>1. q \in Seq(Messages)
    BY <1>1 DEF Hardwired
  <2> QED
    BY <1>1, <2>1, InBacking, ResultTyped DEF AtResults, FinalizingThens
<1>4. \A s \in Sessions : Covered(s, k[s])'
  BY <1>1, InBacking
<1> QED
  BY <1>1, <1>2, <1>3, <1>4
     DEF ResultsCovered, ShownLast, ShownAt, Shown, Carrying, Covered, Covers, TakenOf, CashOf

\* A message posted in a session.
LEMMA PostBacked ==
  ASSUME NEW q \in Seq(Messages), NEW c, NEW R, NEW F, AtResults(c, q, R, F), NEW n,
         NEW e \in Messages,
         IF Carries(e) THEN <<n, e.total>> \in R ELSE \A x \in Last(c, q) : <<n, x>> \in R,
         e.k = "result" /\ e.then \in F => e.then.s = n
  PROVE  /\ AtResults(c, Append(q, e), R, F) /\ Append(q, e) \in Seq(Messages)
         /\ \A x \in Last(c, Append(q, e)) : <<n, x>> \in R
<1>1. Last(c, Append(q, e)) = IF Carries(e) THEN {e.total} ELSE Last(c, q)
  BY ShownAppend
<1>2. e.k = "result" => ~Carries(e)
  BY DEF Carries
<1>3. AtResults(c, Append(q, e), R, F)
  BY <1>2, AppendResults
<1>4. \A x \in Last(c, Append(q, e)) : <<n, x>> \in R
  BY <1>1
<1> QED
  BY <1>3, <1>4

\* The result of a finalize's stop is posted in its session.
LEMMA ResultFinds ==
  ASSUME Hardwired, StartsAgree, calls # <<>>, Head(calls).op # "start", NEW r, AResult(r)
  PROVE  r.k = "result" /\ ~Carries(r) /\ (r.then \in FinalizingThens => r.then.s = acceptor.now)
<1>1. r.k = "result" /\ r.then = Head(calls).then
  BY DEF AResult
<1>2. calls \in Seq(Calls) /\ 1 \in DOMAIN calls /\ calls[1] = Head(calls)
  BY DEF Hardwired
<1>3. 1 \notin Starts
  BY <1>2 DEF Starts
<1>4. \A j \in Starts : ~(j < 1)
  BY <1>2 DEF Starts
<1>5. r.then \in FinalizingThens => r.then.s = acceptor.now
  BY <1>1, <1>2, <1>3, <1>4 DEF StartsAgree, Finds, FinalizingThens
<1> QED
  BY <1>1, <1>5 DEF Carries

LEMMA HardwareResults ==
  ASSUME Hardwired, Hardwired', Scripted, PathAgrees, ReaderCovered, ReaderCovered', StartsAgree,
         ResultsCovered, Hardware
  PROVE  ResultsCovered'
<1>1. js' = js /\ credit' = credit
  BY DEF Hardware, script
<1>2. PICK R, c, q, n, n2 : /\ R = Backing' /\ c = js.collected /\ q = queue
                            /\ n = acceptor.now /\ n2 = acceptor'.now
  OBVIOUS
<1>3. Grown
  BY HardwareGrows
<1>4. \A s, x : <<s, x>> \in Backing => <<s, x>> \in R
  BY <1>2, <1>3, BackingGrows
<1>5. /\ \A x \in Last(c, q) : <<n, x>> \in R
      /\ AtResults(c, q, R, FinalizingThens)
      /\ \A s \in Sessions : <<s, credit[s]>> \in R
  <2>1. /\ \A x \in Last(c, q) : <<n, x>> \in Backing
        /\ AtResults(c, q, Backing, FinalizingThens)
        /\ \A s \in Sessions : <<s, credit[s]>> \in Backing
    BY <1>2, ResultsBacked DEF AllBacked
  <2>2. AtResults(c, q, R, FinalizingThens)
    BY <1>4, <2>1, WeakerResults
  <2> QED
    BY <1>4, <2>1, <2>2
<1>6. q \in Seq(Messages) /\ n \in Sessions \cup {0} /\ n2 \in Sessions \cup {0}
  <2>1. acceptor \in Acceptors /\ acceptor' \in Acceptors
    BY DEF Hardwired
  <2> QED
    BY <1>2, <2>1 DEF Hardwired, Acceptors
<1>7. SUFFICES /\ \A x \in Last(c, queue') : <<n2, x>> \in R
               /\ AtResults(c, queue', R, FinalizingThens)
  BY <1>1, <1>2, <1>5, ResultsBackedNext
<1>8. n2 = n \/ StartCollecting
  BY <1>2, HardwareCalls
<1>9. CASE StartCollecting
  <2>1. PICK e : AnEvent(e, "collecting", 0, 0) /\ queue' = Append(q, e)
    BY <1>2, <1>9, StartPosts
  <2>2. e \in Messages /\ e.k = "collecting" /\ e.total = 0
    BY <2>1 DEF AnEvent
  <2>3. Carries(e) /\ e.k # "result"
    BY <2>2 DEF Carries
  <2>4. <<n2, e.total>> \in R
    BY <1>2, <1>6, <2>2, NothingBacked
  <2> QED
    BY <1>5, <1>6, <2>1, <2>2, <2>3, <2>4, PostBacked
<1>10. ASSUME queue' = q, n2 = n
       PROVE  /\ \A x \in Last(c, queue') : <<n2, x>> \in R
              /\ AtResults(c, queue', R, FinalizingThens)
  BY <1>5, <1>10
\* An event the screen does not take its amount from.
<1>11. ASSUME NEW e \in Messages, ~Carries(e), e.k # "result", queue' = Append(q, e), n2 = n
       PROVE  /\ \A x \in Last(c, queue') : <<n2, x>> \in R
              /\ AtResults(c, queue', R, FinalizingThens)
  BY <1>5, <1>6, <1>11, PostBacked
<1>12. CASE ReadBill
  <2>1. PICK e : AnEvent(e, "escrowPending", 0, 0) /\ queue' = Append(q, e)
    BY <1>2, <1>12, ReadBillPosts
  <2>2. e \in Messages /\ ~Carries(e) /\ e.k # "result"
    BY <2>1 DEF AnEvent, Carries
  <2>3. n2 = n
    BY <1>2, <1>12, NoNearer DEF Nearby
  <2> QED
    BY <1>11, <2>1, <2>2, <2>3
<1>13. ASSUME NEW x \in Nat, Covers(n, x)' \/ n \notin Sessions PROVE <<n, x>> \in R
  <2>1. Covered(n, x)'
    BY <1>13 DEF Covered, Covers, TakenOf, CashOf
  <2> QED
    BY <1>2, <1>6, <2>1, InBacking
<1>14. CASE DecideBill
  <2>1. acceptor'.now = acceptor.now
    <3>1. acceptor' \in {Decline(acceptor), Hold(acceptor), Accept(acceptor)}
      BY <1>14 DEF DecideBill, Verdict
    <3> QED
      BY <3>1 DEF Decline, Hold, Accept, Hardwired, Acceptors
  <2>2. n2 = n
    BY <1>2, <2>1
  <2>3. CASE queue' = q
    BY <1>10, <2>2, <2>3
  <2>4. ASSUME NEW e, NEW v, AnEvent(e, "accepted", v, reader.collected), queue' = Append(q, e)
        PROVE  /\ \A x \in Last(c, queue') : <<n2, x>> \in R
               /\ AtResults(c, queue', R, FinalizingThens)
    <3>1. e \in Messages /\ ~Carries(e) /\ e.k # "result"
      BY <2>4 DEF AnEvent, Carries
    <3> QED
      BY <1>11, <2>2, <2>4, <3>1
  <2>5. ASSUME NEW e, NEW v, AnEvent(e, "overpayPending", v, reader.collected),
               queue' = Append(q, e)
        PROVE  /\ \A x \in Last(c, queue') : <<n2, x>> \in R
               /\ AtResults(c, queue', R, FinalizingThens)
    <3>1. e \in Messages /\ Carries(e) /\ e.k # "result" /\ e.total = reader.collected
      BY <2>5 DEF AnEvent, Carries
    <3>2. PICK t : t = reader.collected /\ t \in Nat
      BY DEF Hardwired, Readers
    <3>3. CASE n \in Sessions
      <4>1. n # 0
        BY <3>3, SessionsAbove
      <4>2. Covers(n, t)
        BY <1>2, <3>2, <4>1 DEF ReaderCovered, Covers, TakenOf, CashOf
      <4>3. Covers(n, t)'
        BY <1>3, <3>2, <3>3, <4>2, StillCovers
      <4>4. <<n, t>> \in R
        BY <1>13, <3>2, <4>3
      <4> QED
        BY <1>5, <1>6, <2>2, <2>5, <3>1, <3>2, <4>4, PostBacked
    <3>4. CASE n \notin Sessions
      <4>1. <<n, t>> \in R
        BY <1>13, <3>2, <3>4
      <4> QED
        BY <1>5, <1>6, <2>2, <2>5, <3>1, <3>2, <4>1, PostBacked
    <3> QED
      BY <3>3, <3>4
  <2> QED
    BY <1>2, <1>14, <2>3, <2>4, <2>5, DecidePosts
<1>15. CASE EmitOutcome
  <2>1. n2 = n
    BY <1>2, <1>15, NoNearer DEF Nearby
  <2>2. PICK s, t : s = turn.s /\ t = turn.event.total
    OBVIOUS
  <2>3. turn.at = "emit" /\ t \in Nat /\ s \in Sessions \cup {0}
    BY <1>15, <2>2, TurnTyped DEF EmitOutcome
  <2>4. s # 0 /\ Covers(s, t)
    BY <2>2, <2>3 DEF ReaderCovered, Covers, TakenOf, CashOf
  <2>5. <<n, t>> \in R
    <3>1. CASE s = n
      <4>1. Covers(n, t)'
        BY <1>3, <2>3, <2>4, <3>1, StillCovers
      <4> QED
        BY <1>13, <2>3, <4>1
    <3>2. CASE s # n /\ n \in Sessions
      <4>1. mishap' = Blame(n, "strayed")
        BY <1>2, <1>15, <2>2, <3>2 DEF EmitOutcome
      <4>2. "strayed" \in mishap'[n]
        BY <3>2, <4>1, BlameGrows
      <4>3. Covered(n, t)'
        BY <4>2 DEF Covered
      <4> QED
        BY <1>2, <1>6, <2>3, <4>3, InBacking
    <3>3. CASE n \notin Sessions
      BY <1>13, <2>3, <3>3
    <3> QED
      BY <3>1, <3>2, <3>3
  <2>6. PICK e, f : /\ e \in Events /\ e \in Messages /\ e = turn.event
                    /\ AnEvent(f, "collectComplete", 0, turn.event.total)
                    /\ \/ queue' = Append(queue, e)
                       \/ queue' = Append(Append(queue, e), f)
    BY <1>15, EmitPosts
  <2>7. e.k # "result" /\ e.total = t
    BY <2>2, <2>6 DEF Events
  <2>8. f \in Messages /\ f.k # "result" /\ Carries(f) /\ f.total = t
    BY <2>2, <2>6 DEF AnEvent, Carries
  <2>9. PICK p : p = Append(q, e)
    OBVIOUS
  <2>10. p \in Seq(Messages) /\ AtResults(c, p, R, FinalizingThens) /\ \A x \in Last(c, p) : <<n, x>> \in R
    BY <1>5, <1>6, <2>5, <2>6, <2>7, <2>9, PostBacked
  <2>11. /\ AtResults(c, Append(p, f), R, FinalizingThens)
         /\ \A x \in Last(c, Append(p, f)) : <<n, x>> \in R
    BY <2>5, <2>8, <2>10, PostBacked
  <2> QED
    BY <1>2, <2>1, <2>6, <2>9, <2>10, <2>11
\* The result of a call.
<1>16. ASSUME NEW p \in Seq(Messages), AtResults(c, p, R, FinalizingThens),
              \A x \in Last(c, p) : <<n, x>> \in R, NEW r, AResult(r),
              calls # <<>>, Head(calls).op # "start", queue' = Append(p, r), n2 = n
       PROVE  /\ \A x \in Last(c, queue') : <<n2, x>> \in R
              /\ AtResults(c, queue', R, FinalizingThens)
  <2>1. r \in Messages /\ ~Carries(r) /\ (r.then \in FinalizingThens => r.then.s = n)
    BY <1>2, <1>16, ResultFinds DEF AResult
  <2> QED
    BY <1>16, <2>1, PostBacked
<1>17. CASE \/ StopCollecting /\ reader.escrow = 0
            \/ StopSettled \/ AcceptBill \/ ReturnBill
  <2>1. n2 = n
    <3>1. acceptor' \in {acceptor, Disable(acceptor), Decline(acceptor), Accept(acceptor)}
      BY <1>17 DEF StopCollecting, StopSettled, AcceptBill, ReturnBill
    <3> QED
      BY <1>2, <3>1 DEF Disable, Decline, Accept, Hardwired, Acceptors
  <2>2. PICK r : AResult(r) /\ queue' = Append(q, r)
    BY <1>2, <1>17, ReturnPosts
  <2>3. calls # <<>> /\ Head(calls).op # "start"
    BY <1>17, ReturnPosts
  <2> QED
    BY <1>5, <1>6, <1>16, <2>1, <2>2, <2>3
<1>18. CASE StopTimesOut
  <2>1. n2 = n
    BY <1>2, <1>18 DEF StopTimesOut, Disable, Hardwired, Acceptors
  <2>2. calls # <<>> /\ Head(calls).op # "start"
    BY <1>18, WaitsForStop DEF StopTimesOut
  <2>3. ASSUME NEW r, AResult(r), queue' = Append(q, r)
        PROVE  /\ \A x \in Last(c, queue') : <<n2, x>> \in R
               /\ AtResults(c, queue', R, FinalizingThens)
    BY <1>5, <1>6, <1>16, <2>1, <2>2, <2>3
  <2>4. ASSUME NEW e, NEW r, AnEvent(e, "stacked", reader.escrow, reader'.collected),
               AResult(r), queue' = Append(Append(q, e), r), reader'.collected \in Nat
        PROVE  /\ \A x \in Last(c, queue') : <<n2, x>> \in R
               /\ AtResults(c, queue', R, FinalizingThens)
    <3>1. PICK t : t = reader'.collected /\ t \in Nat
      BY <2>4
    <3>2. e \in Messages /\ Carries(e) /\ e.k # "result" /\ e.total = t
      BY <2>4, <3>1 DEF AnEvent, Carries
    <3>3. Covers(n, t)' \/ n \notin Sessions
      <4>1. CASE n \in Sessions
        <5>1. acceptor'.now # 0 /\ acceptor'.now = n
          BY <1>2, <2>1, <4>1, SessionsAbove
        <5> QED
          BY <3>1, <5>1 DEF ReaderCovered, Covers, TakenOf, CashOf
      <4> QED
        BY <4>1
    <3>4. <<n, t>> \in R
      BY <1>13, <3>1, <3>3
    <3>5. PICK p : p = Append(q, e)
      OBVIOUS
    <3>6. p \in Seq(Messages) /\ AtResults(c, p, R, FinalizingThens) /\ \A x \in Last(c, p) : <<n, x>> \in R
      BY <1>5, <1>6, <3>2, <3>4, <3>5, PostBacked
    <3> QED
      BY <1>16, <2>1, <2>2, <2>4, <3>5, <3>6
  <2> QED
    BY <1>2, <1>18, <2>3, <2>4, TimeOutPosts
<1>19. CASE \/ (StopCollecting /\ reader.escrow # 0) \/ ReadStacked \/ ReadReturned
            \/ Device \/ (\E v \in Bills : InsertBill(v))
  <2>1. queue' = q
    BY <1>2, <1>19 DEF StopCollecting, ReadStacked, ReadReturned, Settle, Device, StackBill, GiveBack,
                       InsertBill
  <2>2. n2 = n
    <3>1. ~StartCollecting
      <4>1. CASE StartCollecting
        <5>1. \E e : AnEvent(e, "collecting", 0, 0) /\ queue' = Append(q, e)
          BY <1>2, <4>1, StartPosts
        <5>2. \A e \in Messages : Append(q, e) # q
          <6>1. \A e \in Messages : Len(Append(q, e)) = Len(q) + 1 /\ Len(q) \in Nat
            BY <1>6, AppendProperties
          <6> QED
            BY <6>1
        <5> QED
          BY <2>1, <5>1, <5>2 DEF AnEvent
      <4> QED
        BY <1>8, <1>9, <4>1
    <3> QED
      BY <1>8, <3>1
  <2> QED
    BY <1>10, <2>1, <2>2
<1> QED
  BY <1>9, <1>12, <1>14, <1>15, <1>17, <1>18, <1>19 DEF Hardware, ReaderThread, PluginThread

\* What the script leaves to be shown: what was, or nothing.
LEMMA ScreenBacked ==
  ASSUME Hardwired', NEW c, acceptor'.now = acceptor.now,
         \A x \in Last(c, queue') : <<acceptor.now, x>> \in Backing',
         AtResults(c, queue', Backing', FinalizingThens),
         js'.collected \in {c, 0},
         \A s \in Sessions : <<s, credit'[s]>> \in Backing'
  PROVE  ResultsCovered'
<1>1. PICK q, R, n, d : q = queue' /\ R = Backing' /\ n = acceptor'.now /\ d = js'.collected
  OBVIOUS
<1>2. q \in Seq(Messages) /\ n \in Sessions \cup {0}
  <2>1. acceptor' \in Acceptors
    BY DEF Hardwired
  <2> QED
    BY <1>1, <2>1 DEF Hardwired, Acceptors
<1>3. \A s \in Sessions \cup {0} : <<s, 0>> \in R
  BY <1>1, NothingBacked
<1>4. CASE d = c
  BY <1>1, <1>4, ResultsBackedNext
<1>5. CASE d = 0
  <2>1. \A x \in Last(d, q) : <<n, x>> \in R
    <3>1. Last(d, q) \subseteq Last(c, q) \cup {0}
      BY <1>2, <1>5, ShownReset DEF Last
    <3> QED
      BY <1>1, <1>2, <1>3, <3>1
  <2>2. \A i \in DOMAIN q : q[i].k = "result" /\ q[i].then \in FinalizingThens =>
          <<q[i].then.s, d>> \in R
    BY <1>2, <1>3, <1>5, ResultTyped
  <2>3. AtResults(d, q, R, FinalizingThens)
    BY <1>1, <1>2, <2>2, ResetResults
  <2> QED
    BY <1>1, <2>1, <2>3, ResultsBackedNext
<1> QED
  BY <1>1, <1>4, <1>5

LEMMA SameResults ==
  ASSUME Hardwired, Hardwired', Scripted, Grown, ResultsCovered,
         acceptor' = acceptor, queue' = queue, credit' = credit, js'.collected \in {js.collected, 0}
  PROVE  ResultsCovered'
<1>1. /\ \A x \in Last(js.collected, queue) : <<acceptor.now, x>> \in Backing
      /\ AtResults(js.collected, queue, Backing, FinalizingThens)
      /\ \A s \in Sessions : <<s, credit[s]>> \in Backing
  BY ResultsBacked DEF AllBacked
<1>2. PICK R, c, n, k : R = Backing' /\ c = js.collected /\ n = acceptor.now /\ k = credit
  OBVIOUS
<1>3. \A s, x : <<s, x>> \in Backing => <<s, x>> \in R
  BY <1>2, BackingGrows
<1>4. AtResults(c, queue, R, FinalizingThens)
  BY <1>1, <1>2, <1>3, WeakerResults
<1>5. \A x \in Last(c, queue) : <<n, x>> \in R
  BY <1>1, <1>2, <1>3
<1>6. \A s \in Sessions : <<s, k[s]>> \in R
  BY <1>1, <1>2, <1>3
<1> QED
  BY <1>2, <1>4, <1>5, <1>6, ScreenBacked

LEMMA HandledResults ==
  ASSUME Hardwired, Hardwired', Scripted, Grown, ResultsCovered,
         acceptor' = acceptor, queue # <<>>, queue' = Tail(queue),
         js'.collected \in {After(js.collected, Head(queue)), 0},
         \/ credit' = credit
         \/ /\ Head(queue).k = "result" /\ Head(queue).then \in FinalizingThens
            /\ credit' = [credit EXCEPT ![Head(queue).then.s] = js.collected]
  PROVE  ResultsCovered'
<1>1. /\ \A x \in Last(js.collected, queue) : <<acceptor.now, x>> \in Backing
      /\ AtResults(js.collected, queue, Backing, FinalizingThens)
      /\ \A s \in Sessions : <<s, credit[s]>> \in Backing
  BY ResultsBacked DEF AllBacked
<1>2. PICK R, c, n, q : R = Backing' /\ c = js.collected /\ n = acceptor.now /\ q = queue
  OBVIOUS
<1>3. \A s, x : <<s, x>> \in Backing => <<s, x>> \in R
  BY <1>2, BackingGrows
<1>4. AtResults(c, q, R, FinalizingThens)
  BY <1>1, <1>2, <1>3, WeakerResults
<1>5. \A x \in Last(c, q) : <<n, x>> \in R
  BY <1>1, <1>2, <1>3
<1>6. PICK h, c2 : h = Head(q) /\ c2 = After(c, h)
  OBVIOUS
<1>7. q \in Seq(Messages) /\ q # <<>>
  BY <1>2 DEF Hardwired
<1>8. AtResults(c2, Tail(q), R, FinalizingThens) /\ Last(c2, Tail(q)) = Last(c, q)
  BY <1>4, <1>6, <1>7, TailResults, ShownTail
<1>9. \A s \in Sessions : <<s, credit'[s]>> \in R
  <2>1. CASE credit' = credit
    BY <1>1, <1>3, <2>1
  <2>2. CASE /\ h.k = "result" /\ h.then \in FinalizingThens
             /\ credit' = [credit EXCEPT ![h.then.s] = c]
    <3>1. <<h.then.s, c>> \in R
      BY <1>4, <1>6, <1>7, <2>2, HeadResult
    <3>2. \A s \in Sessions : credit'[s] = IF s = h.then.s THEN c ELSE credit[s]
      BY <2>2 DEF Scripted
    <3> QED
      BY <1>1, <1>3, <3>1, <3>2
  <2> QED
    BY <1>2, <1>6, <2>1, <2>2
<1>10. queue' = Tail(q) /\ js'.collected \in {c2, 0} /\ acceptor'.now = n
  BY <1>2, <1>6
<1> QED
  BY <1>2, <1>5, <1>8, <1>9, <1>10, ScreenBacked

----------------------------------------------------------------------------
(* What the script shows after a step *)

LEMMA UnmountShows ==
  ASSUME NEW j \in Screens, NEW w, NEW more, Unmount(j, w, more)
  PROVE  js'.collected = j.collected /\ js'.ref = j.ref
  BY DEF Unmount, Screens

LEMMA ResetShows ==
  ASSUME NEW j \in Screens
  PROVE  ResetSession(j).collected = 0 /\ ResetSession(j) \in Screens
         /\ ResetSession(j).ref = 0
  BY ResetTyped DEF ResetSession, Screens

LEMMA CustomerShows ==
  ASSUME Hardwired, Scripted, Customer
  PROVE  js'.collected \in {js.collected, 0} /\ credit' = credit
<1>1. js \in Screens
  BY DEF Scripted
<1>2. credit' = credit
  BY DEF Customer, SelectCash, Back, Cancel, ExecuteCancel, InhibitAccepting, IdleExpires,
         FinishAndLogout, AnswerOverpay, Free
<1>3. CASE \E t \in Targets : SelectCash(t)
  BY <1>2, <1>3, SelectCalls
<1>4. CASE Back \/ Cancel \/ IdleExpires \/ AnswerOverpay("accept") \/ AnswerOverpay("return")
  BY <1>2, <1>4 DEF Back, Cancel, ExecuteCancel, IdleExpires, AnswerOverpay
<1>5. CASE InhibitAccepting
  BY <1>1, <1>2, <1>5 DEF InhibitAccepting, Screens
<1>6. CASE FinishAndLogout
  BY <1>1, <1>2, <1>6, UnmountShows DEF FinishAndLogout
<1> QED
  BY <1>3, <1>4, <1>5, <1>6 DEF Customer

LEMMA ApiShows ==
  ASSUME Hardwired, Scripted, Api \/ HandleUnlock \/ ResumeApp
  PROVE  js'.collected \in {js.collected, 0} /\ credit' = credit
<1>1. js \in Screens
  BY DEF Scripted
<1>2. ASSUME NEW s \in Sessions, CallReturns(s)
      PROVE  js' = js /\ credit' = credit
  BY <1>2 DEF CallReturns
<1>3. ASSUME NEW s \in Sessions, Refreshed(s) \/ CallFails(s)
      PROVE  js'.collected = 0 /\ credit' = credit
  <2>1. PICK screen \in {"success", "recovery"} : Ends(s, screen)
    BY <1>3 DEF Refreshed, CallFails
  <2>2. PICK j \in Screens : j = ResetSession(js) /\ j.collected = 0
    BY <1>1, ResetShows
  <2>3. js' = [j EXCEPT !.screen = screen] \/ js' = [j EXCEPT !.screen = j.screen]
    BY <2>1, <2>2 DEF Ends
  <2> QED
    BY <2>1, <2>2, <2>3 DEF Ends, Screens
<1>4. ASSUME NEW s \in Sessions, EnterOutOfService(s)
      PROVE  js'.collected = js.collected /\ credit' = credit
  BY <1>1, <1>4, UnmountShows DEF EnterOutOfService
<1>5. ASSUME NEW q, ServerCredits(q)
      PROVE  js' = js /\ credit' = credit
  BY <1>5 DEF ServerCredits, script
<1>6. RetryReturns \/ RetryFails => js' = js /\ credit' = credit
  BY DEF RetryReturns, RetryFails
<1>7. HandleUnlock => js'.collected = js.collected /\ credit' = credit
  BY <1>1 DEF HandleUnlock, Screens
<1>8. ResumeApp => js'.collected = js.collected /\ credit' = credit
  BY <1>1, UnmountShows DEF ResumeApp
<1> QED
  BY <1>2, <1>3, <1>4, <1>5, <1>6, <1>7, <1>8 DEF Api

LEMMA ScriptShows ==
  ASSUME Hardwired, Scripted, Script
  PROVE  /\ js'.collected \in {After(js.collected, Head(queue)), 0}
         /\ \/ credit' = credit
            \/ /\ Head(queue).k = "result" /\ Head(queue).then \in FinalizingThens
               /\ credit' = [credit EXCEPT ![Head(queue).then.s] = js.collected]
<1>1. js \in Screens /\ queue \in Seq(Messages)
  BY DEF Scripted, Hardwired
<1>2. CASE HandleEvent
  <2>1. PICK e : e = Head(queue)
    OBVIOUS
  <2>2. queue # <<>> /\ e.k # "result" /\ js' = Handled(e) /\ credit' = credit
    BY <1>2, <2>1 DEF HandleEvent
  <2>3. e \in Events
    <3>1. e \in Messages
      BY <1>1, <2>1, <2>2
    <3> QED
      BY <2>2, <3>1 DEF Messages, Results
  <2>4. js'.collected = IF e.k \in {"escrowPending", "accepted"} THEN js.collected ELSE e.total
    BY <2>2, <2>3, HandledTyped
  <2>5. js'.collected = After(js.collected, e)
    BY <2>2, <2>4 DEF After, Carries
  <2> QED
    BY <2>1, <2>2, <2>5
<1>3. CASE ~HandleEvent
  <2>1. Head(queue).k = "result"
    BY <1>3 DEF Script, AfterStop, AfterFinalizeStop, AfterBack, AfterLeave, Resolved
  <2>2. After(js.collected, Head(queue)) = js.collected
    BY <2>1 DEF After, Carries
  <2>3. CASE AfterStop
    <3>1. js'.collected = js.collected
      BY <1>1, <2>3 DEF AfterStop, Stopped, Screens
    <3> QED
      BY <2>2, <2>3, <3>1 DEF AfterStop
  <2>4. ASSUME NEW what \in {"finalize", "cancel"}, Resolved(what), NEW c \in BOOLEAN,
               Finalized(Of.s, Of.ref, c)
        PROVE  /\ js'.collected \in {js.collected, 0}
               /\ \/ credit' = credit
                  \/ /\ Head(queue).then \in FinalizingThens
                     /\ credit' = [credit EXCEPT ![Head(queue).then.s] = js.collected]
    <3>1. js' = Stopped \/ js' = ResetSession(js)
      BY <2>4 DEF Finalized
    <3>2. Stopped.collected = js.collected
      BY <1>1 DEF Stopped, Screens
    <3>3. Of \in FinalizingThens
      <4>1. Of \in Thens /\ Of.what = what
        BY <2>4, ResolvedKeeps
      <4> QED
        BY <4>1 DEF FinalizingThens, Finalizing
    <3>4. credit' = credit \/ credit' = [credit EXCEPT ![Of.s] = js.collected]
      BY <2>4 DEF Finalized, CreditAmount
    <3> QED
      BY <1>1, <3>1, <3>2, <3>3, <3>4, ResetShows DEF Of
  <2>5. CASE AfterFinalizeStop
    BY <2>1, <2>2, <2>4, <2>5 DEF AfterFinalizeStop
  <2>6. CASE AfterBack
    <3>1. PICK j \in Screens : j = ResetSession(js) /\ j.collected = 0
      BY <1>1, ResetShows
    <3>2. js' = [j EXCEPT !.screen = "home"] \/ js' = [j EXCEPT !.screen = j.screen]
      BY <2>6, <3>1 DEF AfterBack
    <3> QED
      BY <2>6, <3>1, <3>2 DEF AfterBack, Screens
  <2>7. CASE AfterLeave
    <3>1. PICK j \in Screens : j = ResetSession(js) /\ j.collected = 0
      BY <1>1, ResetShows
    <3>2. Unmount(j, work, <<>>) /\ credit' = credit
      BY <2>7, <3>1 DEF AfterLeave
    <3> QED
      BY <3>1, <3>2, UnmountShows
  <2> QED
    BY <1>3, <2>3, <2>5, <2>6, <2>7 DEF Script
<1> QED
  BY <1>2, <1>3

----------------------------------------------------------------------------
(* The money is backed in every state *)

LEMMA InitBacked ==
  ASSUME Init
  PROVE  Backed
<1>1. Hardwired /\ Scripted
  BY InitEstablishes, IsScripted
<1>2. /\ reader.collected = 0 /\ reader.escrow = 0 /\ ~reader.accepted
      /\ turn.at = "idle" /\ wire = <<>> /\ calls = <<>> /\ queue = <<>>
      /\ ~acceptor.enabled /\ acceptor.at = "empty" /\ acceptor.now = 0
      /\ js.sess = 0 /\ js.collected = 0 /\ js.screen = "home"
      /\ credit = [s \in Sessions |-> 0]
      /\ box = [counter |-> NoBills, counted |-> NoBills, unsure |-> NoBills]
  BY DEF Init, ReaderInit, Reset, Idle
<1>3. /\ \A x : wire # <<x>>
      /\ ~Arrived
  BY <1>2 DEF Arrived
<1>4. PathAgrees
  BY <1>2, <1>3 DEF PathAgrees, Empty, Stacking
<1>5. ReaderCovered
  BY <1>2, <1>3 DEF ReaderCovered
<1>6. StartsAgree
  <2>1. PICK n, last, k : n = acceptor.now /\ last = js.sess /\ k = (js.screen = "cash")
    OBVIOUS
  <2>2. n = 0 /\ last = 0 /\ ~k
    BY <1>2, <2>1
  <2>3. InOrder(<<>>, n, last, FALSE, FinalizingThens)
    <3>1. 0 <= 0 /\ 0 \in Nat
      OBVIOUS
    <3> QED
      BY <2>2, <3>1, OrderEmpty
  <2>4. InOrder(<<>>, n, last, k, FinalizingThens)
    BY <2>2, <2>3, OrderWeaker
  <2> QED
    BY <1>1, <1>2, <2>1, <2>4, StartsInOrder
<1>7. \A s \in Sessions : Covered(s, 0)
  <2>1. \A s \in Sessions : CashOf(s) \in Nat /\ TakenOf(s) \in Nat
    BY <1>1, MoneyTyped
  <2>2. \A n \in Nat : 0 <= n
    OBVIOUS
  <2> QED
    BY <2>1, <2>2 DEF Covered, Covers
<1>8. ResultsCovered
  <2>1. \A n : Covered(0, n)
    BY SessionsAbove DEF Covered
  <2>2. \A s \in Sessions : Covered(s, credit[s])
    BY <1>2, <1>7
  <2>3. DOMAIN queue = {}
    BY <1>2
  <2> QED
    BY <1>2, <2>1, <2>2, <2>3 DEF ResultsCovered
<1>9. BoxAgrees
  <2> SUFFICES ASSUME NEW v \in Bills
               PROVE  /\ CountOf(v) + Accepted(v) <= Total(taken, v)
                      /\ CountOf(v) + Landed(v) <= Total(cash, v)
    BY DEF BoxAgrees
  <2>1. Accepted(v) = 0 /\ Landed(v) = 0
    <3>1. reader.escrow # v
      BY <1>2, InBaht
    <3> QED
      BY <3>1 DEF Accepted, Landed, OneIf
  <2>2. Coming(v) = 0
    <3>1. Places(queue, StackedOf(v)) = {}
      BY <1>2 DEF Places
    <3>2. CountIn(queue, StackedOf(v)) = 0
      BY <3>1, FS_EmptySet DEF CountIn
    <3>3. OneIf(turn.at = "emit" /\ turn.event \in StackedOf(v)) = 0
      BY <1>2 DEF OneIf
    <3> QED
      BY <3>2, <3>3 DEF Coming, CountIn
  <2>3. box.counter[v] = 0 /\ box.unsure[v] = 0
    BY <1>2 DEF NoBills
  <2>4. CountOf(v) = 0
    BY <2>2, <2>3 DEF CountOf
  <2>5. Total(taken, v) \in Nat /\ Total(cash, v) \in Nat
    BY <1>1, CountsTyped
  <2> QED
    BY <2>1, <2>4, <2>5
<1> QED
  BY <1>4, <1>5, <1>6, <1>8, <1>9 DEF Backed

\* A step of the script, or of what is beyond it.
LEMMA BackedElsewhere ==
  ASSUME Hardwired, Hardwired', Scripted, Scripted', Backed, Elsewhere, MishapsGrow
  PROVE  PathAgrees' /\ ReaderCovered' /\ Grown /\ acceptor' = acceptor
<1>1. PathAgrees /\ ReaderCovered /\ \A s \in Sessions : mishap[s] \subseteq mishap'[s]
  BY DEF Backed, MishapsGrow
<1>2. PathAgrees'
  BY <1>1, ElsewherePath
<1>3. ReaderCovered'
  BY <1>1, ElsewhereCovered
<1>4. Grown
  BY <1>1, ElsewhereGrows
<1> QED
  BY <1>2, <1>3, <1>4 DEF Elsewhere

LEMMA NextBacked ==
  ASSUME IInv, IInv', Backed, [Next]_vars
  PROVE  Backed'
<1>1. Hardwired /\ Scripted
  BY IsScripted
<1>2. Hardwired' /\ Scripted'
  BY DEF IInv, TypeOK, MessagesOK, Hardwired, Scripted, Messages
<1>3. PathAgrees /\ ReaderCovered /\ StartsAgree /\ ResultsCovered /\ BoxAgrees
  BY DEF Backed
<1>4. CASE Hardware
  <2>1. PathAgrees' /\ ReaderCovered'
    BY <1>1, <1>2, <1>3, <1>4, HardwarePath, HardwareCovered
  <2>2. StartsAgree'
    BY <1>1, <1>2, <1>3, <1>4, HardwareStarts
  <2>3. ResultsCovered'
    BY <1>1, <1>2, <1>3, <1>4, <2>1, HardwareResults
  <2>4. BoxAgrees'
    BY <1>1, <1>2, <1>3, <1>4, HardwareBox
  <2> QED
    BY <2>1, <2>2, <2>3, <2>4 DEF Backed
<1>5. CASE Customer \/ Api \/ HandleUnlock \/ ResumeApp
  <2>1. Elsewhere /\ MishapsGrow /\ UNCHANGED <<queue, box>>
    BY <1>1, <1>5, CustomerElsewhere, ApiElsewhere
  <2>2. PathAgrees' /\ ReaderCovered' /\ Grown /\ acceptor' = acceptor
    BY <1>1, <1>2, <2>1, BackedElsewhere
  <2>3. StartsAgree'
    <3>1. CASE \E t \in Targets : SelectCash(t)
      BY <1>1, <1>2, <1>3, <3>1, SelectStarts
    <3>2. CASE ~\E t \in Targets : SelectCash(t)
      <4>1. CallsMade
        BY <1>1, <1>5, <3>2, CustomerCalls, ApiCalls
      <4> QED
        BY <1>1, <1>2, <1>3, <2>1, <4>1, MadeStarts
    <3> QED
      BY <3>1, <3>2
  <2>4. js'.collected \in {js.collected, 0} /\ credit' = credit
    BY <1>1, <1>5, CustomerShows, ApiShows
  <2>5. ResultsCovered'
    BY <1>1, <1>2, <1>3, <2>1, <2>2, <2>4, SameResults
  <2>6. BoxAgrees'
    BY <1>1, <1>2, <1>3, <2>1, SameBox
  <2> QED
    BY <2>2, <2>3, <2>5, <2>6 DEF Backed
<1>6. CASE Script
  <2>1. Elsewhere /\ MishapsGrow /\ queue # <<>> /\ queue' = Tail(queue)
    BY <1>1, <1>6, ScriptElsewhere
  <2>2. PathAgrees' /\ ReaderCovered' /\ Grown /\ acceptor' = acceptor
    BY <1>1, <1>2, <2>1, BackedElsewhere
  <2>3. CallsMade
    BY <1>1, <1>6, ScriptCalls
  <2>4. StartsAgree'
    BY <1>1, <1>2, <1>3, <2>1, <2>3, MadeStarts
  <2>5. ResultsCovered'
    BY <1>1, <1>2, <1>3, <1>6, <2>1, <2>2, ScriptShows, HandledResults
  <2>6. BoxAgrees'
    BY <1>1, <1>2, <1>3, <1>6, ScriptStepBox
  <2> QED
    BY <2>2, <2>4, <2>5, <2>6 DEF Backed
<1>7. CASE Restart
  <2>1. ReaderRestart /\ credit' = credit
    BY <1>7 DEF Restart
  <2>2. PathAgrees'
    BY <1>1, <1>3, <2>1, RestartPath
  <2>3. Grown
    BY <1>1, <1>7, RestartGrows
  <2>4. /\ reader'.collected = 0 /\ reader'.escrow = 0 /\ turn' = Idle /\ queue' = <<>>
        /\ js'.collected = 0
    <3>1. reader'.collected = 0 /\ reader'.escrow = 0 /\ turn' = Idle /\ queue' = <<>>
      BY <2>1 DEF ReaderRestart, Reset
    <3>2. PICK j \in Screens : j = ResetSession(js) /\ j.collected = 0
      BY <1>1, ResetShows DEF Scripted
    <3>3. \E x : js' = [j EXCEPT !.screen = x, !.inhibited = FALSE]
      BY <1>7, <3>2 DEF Restart
    <3> QED
      BY <3>1, <3>2, <3>3 DEF Screens
  <2>5. ReaderCovered'
    BY <1>1, <1>2, <1>3, <2>2, <2>3, <2>4, AnewCovered
  <2>6. StartsAgree'
    BY <1>1, <1>2, <1>3, <1>7, RestartStarts
  <2>7. ResultsCovered'
    <3>1. PICK R, n, q, c : R = Backing' /\ n = acceptor'.now /\ q = queue' /\ c = js'.collected
      OBVIOUS
    <3>2. n \in Sessions \cup {0}
      <4>1. acceptor' \in Acceptors
        BY <1>2 DEF Hardwired
      <4> QED
        BY <3>1, <4>1 DEF Acceptors
    <3>3. Last(c, q) = {0} /\ DOMAIN q = {}
      <4>1. Len(q) + 1 = 1 /\ q \in Seq(Messages) /\ DOMAIN q = {}
        BY <2>4, <3>1
      <4> QED
        BY <2>4, <3>1, <4>1, ShownFirst DEF Last
    <3>4. \A x \in Last(c, q) : <<n, x>> \in R
      BY <1>2, <3>1, <3>2, <3>3, NothingBacked
    <3>5. AtResults(c, q, R, FinalizingThens)
      BY <3>3 DEF AtResults
    <3>6. \A s \in Sessions : <<s, credit'[s]>> \in R
      <4>1. \A s \in Sessions : <<s, credit[s]>> \in Backing
        BY <1>1, <1>3, ResultsBacked
      <4> QED
        BY <1>1, <1>2, <2>1, <2>3, <3>1, <4>1, BackingGrows
    <3> QED
      BY <1>2, <3>1, <3>4, <3>5, <3>6, ResultsBackedNext
  <2>8. BoxAgrees'
    BY <1>1, <1>2, <1>3, <1>7, RestartBox
  <2> QED
    BY <2>2, <2>5, <2>6, <2>7, <2>8 DEF Backed
<1>8. CASE UNCHANGED vars
  <2>1. UNCHANGED <<reader, turn, acceptor, wire, calls, waiting, settled, queue, cash, taken,
                    inserted, faults, mishap, js, work, credit, pending, retry, oos, box, ticket>>
    BY <1>8 DEF vars, readerVars, script
  <2>2. Elsewhere /\ MishapsGrow
    BY <2>1 DEF Elsewhere, MishapsGrow
  <2>3. PathAgrees' /\ ReaderCovered' /\ Grown
    BY <1>1, <1>2, <2>2, BackedElsewhere
  <2>4. CallsMade
    BY <2>1 DEF CallsMade
  <2>5. StartsAgree'
    BY <1>1, <1>2, <1>3, <2>2, <2>4, MadeStarts
  <2>6. ResultsCovered'
    BY <1>1, <1>2, <1>3, <2>1, <2>3, SameResults
  <2>7. BoxAgrees'
    BY <1>1, <1>2, <1>3, <2>1, <2>2, SameBox
  <2> QED
    BY <2>3, <2>5, <2>6, <2>7 DEF Backed
<1> QED
  BY <1>4, <1>5, <1>6, <1>7, <1>8 DEF Next

\* What is credited and what is counted is backed in every state of a run.
THEOREM BackedInvariance == Spec => []Backed
<1>1. Init => Backed
  BY InitBacked
<1>2. IInv /\ IInv' /\ Backed /\ [Next]_vars => Backed'
  BY NextBacked
<1> QED
  BY <1>1, <1>2, Invariance, PTL DEF Spec

LEMMA BackedCredits == IInv /\ Backed => CreditBacked
<1> SUFFICES ASSUME IInv, Backed, NEW s \in Sessions, "strayed" \notin mishap[s]
             PROVE  /\ ticket[s] <= Worth(taken[s])
                    /\ "no answer" \notin mishap[s] => ticket[s] <= Worth(cash[s])
  BY DEF CreditBacked
<1>1. Hardwired /\ Scripted /\ RefsAgree
  BY IsScripted
<1>2. Covers(s, credit[s])
  BY DEF Backed, ResultsCovered, Covered
<1>3. ticket[s] = 0 \/ ticket[s] = credit[s]
  BY <1>1 DEF RefsAgree
<1>4. CASE ticket[s] = credit[s]
  BY <1>2, <1>4 DEF Covers, TakenOf, CashOf
<1>5. CASE ticket[s] = 0
  <2>1. Worth(taken[s]) \in Nat /\ Worth(cash[s]) \in Nat
    BY <1>1, MoneyTyped DEF TakenOf, CashOf
  <2>2. 0 <= Worth(taken[s]) /\ 0 <= Worth(cash[s])
    BY <2>1
  <2> QED
    BY <1>5, <2>2
<1> QED
  BY <1>3, <1>4, <1>5

\* A bill is credited once: whatever the reader's two threads, the stops, the
\* time-outs and the customers interleave, a top-up is at most the bills the
\* device was told to take in its session, and at most the bills in the box
\* unless a stop gave up waiting for one.
THEOREM CreditAlwaysBacked == Spec => []CreditBacked
  BY Invariance, BackedInvariance, BackedCredits, PTL

LEMMA BackedCounter == IInv /\ Backed => CounterBacked
<1> SUFFICES ASSUME IInv, Backed, NEW v \in Bills
             PROVE  /\ box.counter[v] <= Total(taken, v)
                    /\ AllAnswered => box.counter[v] <= Total(cash, v)
  BY DEF CounterBacked, AllAnswered
<1>1. Hardwired /\ Scripted /\ BoxAgrees
  BY IsScripted DEF Backed
<1>2. PICK c, u, k, a, l, t, m : /\ c = box.counter[v] /\ u = box.unsure[v] /\ k = Coming(v)
                                 /\ a = Accepted(v) /\ l = Landed(v)
                                 /\ t = Total(taken, v) /\ m = Total(cash, v)
  OBVIOUS
<1>3. c \in Nat /\ u \in Nat
  BY <1>1, <1>2 DEF Scripted, Boxes, Counts
<1>4. k \in Nat /\ a \in {0, 1} /\ l \in {0, 1} /\ t \in Nat /\ m \in Nat
  BY <1>1, <1>2, CountsTyped
<1>5. c + u + k + a <= t /\ (AllAnswered => c + u + k + l <= m)
  BY <1>1, <1>2 DEF BoxAgrees, CountOf
<1>6. c <= t
  BY <1>3, <1>4, <1>5
<1>7. AllAnswered => c <= m
  BY <1>3, <1>4, <1>5
<1> QED
  BY <1>2, <1>6, <1>7

\* The counter of the box counts a bill once: flushed, taken back, restarted
\* and timed out, it is at most the bills taken over all sessions, and at most
\* the bills in the box when no stop gave up waiting.
THEOREM CounterAlwaysBacked == Spec => []CounterBacked
  BY Invariance, BackedInvariance, BackedCounter, PTL

----------------------------------------------------------------------------
(* No more of a session's bills goes into the box *)

\* The device starts to stack a bill only as the reader accepts it.
LEMMA HardwareDevice ==
  ASSUME Hardwired, Hardware
  PROVE  /\ acceptor'.s \in {acceptor.s, acceptor.now, 0}
         /\ Stacking' => \/ Stacking /\ acceptor'.s = acceptor.s
                         \/ /\ acceptor'.s = acceptor.now /\ acceptor'.now = acceptor.now
                            /\ DecideBill \/ AcceptBill
                            /\ reader'.escrow # 0
                            /\ \/ reader.collecting
                               \/ mishap' = Blame(acceptor.now, "late decision")
<1>1. acceptor \in Acceptors /\ reader \in Readers
  BY DEF Hardwired
<1>2. ASSUME acceptor' \in {acceptor, Disable(acceptor), Decline(acceptor), Hold(acceptor)}
      PROVE  acceptor'.s = acceptor.s /\ (Stacking' => Stacking)
  BY <1>1, <1>2 DEF Disable, Decline, Hold, Holds, Acceptors, Stacking
<1>3. ASSUME acceptor' = Accept(acceptor)
      PROVE  /\ acceptor'.now = acceptor.now
             /\ \/ acceptor'.s = acceptor.s /\ (Stacking' => Stacking)
                \/ acceptor'.s = acceptor.now
  BY <1>1, <1>3 DEF Accept, Holds, Acceptors, Stacking
<1>4. CASE Device
  <2>1. acceptor' = Emptied(acceptor)
    BY <1>4 DEF Device, StackBill, GiveBack
  <2> QED
    BY <1>1, <2>1 DEF Emptied, Acceptors, Stacking
<1>5. CASE \E v \in Bills : InsertBill(v)
  BY <1>1, <1>5 DEF InsertBill, Acceptors, Stacking
<1>6. CASE StartCollecting
  <2>1. acceptor' = [Enable(acceptor) EXCEPT !.now = Head(calls).s]
    BY <1>6 DEF StartCollecting
  <2> QED
    BY <1>1, <2>1 DEF Enable, Acceptors, Stacking
<1>7. CASE \/ StopCollecting \/ StopSettled \/ StopTimesOut \/ ReturnBill \/ ReadBill
           \/ ReadStacked \/ ReadReturned \/ EmitOutcome
  <2>1. acceptor' \in {acceptor, Disable(acceptor), Decline(acceptor)}
    BY <1>7 DEF StopCollecting, StopSettled, StopTimesOut, ReturnBill, ReadBill, ReadStacked,
                ReadReturned, Settle, EmitOutcome
  <2> QED
    BY <1>2, <2>1
<1>8. CASE AcceptBill
  <2>1. CASE reader.escrow = 0
    <3>1. acceptor' = acceptor
      BY <1>8, <2>1 DEF AcceptBill
    <3> QED
      BY <1>2, <3>1
  <2>2. CASE reader.escrow # 0
    <3>1. acceptor' = Accept(acceptor) /\ reader' = [reader EXCEPT !.accepted = TRUE]
      BY <1>8, <2>2 DEF AcceptBill
    <3>2. reader'.escrow # 0
      BY <1>1, <2>2, <3>1 DEF Readers
    <3>3. reader.collecting \/ mishap' = Blame(acceptor.now, "late decision")
      BY <1>8 DEF AcceptBill
    <3> QED
      BY <1>3, <1>8, <3>1, <3>2, <3>3
  <2> QED
    BY <2>1, <2>2
<1>9. CASE DecideBill
  <2>1. PICK v : v = turn.bill
    OBVIOUS
  <2>2. v \in Bills /\ v # 0
    <3>1. turn.at = "decide" /\ turn \in Turns
      BY <1>9 DEF DecideBill, Hardwired
    <3>2. turn.bill \in Bills
      BY <3>1 DEF Turns, Idle
    <3> QED
      BY <2>1, <3>2, InBaht
  <2>3. CASE Verdict(v) = "accept"
    <3>1. acceptor' = Accept(acceptor)
      BY <1>9, <2>1, <2>3 DEF DecideBill
    <3>2. reader'.escrow # 0
      <4>1. \E x : reader' = [reader EXCEPT !.escrow = v, !.accepted = x]
        BY <1>9, <2>1 DEF DecideBill
      <4> QED
        BY <1>1, <2>2, <4>1 DEF Readers
    <3>3. reader.collecting \/ mishap' = Blame(acceptor.now, "late decision")
      BY <1>9, <2>1, <2>3 DEF DecideBill
    <3> QED
      BY <1>3, <1>9, <3>1, <3>2, <3>3
  <2>4. CASE Verdict(v) # "accept"
    <3>1. acceptor' \in {Decline(acceptor), Hold(acceptor)}
      BY <1>9, <2>1, <2>4 DEF DecideBill, Verdict
    <3> QED
      BY <1>2, <3>1
  <2> QED
    BY <2>3, <2>4
<1> QED
  BY <1>4, <1>5, <1>6, <1>7, <1>8, <1>9 DEF Hardware, ReaderThread, PluginThread

\* The reader collects again only in another session.
LEMMA HardwareCollects ==
  ASSUME Hardwired, Hardware
  PROVE  StartCollecting \/ (reader'.collecting => reader.collecting)
<1>1. reader \in Readers
  BY DEF Hardwired
<1>2. CASE Device \/ (\E v \in Bills : InsertBill(v)) \/ ReadBill \/ StopSettled
  BY <1>2 DEF Device, StackBill, GiveBack, InsertBill, ReadBill, StopSettled
<1>3. CASE DecideBill
  <2>1. \E v, x : reader' = [reader EXCEPT !.escrow = v, !.accepted = x]
    BY <1>3 DEF DecideBill
  <2> QED
    BY <1>1, <2>1 DEF Readers
<1>4. CASE ReadStacked \/ ReadReturned
  <2>1. \E t : reader' = [reader EXCEPT !.collected = t, !.escrow = 0, !.accepted = FALSE]
    BY <1>4 DEF ReadStacked, ReadReturned, Settle
  <2> QED
    BY <1>1, <2>1 DEF Readers
<1>5. CASE EmitOutcome
  BY <1>1, <1>5 DEF EmitOutcome, Readers
<1>6. CASE StopCollecting
  BY <1>1, <1>6 DEF StopCollecting, Readers
<1>7. CASE StopTimesOut
  <2>1. reader' = reader \/ \E c : reader' = [reader EXCEPT !.collected = c, !.escrow = 0, !.accepted = FALSE]
    BY <1>7 DEF StopTimesOut, InFlightCredit
  <2> QED
    BY <1>1, <2>1 DEF Readers
<1>8. CASE AcceptBill \/ ReturnBill
  BY <1>1, <1>8 DEF AcceptBill, ReturnBill, Readers
<1> QED
  BY <1>2, <1>3, <1>4, <1>5, <1>6, <1>7, <1>8 DEF Hardware, ReaderThread, PluginThread

\* The session of the reader only advances.
LEMMA NowAdvances ==
  ASSUME Hardwired, Hardwired', StartsAgree, Hardware
  PROVE  /\ acceptor.now \in Nat /\ acceptor'.now \in Nat
         /\ \/ acceptor'.now = acceptor.now /\ ~StartCollecting
            \/ acceptor'.now > acceptor.now /\ StartCollecting
<1>1. acceptor.now \in Sessions \cup {0} /\ acceptor'.now \in Sessions \cup {0}
  <2>1. acceptor \in Acceptors /\ acceptor' \in Acceptors
    BY DEF Hardwired
  <2> QED
    BY <2>1 DEF Acceptors
<1>2. acceptor.now \in Nat /\ acceptor'.now \in Nat
  BY <1>1, SessionsAbove
<1>3. CASE StartCollecting
  <2>1. calls # <<>> /\ Head(calls).op = "start"
    BY <1>3 DEF StartCollecting, Runs
  <2>2. 1 \in DOMAIN calls /\ calls[1] = Head(calls)
    BY <2>1 DEF Hardwired
  <2>3. acceptor.now < Head(calls).s
    BY <2>1, <2>2 DEF StartsAgree, Starts
  <2>4. acceptor'.now = Head(calls).s
    BY <1>3 DEF StartCollecting, Hardwired, Enable, Acceptors
  <2> QED
    BY <1>2, <1>3, <2>3, <2>4
<1>4. CASE ~StartCollecting
  BY <1>2, <1>4, HardwareCalls
<1> QED
  BY <1>3, <1>4

LEMMA OfASession == ASSUME NEW s, Clean(s) PROVE s \in Sessions /\ s \in Nat \ {0}
  BY SessionsAbove DEF Clean

\* A closed session stays so, and what it has in the box.
LEMMA ClosedStays ==
  ASSUME Hardwired, Hardwired', StartsAgree, Hardware, NEW s, Closed(s), Clean(s)'
  PROVE  Closed(s)' /\ CashOf(s)' = CashOf(s)
<1>1. s \in Sessions /\ s \in Nat
  BY SessionsAbove DEF Clean
<1>2. PICK n, n2 : n = acceptor.now /\ n2 = acceptor'.now
  OBVIOUS
<1>3. n \in Nat /\ n2 \in Nat /\ ((n2 = n /\ ~StartCollecting) \/ n2 > n)
  BY <1>2, NowAdvances
<1>4. s <= n /\ (n = s => ~reader.collecting) /\ ~(Stacking /\ acceptor.s = s)
  BY <1>2 DEF Closed
<1>5. s <= n2 /\ (n2 = s => n = s /\ ~StartCollecting)
  BY <1>1, <1>3, <1>4
<1>6. n2 = s => ~reader'.collecting
  BY <1>4, <1>5, HardwareCollects
<1>7. mishap'[s] = {}
  BY DEF Clean
<1>8. mishap' # Blame(n, "late decision") \/ n # s
  <2>1. ASSUME mishap' = Blame(n, "late decision"), n = s PROVE FALSE
    <3>1. "late decision" \in mishap'[s]
      BY <1>1, <2>1, BlameGrows
    <3> QED
      BY <1>7, <3>1
  <2> QED
    BY <2>1
<1>9. ~(Stacking' /\ acceptor'.s = s)
  BY <1>2, <1>4, <1>8, HardwareDevice
<1>10. CashOf(s)' = CashOf(s)
  <2>1. CASE StackBill
    <3>1. PICK x, v : x = acceptor.s /\ v = acceptor.bill
      OBVIOUS
    <3>2. Stacking /\ cash' = OneMore(cash, x, v)
      BY <2>1, <3>1 DEF StackBill, Stacking
    <3>3. cash'[s] = cash[s]
      BY <1>1, <1>4, <3>1, <3>2 DEF OneMore, Hardwired
    <3> QED
      BY <3>3 DEF CashOf
  <2>2. CASE ~StackBill
    <3>1. cash' = cash
      BY <2>2 DEF Hardware, ReaderThread, ReadBill, DecideBill, ReadStacked, ReadReturned, Settle,
         EmitOutcome, PluginThread, StartCollecting, StopCollecting, StopSettled, StopTimesOut,
         AcceptBill, ReturnBill, Device, GiveBack, InsertBill, history
    <3> QED
      BY <3>1 DEF CashOf
  <2> QED
    BY <2>1, <2>2
<1> QED
  BY <1>2, <1>5, <1>6, <1>9, <1>10 DEF Closed, Stacking

----------------------------------------------------------------------------
(* A stop that waits, and the sessions to come *)

LEMMA SettledTurn ==
  ASSUME ReadStacked \/ ReadReturned
  PROVE  turn'.at = "emit" /\ turn'.s = acceptor.now
<1>1. \E e, k : turn' = [at |-> "emit", s |-> acceptor.now, event |-> e, complete |-> k]
  <2>1. CASE ReadStacked
    BY <2>1 DEF ReadStacked, Settle, Outcome
  <2>2. CASE ReadReturned
    BY <2>2 DEF ReadReturned, Settle, Outcome
  <2> QED
    BY <2>1, <2>2
<1> QED
  BY <1>1

LEMMA StopWaits ==
  ASSUME Hardwired, PathAgrees, WaitingAgrees, Hardware, waiting' # "no"
  PROVE  ~reader'.collecting /\ turn'.at # "decide" /\ (settled' => reader'.escrow = 0)
<1>1. reader \in Readers
  BY DEF Hardwired
<1>2. CASE StopCollecting
  <2>1. reader.escrow # 0
    BY <1>2 DEF StopCollecting, Returns
  <2>2. reader' = [reader EXCEPT !.collecting = FALSE] /\ settled' = FALSE /\ turn' = turn
    BY <1>2, <2>1 DEF StopCollecting
  <2>3. turn.at # "decide"
    BY <2>1 DEF PathAgrees
  <2> QED
    BY <1>1, <2>2, <2>3 DEF Readers
<1>3. CASE StartCollecting \/ StopSettled \/ StopTimesOut \/ AcceptBill \/ ReturnBill
  BY <1>3 DEF StartCollecting, StopSettled, StopTimesOut, AcceptBill, ReturnBill, Returns
<1>4. CASE ReaderThread \/ Device \/ \E v \in Bills : InsertBill(v)
  <2>1. waiting # "no" /\ ~StartCollecting
    <3>1. waiting' = waiting
      BY <1>4 DEF ReaderThread, ReadBill, DecideBill, ReadStacked, ReadReturned, Settle, EmitOutcome,
                  Device, StackBill, GiveBack, InsertBill, plugin
    <3>2. StartCollecting => waiting' = "no"
      BY DEF StartCollecting, Returns
    <3> QED
      BY <3>1, <3>2
  <2>2. ~reader.collecting /\ turn.at # "decide" /\ (settled => reader.escrow = 0)
    BY <2>1 DEF WaitingAgrees
  <2>3. ~reader'.collecting
    BY <2>1, <2>2, HardwareCollects
  <2>4. CASE ReadStacked \/ ReadReturned
    <3>1. \E t : reader' = [reader EXCEPT !.collected = t, !.escrow = 0, !.accepted = FALSE]
      BY <2>4 DEF ReadStacked, ReadReturned, Settle
    <3>2. reader'.escrow = 0
      BY <1>1, <3>1 DEF Readers
    <3>3. turn'.at = "emit"
      BY <2>4, SettledTurn
    <3> QED
      BY <2>3, <3>2, <3>3
  <2>5. CASE ReadBill \/ Device \/ \E v \in Bills : InsertBill(v)
    <3>1. UNCHANGED <<reader, turn, settled>>
      <4>1. CASE ReadBill
        BY <2>2, <4>1 DEF ReadBill
      <4>2. CASE ~ReadBill
        BY <2>5, <4>2 DEF Device, StackBill, GiveBack, InsertBill
      <4> QED
        BY <4>1, <4>2
    <3> QED
      BY <2>2, <3>1
  <2>6. CASE EmitOutcome
    <3>1. settled' = settled /\ turn'.at = "idle" /\ reader'.escrow = reader.escrow
      BY <1>1, <2>6 DEF EmitOutcome, Idle, Readers
    <3> QED
      BY <2>2, <2>3, <3>1
  <2>7. CASE DecideBill
    BY <2>2, <2>7 DEF DecideBill
  <2> QED
    BY <1>4, <2>4, <2>5, <2>6, <2>7 DEF ReaderThread
<1> QED
  BY <1>2, <1>3, <1>4 DEF Hardware, PluginThread

\* An outcome is of the reader's session.
LEMMA OutcomeIs ==
  ASSUME Hardware, turn'.at = "emit"
  PROVE  \/ turn' = turn
         \/ turn'.s = acceptor.now /\ (ReadStacked \/ ReadReturned)
<1>1. CASE ReadStacked \/ ReadReturned
  BY <1>1, SettledTurn
<1>2. CASE ReadBill \/ DecideBill \/ EmitOutcome
  <2>1. turn' = turn \/ turn'.at # "emit"
    <3>1. CASE ReadBill
      <4>1. turn' = turn \/ \E v : turn' = [at |-> "decide", bill |-> v]
        BY <3>1 DEF ReadBill
      <4> QED
        BY <4>1
    <3>2. CASE DecideBill \/ EmitOutcome
      <4>1. turn' = Idle
        BY <3>2 DEF DecideBill, EmitOutcome
      <4> QED
        BY <4>1 DEF Idle
    <3> QED
      BY <1>2, <3>1, <3>2
  <2> QED
    BY <2>1
<1>3. CASE PluginThread \/ Device \/ \E v \in Bills : InsertBill(v)
  BY <1>3 DEF PluginThread, StartCollecting, StopCollecting, StopSettled, StopTimesOut, AcceptBill,
              ReturnBill, Device, StackBill, GiveBack, InsertBill
<1> QED
  BY <1>1, <1>2, <1>3 DEF Hardware, ReaderThread

LEMMA HardwareWaits ==
  ASSUME Hardwired, Hardwired', PathAgrees, StartsAgree, WaitingAgrees, Hardware
  PROVE  WaitingAgrees'
<1>1. PICK n, n2, a, a2 : n = acceptor.now /\ n2 = acceptor'.now /\ a = acceptor.s /\ a2 = acceptor'.s
  OBVIOUS
<1>2. n \in Nat /\ n2 \in Nat /\ n <= n2
  BY <1>1, NowAdvances
<1>3. a \in Nat /\ a <= n /\ a2 \in {a, n, 0}
  <2>1. a \in Sessions \cup {0}
    BY <1>1 DEF Hardwired, Acceptors
  <2> QED
    <3>1. a \in Nat
      BY <2>1, SessionsAbove
    <3>2. a <= n
      BY <1>1 DEF WaitingAgrees
    <3>3. a2 \in {a, n, 0}
      BY <1>1, HardwareDevice
    <3> QED
      BY <3>1, <3>2, <3>3
<1>4. acceptor'.s <= acceptor'.now
  BY <1>1, <1>2, <1>3
<1>5. turn'.at = "emit" => turn'.s <= acceptor'.now
  <2>1. ASSUME turn'.at = "emit" PROVE turn'.s <= n2
    <3>1. CASE turn' = turn
      <4>1. turn.s \in Sessions \cup {0}
        BY <2>1, <3>1, TurnTyped
      <4>2. turn.s \in Nat /\ turn.s <= n
        BY <1>1, <2>1, <3>1, <4>1, SessionsAbove DEF WaitingAgrees
      <4> QED
        BY <1>2, <3>1, <4>2
    <3>2. CASE turn'.s = n
      BY <1>2, <3>2
    <3> QED
      BY <1>1, <2>1, <3>1, <3>2, OutcomeIs
  <2> QED
    BY <1>1, <2>1
<1>6. ASSUME NEW s \in Sessions, s > n2 PROVE CashOf(s)' = 0
  <2>1. s \in Nat /\ s > n /\ s # a
    <3>1. s \in Nat
      BY SessionsAbove
    <3> QED
      BY <1>2, <1>3, <1>6, <3>1
  <2>2. CashOf(s) = 0
    BY <1>1, <2>1 DEF WaitingAgrees
  <2>3. cash'[s] = cash[s]
    <3>1. CASE StackBill
      BY <1>1, <2>1, <3>1 DEF StackBill, OneMore, Hardwired
    <3>2. CASE ~StackBill
      BY <3>2 DEF Hardware, ReaderThread, ReadBill, DecideBill, ReadStacked, ReadReturned, Settle,
         EmitOutcome, PluginThread, StartCollecting, StopCollecting, StopSettled, StopTimesOut,
         AcceptBill, ReturnBill, Device, GiveBack, InsertBill, history
    <3> QED
      BY <3>1, <3>2
  <2> QED
    BY <2>2, <2>3 DEF CashOf
<1> QED
  BY <1>1, <1>4, <1>5, <1>6, StopWaits DEF WaitingAgrees

LEMMA ElsewhereWaits ==
  ASSUME WaitingAgrees, Elsewhere
  PROVE  WaitingAgrees'
<1>1. UNCHANGED <<reader, turn, acceptor, waiting, settled, cash>>
  BY DEF Elsewhere
<1> QED
  BY <1>1 DEF WaitingAgrees, CashOf

LEMMA RestartDevice ==
  ASSUME Hardwired, ReaderRestart
  PROVE  /\ acceptor'.now = acceptor.now /\ acceptor'.s = acceptor.s
         /\ Stacking' => Stacking
         /\ ~reader'.collecting /\ reader'.collected = 0 /\ reader'.escrow = 0
         /\ turn'.at = "idle" /\ waiting' = "no" /\ calls' = <<>> /\ queue' = <<>> /\ wire' = <<>>
  BY DEF ReaderRestart, Disable, Decline, Holds, Hardwired, Acceptors, Reset, Idle, Stacking

LEMMA RestartWaits ==
  ASSUME Hardwired, WaitingAgrees, Restart
  PROVE  WaitingAgrees'
<1>1. ReaderRestart /\ cash' = cash
  BY DEF Restart
<1> QED
  BY <1>1, RestartDevice DEF WaitingAgrees, CashOf

----------------------------------------------------------------------------
(* The stops of a session without mishap find the reader in it *)

CleanThens == {t \in Thens : t.what # "nothing" /\ Clean(t.s)}

LEMMA CleanThensOfSessions == \A t \in CleanThens : t.s \in Nat
  BY SessionsAbove DEF CleanThens, Thens

LEMMA CallsInOrder ==
  ASSUME Hardwired, StartsAgree
  PROVE  CallsExact <=> InOrder(calls, acceptor.now, js.sess, Clean(js.sess), CleanThens)
<1>1. \A i \in DOMAIN calls \ Begins(calls) :
        calls[i].then.what # "nothing" /\ Clean(calls[i].then.s) <=> calls[i].then \in CleanThens
  BY ThenTyped, BeginsTyped DEF Hardwired, CleanThens, Begins
<1> QED
  BY <1>1 DEF StartsAgree, CallsExact, InOrder, Starts, Begins, Begun, Finds, FindsIn

LEMMA CallsInOrderNext ==
  ASSUME Hardwired', NEW F, CleanThens' \subseteq F, NEW k, Clean(js.sess)' => k,
         InOrder(calls', acceptor'.now, js'.sess, k, F)
  PROVE  CallsExact'
<1>1. PICK c, n, last, m : c = calls' /\ n = acceptor'.now /\ last = js'.sess /\ m = mishap'
  OBVIOUS
<1>2. InOrder(c, n, last, k, F)
  BY <1>1
<1>3. last \in Sessions /\ m[last] = {} => k
  BY <1>1 DEF Clean
<1>4. \A i \in DOMAIN c \ Begins(c) :
        /\ c[i].then.what # "nothing" /\ c[i].then.s \in Sessions /\ m[c[i].then.s] = {}
        => c[i].then \in F
  <2>1. \A i \in DOMAIN c \ Begins(c) : c[i].then \in Thens
    BY <1>1, ThenTyped, BeginsTyped DEF Hardwired, Begins
  <2> QED
    BY <1>1, <2>1 DEF CleanThens, Clean
<1> QED
  BY <1>1, <1>2, <1>3, <1>4 DEF CallsExact, InOrder, Starts, Begins, Begun, Finds, FindsIn, Clean

LEMMA CleanBefore ==
  ASSUME MishapsGrow
  PROVE  /\ \A s : Clean(s)' => Clean(s)
         /\ CleanThens' \subseteq CleanThens
<1>1. \A s : Clean(s)' => Clean(s)
  BY DEF MishapsGrow, Clean
<1> QED
  BY <1>1 DEF CleanThens, Clean

LEMMA HardwareMishaps ==
  ASSUME Hardwired, PathAgrees, Hardware
  PROVE  MishapsGrow
  BY HardwareGrows DEF Grown, MishapsGrow

LEMMA HardwareExactCalls ==
  ASSUME Hardwired, Hardwired', Scripted, PathAgrees, StartsAgree, CallsExact, Hardware
  PROVE  CallsExact'
<1>1. PICK k, F, last : k = Clean(js.sess) /\ F = CleanThens /\ last = js.sess
  OBVIOUS
<1>2. InOrder(calls, acceptor.now, js.sess, k, F)
  BY <1>1, CallsInOrder
<1>3. \A t \in F : t.s \in Nat
  BY <1>1, CleanThensOfSessions
<1>4. InOrder(calls', acceptor'.now, js.sess, k, F)
  BY <1>2, <1>3, HardwareOrder
<1>5. js' = js
  BY DEF Hardware, script
<1>6. CleanThens' \subseteq F /\ (Clean(last)' => Clean(last))
  BY <1>1, HardwareMishaps, CleanBefore
<1>7. Clean(js.sess)' => k
  <2>1. Clean(js.sess)' => Clean(last)'
    BY <1>1, <1>5 DEF Clean
  <2> QED
    BY <1>1, <1>6, <2>1
<1>8. InOrder(calls', acceptor'.now, js'.sess, k, F)
  BY <1>4, <1>5
<1> QED
  BY <1>6, <1>7, <1>8, CallsInOrderNext

LEMMA MadeExactCalls ==
  ASSUME IInv, Hardwired', StartsAgree, CallsExact, SessionsExact,
         Elsewhere, MishapsGrow, CallsMade
  PROVE  CallsExact'
<1>0. Hardwired /\ Scripted
  BY IsScripted
<1>1. PICK k, F, last, n : k = Clean(js.sess) /\ F = CleanThens /\ last = js.sess /\ n = acceptor.now
  OBVIOUS
<1>2. InOrder(calls, acceptor.now, js.sess, k, F)
  BY <1>0, <1>1, CallsInOrder
<1>3. ASSUME NEW m, Plain(m), m.then \in F
      PROVE  m.then.s = js.sess /\ k
  <2>1. m.then.what # "nothing" /\ Clean(m.then.s)
    BY <1>1, <1>3 DEF CleanThens
  <2>2. CASE m.then.s = js.sess
    BY <1>1, <2>1, <2>2
  <2>3. CASE Resolved("cancel") /\ m.then.s = Of.s
    <3>1. PICK s : s = Of.s
      OBVIOUS
    <3>2. s \in Sessions /\ work[s] = "stopping"
      BY <2>3, <3>1, StopWaitedFor
    <3>3. s <= js.sess /\ Clean(s) /\ Unsent(s)
      BY <2>1, <2>3, <3>1, <3>2 DEF SessionsExact, Unsent
    <3>4. s = js.sess
      BY <3>2, <3>3 DEF SessionsExact
    <3> QED
      BY <2>2, <2>3, <3>1, <3>4
  <2> QED
    BY <1>3, <2>1, <2>2, <2>3 DEF Plain
<1>4. InOrder(calls', n, last, k, F)
  BY <1>0, <1>1, <1>2, <1>3, MadeInOrder
<1>5. js'.sess = last /\ acceptor'.now = n
  BY <1>1 DEF CallsMade, Elsewhere
<1>6. CleanThens' \subseteq F /\ (Clean(last)' => Clean(last))
  BY <1>1, CleanBefore
<1>7. Clean(js.sess)' => k
  <2>1. Clean(js.sess)' => Clean(last)'
    BY <1>5 DEF Clean
  <2> QED
    BY <1>1, <1>6, <2>1
<1>8. InOrder(calls', acceptor'.now, js'.sess, k, F)
  BY <1>4, <1>5
<1> QED
  BY <1>6, <1>7, <1>8, CallsInOrderNext

LEMMA SelectExactCalls ==
  ASSUME Hardwired, Hardwired', Scripted, StartsAgree, CallsExact, MishapsGrow,
         NEW t \in Targets, SelectCash(t)
  PROVE  CallsExact'
<1>1. PICK k, F, last, n : k = Clean(js.sess) /\ F = CleanThens /\ last = js.sess /\ n = acceptor.now
  OBVIOUS
<1>2. InOrder(calls, n, last, k, F)
  BY <1>1, CallsInOrder
<1>3. n \in Nat /\ last \in Nat /\ calls \in Seq(Calls)
  <2>1. n \in Sessions \cup {0} /\ last \in Sessions \cup {0}
    BY <1>1 DEF Hardwired, Scripted, Acceptors, Screens
  <2> QED
    BY <2>1, SessionsAbove DEF Hardwired
<1>4. InOrder(calls', n, last + 1, TRUE, F)
  BY <1>1, <1>2, <1>3, SelectCalls, OrderStart
<1>5. acceptor'.now = n /\ js'.sess = last + 1
  <2>1. acceptor' = acceptor
    BY DEF SelectCash, Free, device
  <2> QED
    BY <1>1, <2>1, SelectCalls
<1>6. CleanThens' \subseteq F
  BY <1>1, CleanBefore
<1>7. InOrder(calls', acceptor'.now, js'.sess, TRUE, F)
  BY <1>4, <1>5
<1> QED
  BY <1>6, <1>7, CallsInOrderNext

LEMMA RestartExactCalls ==
  ASSUME Hardwired, Hardwired', Scripted, StartsAgree, SessionsExact, Restart
  PROVE  CallsExact'
<1>1. PICK n, last, m : n = acceptor.now /\ last = js.sess /\ m = mishap'
  OBVIOUS
<1>2. calls' = <<>> /\ js'.sess = last /\ acceptor'.now = n
  <2>1. ReaderRestart /\ js'.sess = js.sess
    BY DEF Restart, ResetSession, Scripted, Screens
  <2> QED
    BY <1>1, <2>1, RestartDevice
<1>3. last \in Sessions /\ m[last] = {} => n = last
  <2>1. SUFFICES ASSUME last \in Sessions, m[last] = {} PROVE n = last
    OBVIOUS
  <2>2. MishapsGrow /\ Clean(last)'
    BY <1>1, <2>1, RestartGrows DEF Clean
  <2>3. Clean(last)
    BY <2>2, CleanBefore
  <2>4. work[last] # "stopping" /\ ~(js.ref = last /\ work[last] = "none")
    <3>1. mishap'[last] = IF work[last] = "stopping" \/ (js.ref = last /\ work[last] = "none")
                          THEN mishap[last] \cup {"restart"} ELSE mishap[last]
      BY <2>1 DEF Restart
    <3> QED
      BY <1>1, <2>1, <3>1
  <2>5. last <= last /\ last \in Nat
    <3>1. last \in Nat
      BY <2>1, SessionsAbove
    <3> QED
      BY <3>1
  <2>6. Closed(last)
    BY <1>1, <2>1, <2>3, <2>4, <2>5 DEF SessionsExact, Unsent
  <2>7. last <= n /\ n <= last
    BY <1>1, <2>6 DEF Closed, StartsAgree
  <2>8. n \in Nat
    <3>1. n \in Sessions \cup {0}
      BY <1>1 DEF Hardwired, Acceptors
    <3> QED
      BY <3>1, SessionsAbove
  <2> QED
    BY <2>5, <2>7, <2>8
<1> QED
  BY <1>1, <1>2, <1>3 DEF CallsExact, Begun, Clean, Starts

----------------------------------------------------------------------------
(* The reader's count is what is in the box *)

\* Session n has t counted, bill e in escrow, and the amounts S on the screen
\* in the end.
Fits(n, t, e, S) ==
  /\ CashOf(n) = t + (IF Arrived THEN e ELSE 0)
  /\ Stacking /\ acceptor.s = n => e # 0
  /\ ~(Overtakes /\ turn.s = n) => \A x \in S : x = t
  /\ turn.at = "emit" /\ turn.s = n => turn.event.total = t

LEMMA ReaderFits ==
  ASSUME ReaderExact, NEW n, n = acceptor.now, NEW t, t = reader.collected,
         NEW e, e = reader.escrow, NEW S, S = Last(js.collected, queue), Clean(n), Unsent(n)
  PROVE  Fits(n, t, e, S)
  BY DEF ReaderExact, Fits, ShownLast, ShownAt, Last

LEMMA ReaderFitsNext ==
  ASSUME NEW n, n = acceptor'.now, NEW t, t = reader'.collected,
         NEW e, e = reader'.escrow, NEW S, S = Last(js'.collected, queue'),
         Clean(n)' /\ Unsent(n)' => Fits(n, t, e, S)'
  PROVE  ReaderExact'
  BY DEF ReaderExact, Fits, ShownLast, ShownAt, Last, Clean, Unsent, CashOf, Overtakes, Stacking,
         Arrived

\* No bill is counted, and none is nearer the box than it was.
LEMMA FitsStill ==
  ASSUME NEW n, NEW t, NEW e, NEW S, Fits(n, t, e, S), NEW e2, NEW S2,
         cash' = cash, (IF Arrived' THEN e2 ELSE 0) = (IF Arrived THEN e ELSE 0),
         Stacking' /\ acceptor'.s = n => e2 # 0 \/ (Stacking /\ acceptor.s = n /\ e2 = e),
         \/ S2 = S /\ (turn' = turn \/ (turn.at # "emit" /\ turn'.at # "emit"))
         \/ turn'.at # "emit" /\ \A x \in S2 : x = t
  PROVE  Fits(n, t, e2, S2)'
<1>1. CashOf(n)' = CashOf(n)
  BY DEF CashOf
<1>2. CashOf(n)' = t + (IF Arrived' THEN e2 ELSE 0)
  BY <1>1 DEF Fits
<1>3. Stacking' /\ acceptor'.s = n => e2 # 0
  BY DEF Fits
<1>4. /\ ~(Overtakes' /\ turn'.s = n) => \A x \in S2 : x = t
      /\ turn'.at = "emit" /\ turn'.s = n => turn'.event.total = t
  <2>1. CASE S2 = S /\ turn' = turn
    BY <2>1 DEF Fits, Overtakes
  <2>2. CASE S2 = S /\ turn.at # "emit" /\ turn'.at # "emit"
    BY <2>2 DEF Fits, Overtakes
  <2>3. CASE turn'.at # "emit" /\ \A x \in S2 : x = t
    BY <2>3 DEF Overtakes
  <2> QED
    BY <2>1, <2>2, <2>3
<1> QED
  BY <1>2, <1>3, <1>4 DEF Fits, CashOf, Overtakes, Stacking, Arrived

\* What is posted and shows no amount.
LEMMA LastStill ==
  ASSUME NEW q \in Seq(Messages), NEW c, NEW e \in Messages, ~Carries(e)
  PROVE  Last(c, Append(q, e)) = Last(c, q)
  BY ShownAppend

LEMMA LastShows ==
  ASSUME NEW q \in Seq(Messages), NEW c, NEW e \in Messages, Carries(e)
  PROVE  Last(c, Append(q, e)) = {e.total}
  BY ShownAppend

LEMMA ResultShowsNone ==
  ASSUME NEW r, AResult(r)
  PROVE  r \in Messages /\ ~Carries(r) /\ r.k = "result"
  BY DEF AResult, Carries

\* The call that starts a session finds nothing of it.
LEMMA StartFits ==
  ASSUME Hardwired, Hardwired', Scripted, StartsAgree, WaitingAgrees, StartCollecting, Hardware
  PROVE  ReaderExact'
<1>1. PICK n, n2, c, q, L : /\ n = acceptor.now /\ n2 = acceptor'.now /\ c = js'.collected
                            /\ q = queue /\ L = Last(js'.collected, queue')
  OBVIOUS
<1>2. n \in Nat /\ n2 \in Nat /\ n2 > n
  BY <1>1, NowAdvances
<1>3. reader'.collected = 0 /\ reader'.escrow = 0
  BY DEF StartCollecting, Reset
<1>4. L = {0}
  <2>1. PICK e : AnEvent(e, "collecting", 0, 0) /\ queue' = Append(q, e)
    BY <1>1, StartPosts
  <2>2. e \in Messages /\ e.total = 0 /\ Carries(e) /\ q \in Seq(Messages)
    BY <1>1, <2>1 DEF AnEvent, Carries, Hardwired
  <2> QED
    BY <1>1, <2>1, <2>2, LastShows
<1>5. cash' = cash /\ turn' = turn /\ acceptor'.s = acceptor.s /\ (Stacking' => Stacking)
  <2>1. cash' = cash /\ turn' = turn /\ acceptor' = [Enable(acceptor) EXCEPT !.now = Head(calls).s]
    BY DEF StartCollecting, history
  <2>2. acceptor \in Acceptors
    BY DEF Hardwired
  <2> QED
    BY <2>1, <2>2 DEF Enable, Acceptors, Stacking
<1>6. ASSUME Clean(n2)' PROVE Fits(n2, 0, 0, L)'
  <2>1. n2 \in Sessions
    BY <1>6 DEF Clean
  <2>2. CashOf(n2)' = 0
    <3>1. CashOf(n2) = 0
      BY <1>1, <1>2, <2>1 DEF WaitingAgrees
    <3> QED
      BY <1>5, <3>1 DEF CashOf
  <2>3. ~(Stacking' /\ acceptor'.s = n2)
    <3>1. acceptor.s <= n /\ acceptor.s \in Nat
      <4>1. acceptor.s \in Sessions \cup {0}
        BY DEF Hardwired, Acceptors
      <4> QED
        BY <1>1, <4>1, SessionsAbove DEF WaitingAgrees
    <3> QED
      BY <1>2, <1>5, <3>1
  <2>4. ~(turn'.at = "emit" /\ turn'.s = n2)
    <3>1. CASE turn.at = "emit"
      <4>1. turn.s \in Sessions \cup {0} /\ turn.s <= n
        BY <1>1, <3>1, TurnTyped DEF WaitingAgrees
      <4>2. turn.s \in Nat
        BY <4>1, SessionsAbove
      <4> QED
        BY <1>2, <1>5, <4>1, <4>2
    <3> QED
      BY <1>5, <3>1
  <2>5. (IF Arrived' THEN 0 ELSE 0) = 0 /\ 0 + 0 = 0
    OBVIOUS
  <2> QED
    BY <1>4, <2>2, <2>3, <2>4, <2>5 DEF Fits, CashOf, Overtakes, Stacking, Arrived
<1> QED
  BY <1>1, <1>3, <1>6, ReaderFitsNext

\* A bill is drawn in, given back, read, answered, or waited for: nothing is
\* counted.
LEMMA NearbyFits ==
  ASSUME Hardwired, Hardwired', Scripted, PathAgrees, Hardware, Nearby, ~EmitOutcome,
         NEW n, n = acceptor.now, Clean(n)',
         NEW t, t = reader.collected, NEW e, e = reader.escrow,
         NEW S, S = Last(js.collected, queue), Fits(n, t, e, S),
         NEW S2, S2 = Last(js.collected, queue')
  PROVE  Fits(n, t, e, S2)'
<1>1. PICK c, q : c = js.collected /\ q = queue /\ q \in Seq(Messages)
  BY DEF Hardwired
<1>2. /\ cash' = cash /\ reader'.escrow = e /\ (Stacking' => Stacking) /\ (Arrived' => Arrived)
  BY NoNearer
<1>3. Arrived => Arrived'
  <2>1. CASE \E v \in Bills : InsertBill(v)
    <3>1. wire = <<>>
      BY <2>1 DEF InsertBill, Quiescent
    <3> QED
      BY <3>1, ShortWires DEF Arrived
  <2>2. CASE GiveBack
    <3>1. ~Empty
      BY <2>2 DEF GiveBack, Empty
    <3>2. wire = <<>> \/ wire = <<BillByte(acceptor.bill)>>
      BY <3>1 DEF PathAgrees
    <3>3. wire # <<Stacked>>
      <4>1. \A x, y : x # y => <<x>> # <<y>>
        OBVIOUS
      <4>2. BillByte(acceptor.bill) # Stacked
        BY DEF BillByte, Stacked
      <4> QED
        BY <3>2, <4>1, <4>2, ShortWires
    <3> QED
      BY <3>3 DEF Arrived
  <2>3. CASE ReadBill
    <3>1. wire # <<Stacked>>
      BY <2>3 DEF ReadBill, Byte, Stacked
    <3> QED
      BY <3>1 DEF Arrived
  <2>4. CASE StopCollecting \/ StopSettled \/ ReturnBill
    BY <2>4 DEF StopCollecting, StopSettled, ReturnBill, Arrived
  <2> QED
    BY <2>1, <2>2, <2>3, <2>4 DEF Nearby
<1>4. Stacking' => acceptor'.s = acceptor.s
  <2>1. CASE \E v \in Bills : InsertBill(v)
    BY <2>1 DEF InsertBill, Hardwired, Acceptors, Stacking
  <2>2. CASE GiveBack
    BY <2>2 DEF GiveBack, Emptied, Hardwired, Acceptors, Stacking
  <2>3. CASE ReadBill \/ StopCollecting \/ StopSettled \/ ReturnBill
    <3>1. acceptor' \in {acceptor, Decline(acceptor), Disable(acceptor)}
      BY <2>3 DEF ReadBill, StopCollecting, StopSettled, ReturnBill
    <3> QED
      BY <3>1, DeviceFollows
  <2> QED
    BY <2>1, <2>2, <2>3 DEF Nearby
<1>5. S2 = S
  <2>1. CASE queue' = q
    BY <1>1, <2>1
  <2>2. ASSUME NEW r, r \in Messages, ~Carries(r), queue' = Append(q, r) PROVE S2 = S
    BY <1>1, <2>2, LastStill
  <2>3. CASE (\E v \in Bills : InsertBill(v)) \/ GiveBack \/ (StopCollecting /\ reader.escrow # 0)
    BY <1>1, <2>1, <2>3 DEF InsertBill, GiveBack, StopCollecting
  <2>4. CASE ReadBill
    <3>1. PICK r : AnEvent(r, "escrowPending", 0, 0) /\ queue' = Append(q, r)
      BY <1>1, <2>4, ReadBillPosts
    <3>2. r \in Messages /\ ~Carries(r)
      BY <3>1 DEF AnEvent, Carries
    <3> QED
      BY <2>2, <3>1, <3>2
  <2>5. CASE (StopCollecting /\ reader.escrow = 0) \/ StopSettled \/ ReturnBill
    <3>1. PICK r : AResult(r) /\ queue' = Append(q, r)
      BY <1>1, <2>5, ReturnPosts
    <3> QED
      BY <2>2, <3>1, ResultShowsNone
  <2> QED
    BY <2>3, <2>4, <2>5 DEF Nearby
<1>6. turn' = turn \/ (turn.at # "emit" /\ turn'.at # "emit")
  <2>1. CASE ReadBill
    <3>1. turn.at = "idle" /\ (turn' = turn \/ \E v : turn' = [at |-> "decide", bill |-> v])
      BY <2>1 DEF ReadBill, Byte
    <3> QED
      BY <3>1
  <2>2. CASE ~ReadBill
    BY <2>2 DEF Nearby, InsertBill, GiveBack, StopCollecting, StopSettled, ReturnBill
  <2> QED
    BY <2>1, <2>2
<1> QED
  BY <1>2, <1>3, <1>4, <1>5, <1>6, FitsStill

\* The bill that reaches the box is the one the reader waits for.
LEMMA StackFits ==
  ASSUME Hardwired, Hardwired', Scripted, PathAgrees, StackBill,
         NEW n, n = acceptor.now, Clean(n)',
         NEW t, t = reader.collected, NEW e, e = reader.escrow,
         NEW S, Fits(n, t, e, S)
  PROVE  Fits(n, t, e, S)'
<1>1. PICK s, v : s = acceptor.s /\ v = acceptor.bill
  OBVIOUS
<1>2. n \in Sessions /\ Stacking /\ ~Empty /\ wire = <<>>
  BY DEF Clean, StackBill, Stacking, Empty, PathAgrees
<1>3. wire' = <<Stacked>> /\ cash' = OneMore(cash, s, v) /\ turn' = turn
  <2>1. wire' = Append(wire, Stacked)
    BY DEF StackBill, Stacked
  <2>2. \A x : Append(<<>>, x) = <<x>>
    OBVIOUS
  <2> QED
    BY <1>1, <1>2, <2>1, <2>2 DEF StackBill
<1>4. Arrived' /\ ~Arrived
  BY <1>2, <1>3, ShortWires DEF Arrived
<1>5. t \in Nat /\ e \in Bills \cup {0} /\ CashOf(n) = t + 0
  BY <1>4 DEF Fits, Hardwired, Readers
<1>6. CashOf(n)' = t + e
  <2>1. CASE e # 0
    <3>1. v = e /\ s = n /\ v \in Bills
      BY <1>1, <1>2, <1>5, <2>1 DEF PathAgrees
    <3>2. Worth(OneMore(cash, n, v)[n]) = Worth(cash[n]) + v
      BY <1>2, <3>1, OneMoreWorth DEF Hardwired
    <3>3. CashOf(n)' = CashOf(n) + e
      BY <1>3, <3>1, <3>2 DEF CashOf
    <3> QED
      BY <1>5, <3>3
  <2>2. CASE e = 0
    <3>1. s # n
      BY <1>1, <1>2, <2>2 DEF Fits
    <3>2. cash'[n] = cash[n]
      BY <1>2, <1>3, <3>1 DEF OneMore, Hardwired
    <3> QED
      BY <1>5, <2>2, <3>2 DEF CashOf
  <2> QED
    BY <2>1, <2>2
<1>7. ~Stacking'
  BY DEF StackBill, Emptied, Hardwired, Acceptors, Stacking
<1> QED
  BY <1>3, <1>4, <1>6, <1>7 DEF Fits, CashOf, Overtakes, Stacking, Arrived

\* The decision of the reader, or the customer's.
LEMMA DecideFits ==
  ASSUME Hardwired, Hardwired', Scripted, PathAgrees, DecideBill,
         NEW n, n = acceptor.now, Clean(n)',
         NEW t, t = reader.collected, NEW e, e = reader.escrow,
         NEW S, S = Last(js.collected, queue), Fits(n, t, e, S),
         NEW e2, e2 = reader'.escrow, NEW S2, S2 = Last(js.collected, queue')
  PROVE  reader'.collected = t /\ Fits(n, t, e2, S2)'
<1>1. PICK c, q : c = js.collected /\ q = queue /\ q \in Seq(Messages)
  BY DEF Hardwired
<1>2. turn.at = "decide" /\ turn \in Turns
  BY DEF DecideBill, Hardwired
<1>3. e = 0 /\ ~Arrived
  <2>1. e = 0 /\ (wire = <<Returned>> \/ wire = <<>>)
    BY <1>2 DEF PathAgrees
  <2>2. <<Returned>> # <<Stacked>> /\ <<Stacked>> # <<>>
    BY ShortWires DEF Returned, Stacked
  <2> QED
    BY <2>1, <2>2 DEF Arrived
<1>4. PICK v : v = turn.bill /\ v \in Bills /\ v # 0
  <2>1. turn.bill \in Bills
    BY <1>2 DEF Turns, Idle
  <2> QED
    BY <2>1, InBaht
<1>5. reader'.collected = t /\ e2 # 0
  <2>1. \E x : reader' = [reader EXCEPT !.escrow = v, !.accepted = x]
    BY <1>4 DEF DecideBill
  <2> QED
    BY <1>4, <2>1 DEF Hardwired, Readers
<1>6. cash' = cash /\ turn' = Idle /\ wire' = wire
  BY DEF DecideBill
<1>7. ~Arrived' /\ turn'.at # "emit"
  BY <1>3, <1>6 DEF Arrived, Idle
<1>8. \A x \in S : x = t
  BY <1>2 DEF Fits, Overtakes
<1>9. \A x \in S2 : x = t
  <2>1. CASE queue' = q
    BY <1>1, <1>8, <2>1
  <2>2. ASSUME NEW r, NEW w, AnEvent(r, "accepted", w, t), queue' = Append(q, r)
        PROVE  \A x \in S2 : x = t
    <3>1. r \in Messages /\ ~Carries(r)
      BY <2>2 DEF AnEvent, Carries
    <3> QED
      BY <1>1, <1>8, <2>2, <3>1, LastStill
  <2>3. ASSUME NEW r, NEW w, AnEvent(r, "overpayPending", w, t), queue' = Append(q, r)
        PROVE  \A x \in S2 : x = t
    <3>1. r \in Messages /\ Carries(r) /\ r.total = t
      BY <2>3 DEF AnEvent, Carries
    <3> QED
      BY <1>1, <2>3, <3>1, LastShows
  <2> QED
    BY <1>1, <2>1, <2>2, <2>3, DecidePosts
<1>10. Fits(n, t, e2, S2)'
  BY <1>3, <1>5, <1>6, <1>7, <1>9, FitsStill
<1> QED
  BY <1>5, <1>10

LEMMA AcceptFits ==
  ASSUME Hardwired, Hardwired', Scripted, PathAgrees, AcceptBill, Hardware,
         NEW n, n = acceptor.now, Clean(n)',
         NEW t, t = reader.collected, NEW e, e = reader.escrow,
         NEW S, S = Last(js.collected, queue), Fits(n, t, e, S),
         NEW S2, S2 = Last(js.collected, queue')
  PROVE  reader'.collected = t /\ reader'.escrow = e /\ Fits(n, t, e, S2)'
<1>1. PICK c, q : c = js.collected /\ q = queue /\ q \in Seq(Messages)
  BY DEF Hardwired
<1>2. reader'.collected = t /\ reader'.escrow = e
  <2>1. reader' = reader \/ reader' = [reader EXCEPT !.accepted = TRUE]
    BY DEF AcceptBill
  <2> QED
    BY <2>1 DEF Hardwired, Readers
<1>3. cash' = cash /\ turn' = turn /\ wire' = wire
  BY DEF AcceptBill
<1>4. S2 = S
  <2>1. PICK r : AResult(r) /\ queue' = Append(q, r)
    BY <1>1, ReturnPosts
  <2> QED
    BY <1>1, <2>1, LastStill, ResultShowsNone
<1>5. Stacking' /\ acceptor'.s = n => e # 0 \/ (Stacking /\ acceptor.s = n /\ e = e)
  BY <1>2, HardwareDevice
<1>6. (IF Arrived' THEN e ELSE 0) = (IF Arrived THEN e ELSE 0)
  BY <1>3 DEF Arrived
<1> QED
  BY <1>2, <1>3, <1>4, <1>5, <1>6, FitsStill

\* 0x10 and 0x11 are read: the bill is counted when it is in the box.
LEMMA OutcomeFits ==
  ASSUME Hardwired, Hardwired', Scripted, PathAgrees, ReadStacked \/ ReadReturned,
         NEW n, n = acceptor.now, Clean(n)',
         NEW t, t = reader.collected, NEW e, e = reader.escrow,
         NEW S, Fits(n, t, e, S), NEW t2, t2 = reader'.collected
  PROVE  reader'.escrow = 0 /\ Fits(n, t2, 0, S)'
<1>1. turn.at = "idle" /\ wire # <<>> /\ wire' = <<>>
  BY ReadPath DEF ReadStacked, ReadReturned, Byte
<1>2. \A x \in S : x = t
  BY <1>1 DEF Fits, Overtakes
<1>3. PICK total, type : /\ reader' = [reader EXCEPT !.collected = total, !.escrow = 0, !.accepted = FALSE]
                         /\ turn' = Outcome(type, total)
                         /\ \/ type = "stacked" /\ total = t + e /\ wire = <<[b |-> "stacked"]>>
                            \/ type = "returned" /\ total = t /\ wire = <<[b |-> "returned"]>>
  <2>1. CASE ReadStacked
    <3>1. wire = <<[b |-> "stacked"]>>
      BY <2>1, ReadPath DEF ReadStacked
    <3> QED
      BY <2>1, <3>1 DEF ReadStacked, Settle
  <2>2. CASE ReadReturned
    <3>1. wire = <<[b |-> "returned"]>>
      BY <2>2, ReadPath DEF ReadReturned
    <3> QED
      BY <2>2, <3>1 DEF ReadReturned, Settle
  <2> QED
    BY <2>1, <2>2
<1>4. reader'.escrow = 0 /\ t2 = total
  BY <1>3 DEF Hardwired, Readers
<1>5. acceptor' = acceptor /\ cash' = cash
  BY DEF ReadStacked, ReadReturned, Settle, history
<1>6. \/ type = "stacked" /\ Arrived
      \/ type = "returned" /\ ~Arrived
  <2>1. <<[b |-> "returned"]>> # <<Stacked>>
    <3>1. [b |-> "returned"] # Stacked
      BY DEF Stacked
    <3> QED
      BY <3>1, ShortWires
  <2> QED
    BY <1>3, <2>1 DEF Arrived, Stacked
<1>7. t \in Nat /\ e \in Bills \cup {0} /\ e \in Nat
  BY InBaht DEF Hardwired, Readers
<1>8. CashOf(n)' = t2
  <2>1. CashOf(n)' = CashOf(n)
    BY <1>5 DEF CashOf
  <2> QED
    BY <1>3, <1>4, <1>6, <1>7, <2>1 DEF Fits
<1>9. ~Stacking'
  BY <1>1, <1>5 DEF PathAgrees, Stacking
<1>10. turn'.at = "emit" /\ turn'.event.k = type /\ turn'.event.amount = e
       /\ turn'.event.total = t2 /\ turn'.s = n
  <2>1. \E k : turn' = [at |-> "emit", s |-> n, event |-> Event(type, e, total, FALSE), complete |-> k]
    BY <1>3 DEF Outcome
  <2> QED
    BY <1>4, <2>1 DEF Event
<1>11. ~Overtakes' => t2 = t
  <2>1. ASSUME ~Overtakes' PROVE t2 = t
    <3>1. type = "returned" \/ ~(e > 0)
      BY <1>10, <2>1, <1>3 DEF Overtakes
    <3>2. ~(e > 0) => e = 0
      BY <1>7
    <3> QED
      BY <1>3, <1>4, <1>7, <3>1, <3>2
  <2> QED
    BY <2>1
<1>12. ~Arrived' /\ t2 + 0 = t2
  <2>1. t2 \in Nat
    BY DEF Hardwired, Readers
  <2> QED
    BY <1>1, <2>1, ShortWires DEF Arrived
<1>13. ~(Overtakes' /\ turn'.s = n) => \A x \in S : x = t2
  BY <1>2, <1>10, <1>11
<1> QED
  BY <1>4, <1>8, <1>9, <1>10, <1>12, <1>13 DEF Fits, CashOf, Overtakes, Stacking, Arrived

\* The event of a bill of this session shows what is counted.
LEMMA EmitFits ==
  ASSUME Hardwired, Hardwired', Scripted, PathAgrees, EmitOutcome,
         NEW n, n = acceptor.now, Clean(n)',
         NEW t, t = reader.collected, NEW e, e = reader.escrow,
         NEW S, S = Last(js.collected, queue), Fits(n, t, e, S),
         NEW S2, S2 = Last(js.collected, queue')
  PROVE  Fits(n, t, e, S2)'
<1>1. PICK c, q : c = js.collected /\ q = queue /\ q \in Seq(Messages)
  BY DEF Hardwired
<1>2. n \in Sessions /\ mishap'[n] = {}
  BY DEF Clean
<1>3. turn.at = "emit" /\ turn.s = n
  <2>1. ASSUME turn.s # n PROVE FALSE
    <3>1. mishap' = Blame(n, "strayed")
      BY <2>1 DEF EmitOutcome
    <3> QED
      BY <1>2, <3>1, BlameGrows
  <2> QED
    BY <2>1 DEF EmitOutcome
<1>4. turn.event.total = t
  BY <1>3 DEF Fits
<1>5. PICK x, f : /\ x \in Events /\ x \in Messages /\ x = turn.event
                  /\ AnEvent(f, "collectComplete", 0, turn.event.total)
                  /\ \/ queue' = Append(queue, x)
                     \/ queue' = Append(Append(queue, x), f)
  BY EmitPosts
<1>6. f \in Messages /\ Carries(f) /\ f.total = t
  BY <1>4, <1>5 DEF AnEvent, Carries
<1>7. PICK p : p = Append(q, x) /\ p \in Seq(Messages)
  BY <1>1, <1>5, AppendProperties
<1>8. \A y \in Last(c, p) : y = t
  <2>1. CASE Carries(x)
    BY <1>1, <1>4, <1>5, <1>7, <2>1, LastShows
  <2>2. CASE ~Carries(x)
    <3>1. ~Overtakes
      BY <1>5, <2>2 DEF Overtakes, Carries
    <3>2. \A y \in S : y = t
      BY <3>1 DEF Fits
    <3> QED
      BY <1>1, <1>5, <1>7, <2>2, <3>2, LastStill
  <2> QED
    BY <2>1, <2>2
<1>9. \A y \in S2 : y = t
  <2>1. CASE queue' = p
    BY <1>1, <1>8, <2>1
  <2>2. CASE queue' = Append(p, f)
    <3>1. Last(c, Append(p, f)) = {t}
      BY <1>6, <1>7, LastShows
    <3> QED
      BY <1>1, <2>2, <3>1
  <2> QED
    BY <1>1, <1>5, <1>7, <2>1, <2>2
<1>10. /\ cash' = cash /\ wire' = wire /\ turn' = Idle
       /\ acceptor' \in {acceptor, Disable(acceptor)}
  BY DEF EmitOutcome
<1>11. (Stacking' => Stacking) /\ acceptor'.s = acceptor.s
  BY <1>10, DeviceFollows
<1>12. turn'.at # "emit" /\ (IF Arrived' THEN e ELSE 0) = (IF Arrived THEN e ELSE 0)
  BY <1>10 DEF Idle, Arrived
<1> QED
  BY <1>9, <1>10, <1>11, <1>12, FitsStill

LEMMA HardwareReader ==
  ASSUME Hardwired, Hardwired', Scripted, PathAgrees, StartsAgree, WaitingAgrees, ReaderExact,
         Hardware
  PROVE  ReaderExact'
<1>1. CASE StartCollecting
  BY <1>1, StartFits
<1>2. CASE ~StartCollecting
  <2>1. PICK n, t, e, t2, e2, S, S2, w :
          /\ n = acceptor.now /\ t = reader.collected /\ e = reader.escrow
          /\ t2 = reader'.collected /\ e2 = reader'.escrow
          /\ S = Last(js.collected, queue) /\ S2 = Last(js.collected, queue') /\ w = work
    OBVIOUS
  <2>2. acceptor'.now = n /\ js' = js /\ work' = w
    <3>1. acceptor'.now = acceptor.now
      BY <1>2, NowAdvances
    <3> QED
      BY <2>1, <3>1 DEF Hardware, script
  <2>3. S2 = Last(js'.collected, queue')
    BY <2>1, <2>2
  <2>4. SUFFICES ASSUME Clean(n)', Unsent(n)' PROVE Fits(n, t2, e2, S2)'
    BY <2>1, <2>2, <2>3, ReaderFitsNext
  <2>5. Fits(n, t, e, S)
    <3>1. Clean(n)
      BY <2>4, HardwareMishaps, CleanBefore
    <3>2. Unsent(n)
      BY <2>1, <2>2, <2>4 DEF Unsent
    <3> QED
      BY <2>1, <3>1, <3>2, ReaderFits
  <2>6. CASE Nearby /\ ~EmitOutcome
    <3>1. t2 = t /\ e2 = e
      BY <2>1, <2>6, NoNearer
    <3> QED
      BY <2>1, <2>4, <2>5, <2>6, <3>1, NearbyFits
  <2>7. CASE EmitOutcome
    <3>1. t2 = t /\ e2 = e
      BY <2>1, <2>7, NoNearer DEF Nearby
    <3> QED
      BY <2>1, <2>4, <2>5, <2>7, <3>1, EmitFits
  <2>8. CASE StackBill
    <3>1. t2 = t /\ e2 = e /\ S2 = S
      BY <2>1, <2>8 DEF StackBill
    <3> QED
      BY <2>1, <2>4, <2>5, <2>8, <3>1, StackFits
  <2>9. CASE DecideBill
    <3>1. t2 = t /\ Fits(n, t, e2, S2)'
      BY <2>1, <2>4, <2>5, <2>9, DecideFits
    <3> QED
      BY <3>1
  <2>10. CASE AcceptBill
    <3>1. t2 = t /\ e2 = e /\ Fits(n, t, e, S2)'
      BY <2>1, <2>4, <2>5, <2>10, AcceptFits
    <3> QED
      BY <3>1
  <2>11. CASE ReadStacked \/ ReadReturned
    <3>1. e2 = 0 /\ Fits(n, t2, 0, S)'
      BY <2>1, <2>4, <2>5, <2>11, OutcomeFits
    <3>2. S2 = S
      BY <2>1, <2>11 DEF ReadStacked, ReadReturned, Settle
    <3> QED
      BY <3>1, <3>2
  <2>12. CASE StopTimesOut
    <3>1. mishap' = Blame(n, "no answer")
      BY <2>1, <2>12 DEF StopTimesOut
    <3>2. n \in Sessions /\ mishap'[n] = {}
      BY <2>4 DEF Clean
    <3> QED
      BY <3>1, <3>2, BlameGrows
  <2> QED
    BY <1>2, <2>6, <2>7, <2>8, <2>9, <2>10, <2>11, <2>12
       DEF Hardware, ReaderThread, PluginThread, Device, Nearby
<1> QED
  BY <1>1, <1>2

----------------------------------------------------------------------------
(* What the script finds after a stop is what is in the box *)

\* The stops after which the script credits or resets what is on the screen.
Sending == {t \in Thens : t.what \notin {"nothing", "overpay"}}
\* Amounts of sessions that are what is in the box, for good.
Boxed == {x \in (Sessions \cup {0}) \X Nat :
            Clean(x[1]) /\ Unsent(x[1]) => Closed(x[1]) /\ x[2] = CashOf(x[1])}

LEMMA InBoxed ==
  /\ \A s, n : <<s, n>> \in Boxed <=>
       /\ s \in Sessions \cup {0} /\ n \in Nat
       /\ Clean(s) /\ Unsent(s) => Closed(s) /\ n = CashOf(s)
  /\ \A s, n : <<s, n>> \in Boxed' <=>
       /\ s \in Sessions \cup {0} /\ n \in Nat
       /\ Clean(s)' /\ Unsent(s)' => Closed(s)' /\ n = CashOf(s)'
<1>1. \A s, n : <<s, n>> \in Boxed <=>
        /\ s \in Sessions \cup {0} /\ n \in Nat
        /\ Clean(s) /\ Unsent(s) => Closed(s) /\ n = CashOf(s)
  BY DEF Boxed
<1>2. \A s, n : <<s, n>> \in Boxed' <=>
        /\ s \in Sessions \cup {0} /\ n \in Nat
        /\ Clean(s)' /\ Unsent(s)' => Closed(s)' /\ n = CashOf(s)'
  BY DEF Boxed, Clean, Unsent, Closed, CashOf, Stacking
<1> QED
  BY <1>1, <1>2

LEMMA ResultsBoxed ==
  ASSUME Hardwired, Scripted, ResultsExact
  PROVE  AtResults(js.collected, queue, Boxed, Sending)
<1>1. PICK c, q : c = js.collected /\ q = queue /\ q \in Seq(Messages) /\ c \in Nat
  BY DEF Hardwired, Scripted, Screens
<1>2. SUFFICES ASSUME NEW i \in DOMAIN q, q[i].k = "result", q[i].then \in Sending,
                      NEW x \in Shown(c, q, i)
               PROVE  <<q[i].then.s, x>> \in Boxed
  BY <1>1 DEF AtResults
<1>3. PICK s : s = q[i].then.s /\ s \in Sessions \cup {0}
  BY <1>1, <1>2, ResultTyped
<1>4. x \in Nat
  BY <1>1, <1>2, ShownTyped
<1>5. Clean(s) /\ Unsent(s) => Closed(s) /\ x = CashOf(s)
  BY <1>1, <1>2, <1>3 DEF ResultsExact, ShownAt, Sending
<1> QED
  BY <1>3, <1>4, <1>5, InBoxed

LEMMA ResultsBoxedNext ==
  ASSUME Hardwired', AtResults(js'.collected, queue', Boxed', Sending)
  PROVE  ResultsExact'
<1>1. PICK c, q : c = js'.collected /\ q = queue'
  OBVIOUS
<1>2. q \in Seq(Messages)
  BY <1>1 DEF Hardwired
<1>3. ASSUME NEW i \in DOMAIN q, q[i].k = "result", q[i].then.what \notin {"nothing", "overpay"},
             NEW s, s = q[i].then.s, Clean(s)' /\ Unsent(s)', NEW x \in Shown(c, q, i)
      PROVE  Closed(s)' /\ x = CashOf(s)'
  <2>1. q[i].then \in Sending
    BY <1>2, <1>3, ResultTyped DEF Sending
  <2>2. <<s, x>> \in Boxed'
    BY <1>1, <1>3, <2>1 DEF AtResults
  <2> QED
    BY <1>3, <2>2, InBoxed
<1> QED
  BY <1>1, <1>3 DEF ResultsExact, ShownAt, Clean, Unsent, Closed, CashOf, Stacking

LEMMA BoxedStays ==
  ASSUME Hardwired, Hardwired', PathAgrees, StartsAgree, Hardware
  PROVE  \A s, x : <<s, x>> \in Boxed => <<s, x>> \in Boxed'
<1>1. SUFFICES ASSUME NEW s, NEW x, <<s, x>> \in Boxed, Clean(s)', Unsent(s)'
               PROVE  Closed(s)' /\ x = CashOf(s)'
  BY InBoxed
<1>2. Clean(s)
  BY <1>1, HardwareMishaps, CleanBefore
<1>3. Unsent(s)
  BY <1>1 DEF Hardware, script, Unsent
<1>4. Closed(s) /\ x = CashOf(s)
  BY <1>1, <1>2, <1>3, InBoxed
<1> QED
  BY <1>1, <1>4, ClosedStays

\* The call that returns finds the reader in its session.
LEMMA ReturnFinds ==
  ASSUME Hardwired, CallsExact, calls # <<>>, Head(calls).op # "start",
         NEW r, AResult(r), r.then \in Sending, NEW s, s = r.then.s, Clean(s)
  PROVE  s = acceptor.now
<1>1. r.then = Head(calls).then
  BY DEF AResult
<1>2. calls \in Seq(Calls) /\ 1 \in DOMAIN calls /\ calls[1] = Head(calls)
  BY DEF Hardwired
<1>3. 1 \notin Starts
  BY <1>2 DEF Starts
<1>4. \A j \in Starts : ~(j < 1)
  BY <1>2 DEF Starts
<1> QED
  BY <1>1, <1>2, <1>3, <1>4 DEF CallsExact, Finds, Sending

\* A stop that returns leaves its session closed, with what is shown in the box.
LEMMA StopBoxes ==
  ASSUME Hardwired, Hardwired', Scripted, PathAgrees, StartsAgree, WaitingAgrees, CallsExact,
         ReaderExact, Hardware, (StopCollecting /\ reader.escrow = 0) \/ StopSettled,
         NEW r, AResult(r), r.then \in Sending, NEW x \in Last(js.collected, queue)
  PROVE  <<r.then.s, x>> \in Boxed'
<1>1. PICK s, n, t, e, S : /\ s = r.then.s /\ n = acceptor.now /\ t = reader.collected
                           /\ e = reader.escrow /\ S = Last(js.collected, queue)
  OBVIOUS
<1>2. s \in Sessions \cup {0} /\ x \in Nat
  <2>1. r.then \in Thens
    BY DEF Sending
  <2>2. queue \in Seq(Messages) /\ js.collected \in Nat
    BY DEF Hardwired, Scripted, Screens
  <2> QED
    BY <1>1, <2>1, <2>2, ShownTyped DEF Thens, Last
<1>3. SUFFICES ASSUME Clean(s)', Unsent(s)' PROVE Closed(s)' /\ x = CashOf(s)'
  BY <1>1, <1>2, InBoxed
<1>4. Clean(s) /\ Unsent(s) /\ s \in Sessions /\ mishap'[s] = {}
  <2>1. Clean(s)
    BY <1>3, HardwareMishaps, CleanBefore
  <2> QED
    BY <1>3, <2>1 DEF Hardware, script, Unsent, Clean
<1>5. s = n
  <2>1. calls # <<>> /\ Head(calls).op # "start"
    BY ReturnPosts
  <2> QED
    BY <1>1, <1>4, <2>1, ReturnFinds
<1>6. Fits(s, t, e, S)
  BY <1>1, <1>4, <1>5, ReaderFits
<1>7. e = 0 /\ ~reader'.collecting
  <2>1. CASE StopCollecting /\ reader.escrow = 0
    BY <1>1, <2>1 DEF StopCollecting, Hardwired, Readers
  <2>2. CASE StopSettled
    BY <1>1, <2>2 DEF StopSettled, WaitingAgrees
  <2> QED
    BY <2>1, <2>2
<1>8. ~(Overtakes /\ turn.s = s)
  <2>1. ASSUME Overtakes, turn.s = s PROVE FALSE
    <3>1. mishap' = Blame(s, "overtaken")
      BY <1>1, <1>7, <2>1 DEF StopCollecting, StopSettled, BlameIfOvertaken
    <3> QED
      BY <1>4, <3>1, BlameGrows
  <2> QED
    BY <2>1
<1>9. x = t /\ t \in Nat /\ CashOf(s) = t + 0
  <2>1. t \in Nat
    BY <1>1 DEF Hardwired, Readers
  <2> QED
    BY <1>1, <1>6, <1>7, <1>8, <2>1 DEF Fits
<1>10. acceptor' = Disable(acceptor) /\ cash' = cash
  <2>1. CASE StopCollecting /\ reader.escrow = 0
    BY <2>1 DEF StopCollecting
  <2>2. CASE StopSettled
    BY <2>2 DEF StopSettled
  <2> QED
    BY <2>1, <2>2
<1>11. /\ acceptor'.now = s /\ acceptor'.s = acceptor.s /\ (Stacking' => Stacking)
  <2>1. acceptor'.now = acceptor.now /\ acceptor'.s = acceptor.s /\ (Stacking' => Stacking)
    BY <1>10, DeviceFollows
  <2> QED
    BY <1>1, <1>5, <2>1
<1>12. ~(Stacking /\ acceptor.s = s)
  BY <1>6, <1>7 DEF Fits
<1>13. s <= s
  <2>1. s \in Nat
    BY <1>4, SessionsAbove
  <2> QED
    BY <2>1
<1>14. Closed(s)'
  BY <1>7, <1>11, <1>12, <1>13 DEF Closed, Stacking
<1>15. CashOf(s)' = CashOf(s)
  BY <1>10 DEF CashOf
<1> QED
  BY <1>9, <1>14, <1>15

\* What is posted that is no result of a stop to act on.
LEMMA PostPlain ==
  ASSUME NEW q \in Seq(Messages), NEW c, NEW R, AtResults(c, q, R, Sending),
         NEW e \in Messages, e.k # "result" \/ e.then \notin Sending
  PROVE  AtResults(c, Append(q, e), R, Sending) /\ Append(q, e) \in Seq(Messages)
<1>1. AtResults(c, Append(q, e), R, Sending)
  BY AppendResults
<1> QED
  BY <1>1, AppendProperties

LEMMA HardwareExactResults ==
  ASSUME Hardwired, Hardwired', Scripted, PathAgrees, StartsAgree, WaitingAgrees, CallsExact,
         ReaderExact, ResultsExact, Hardware
  PROVE  ResultsExact'
<1>1. PICK c, q, R : c = js.collected /\ q = queue /\ R = Boxed' /\ q \in Seq(Messages)
  BY DEF Hardwired
<1>2. AtResults(c, q, R, Sending)
  <2>1. AtResults(c, q, Boxed, Sending)
    BY <1>1, ResultsBoxed
  <2>2. \A s, x : <<s, x>> \in Boxed => <<s, x>> \in R
    BY <1>1, BoxedStays
  <2> QED
    BY <2>1, <2>2, WeakerResults
<1>3. SUFFICES AtResults(c, queue', R, Sending)
  <2>1. js'.collected = c
    BY <1>1 DEF Hardware, script
  <2> QED
    BY <1>1, <1>3, <2>1, ResultsBoxedNext
<1>4. CASE queue' = q
  BY <1>2, <1>4
<1>5. ASSUME NEW e \in Messages, e.k # "result" \/ e.then \notin Sending, queue' = Append(q, e)
      PROVE  AtResults(c, queue', R, Sending)
  BY <1>1, <1>2, <1>5, PostPlain
<1>6. CASE ReadBill
  <2>1. PICK e : AnEvent(e, "escrowPending", 0, 0) /\ queue' = Append(q, e)
    BY <1>1, <1>6, ReadBillPosts
  <2> QED
    BY <1>5, <2>1 DEF AnEvent
<1>7. CASE StartCollecting
  <2>1. PICK e : AnEvent(e, "collecting", 0, 0) /\ queue' = Append(q, e)
    BY <1>1, <1>7, StartPosts
  <2> QED
    BY <1>5, <2>1 DEF AnEvent
<1>8. CASE DecideBill
  <2>1. ASSUME NEW e, NEW k, NEW v, AnEvent(e, k, v, reader.collected), k # "result",
               queue' = Append(q, e)
        PROVE  AtResults(c, queue', R, Sending)
    BY <1>5, <2>1 DEF AnEvent
  <2> QED
    BY <1>1, <1>4, <1>8, <2>1, DecidePosts
<1>9. CASE EmitOutcome
  <2>1. PICK e, f : /\ e \in Events /\ e \in Messages /\ e = turn.event
                    /\ AnEvent(f, "collectComplete", 0, turn.event.total)
                    /\ \/ queue' = Append(queue, e)
                       \/ queue' = Append(Append(queue, e), f)
    BY <1>9, EmitPosts
  <2>2. e.k # "result" /\ f.k # "result" /\ f \in Messages
    BY <2>1 DEF Events, AnEvent
  <2>3. PICK p : p = Append(q, e)
    OBVIOUS
  <2>4. AtResults(c, p, R, Sending) /\ p \in Seq(Messages)
    BY <1>1, <1>2, <2>1, <2>2, <2>3, PostPlain
  <2>5. AtResults(c, Append(p, f), R, Sending)
    BY <2>2, <2>4, PostPlain
  <2> QED
    BY <1>1, <2>1, <2>3, <2>4, <2>5
<1>10. CASE AcceptBill \/ ReturnBill
  <2>1. PICK r : AResult(r) /\ queue' = Append(q, r)
    BY <1>1, <1>10, ReturnPosts
  <2>2. calls # <<>> /\ Head(calls).op \in {"accept", "return"}
    BY <1>10 DEF AcceptBill, ReturnBill, Runs
  <2>3. Head(calls) \in Calls
    BY <2>2 DEF Hardwired
  <2>4. Head(calls).then.what = "overpay"
    BY <2>2, <2>3 DEF Calls, Stops, Answers
  <2>5. r \in Messages /\ r.then \notin Sending
    BY <2>1, <2>4 DEF AResult, Sending
  <2> QED
    BY <1>5, <2>1, <2>5
<1>11. CASE (StopCollecting /\ reader.escrow = 0) \/ StopSettled
  <2>1. PICK r : AResult(r) /\ queue' = Append(q, r)
    BY <1>1, <1>11, ReturnPosts
  <2>2. r \in Messages
    BY <2>1 DEF AResult
  <2>3. r.then \in Sending => \A x \in Last(c, q) : <<r.then.s, x>> \in R
    BY <1>1, <1>11, <2>1, StopBoxes
  <2> QED
    BY <1>1, <1>2, <2>1, <2>2, <2>3, AppendResults
<1>12. CASE StopTimesOut
  <2>1. PICK n : n = acceptor.now
    OBVIOUS
  <2>2. ASSUME NEW r, AResult(r), r.then \in Sending, NEW x \in Nat
        PROVE  <<r.then.s, x>> \in R
    <3>1. PICK s : s = r.then.s
      OBVIOUS
    <3>2. s \in Sessions \cup {0}
      BY <2>2, <3>1 DEF Sending, Thens
    <3>3. ~Clean(s)'
      <4>1. ASSUME Clean(s)' PROVE FALSE
        <5>1. Clean(s)
          BY <4>1, HardwareMishaps, CleanBefore
        <5>2. calls # <<>> /\ Head(calls).op # "start"
          BY <1>12, WaitsForStop DEF StopTimesOut
        <5>3. s = n
          BY <2>1, <2>2, <3>1, <5>1, <5>2, ReturnFinds
        <5>4. mishap' = Blame(n, "no answer")
          BY <1>12, <2>1 DEF StopTimesOut
        <5>5. s \in Sessions /\ mishap'[s] = {}
          BY <4>1 DEF Clean
        <5> QED
          BY <5>3, <5>4, <5>5, BlameGrows
      <4> QED
        BY <4>1
    <3> QED
      BY <1>1, <2>2, <3>1, <3>2, <3>3, InBoxed
  <2>3. ASSUME NEW p \in Seq(Messages), AtResults(c, p, R, Sending), NEW r, AResult(r),
               queue' = Append(p, r)
        PROVE  AtResults(c, queue', R, Sending)
    <3>1. r \in Messages
      BY <2>3 DEF AResult
    <3>2. c \in Nat
      BY <1>1 DEF Scripted, Screens
    <3>3. Last(c, p) \subseteq Nat
      BY <2>3, <3>2, ShownTyped DEF Last
    <3>4. r.then \in Sending => \A x \in Last(c, p) : <<r.then.s, x>> \in R
      BY <2>2, <2>3, <3>3
    <3> QED
      BY <2>3, <3>1, <3>4, AppendResults
  <2>4. ASSUME NEW e, NEW r, NEW v, NEW t, AnEvent(e, "stacked", v, t), AResult(r),
               queue' = Append(Append(q, e), r)
        PROVE  AtResults(c, queue', R, Sending)
    <3>1. PICK p : p = Append(q, e)
      OBVIOUS
    <3>2. e \in Messages /\ e.k # "result"
      BY <2>4 DEF AnEvent
    <3>3. AtResults(c, p, R, Sending) /\ p \in Seq(Messages)
      BY <1>1, <1>2, <3>1, <3>2, PostPlain
    <3> QED
      BY <2>3, <2>4, <3>1, <3>3
  <2> QED
    BY <1>1, <1>2, <1>12, <2>3, <2>4, TimeOutPosts
<1>13. CASE \/ (StopCollecting /\ reader.escrow # 0) \/ ReadStacked \/ ReadReturned
            \/ Device \/ (\E v \in Bills : InsertBill(v))
  <2>1. queue' = q
    BY <1>1, <1>13 DEF StopCollecting, ReadStacked, ReadReturned, Settle, Device, StackBill, GiveBack,
                       InsertBill
  <2> QED
    BY <1>4, <2>1
<1> QED
  BY <1>6, <1>7, <1>8, <1>9, <1>10, <1>11, <1>12, <1>13 DEF Hardware, ReaderThread, PluginThread

\* A step of the hardware leaves the sessions as they are.
LEMMA HardwareSessions ==
  ASSUME Hardwired, Hardwired', Scripted, PathAgrees, StartsAgree, SessionsExact, Hardware
  PROVE  SessionsExact'
<1>1. UNCHANGED <<js, work, credit, pending, ticket>>
  BY DEF Hardware, script
<1>2. PICK j, w, k, p, tk : j = js /\ w = work /\ k = credit /\ p = pending /\ tk = ticket
  OBVIOUS
<1>3. ASSUME NEW s \in Sessions, Clean(s)', s <= j.sess
      PROVE  IF w[s] \in {"none", "stopping"}
             THEN /\ w[s] = "stopping" => s = j.sess
                  /\ j.ref # s => CashOf(s)' = 0 /\ Closed(s)'
                  /\ w[s] = "none" /\ j.ref = s => j.screen = "cash"
             ELSE k[s] = CashOf(s)' /\ Closed(s)' /\ (tk[s] # 0 \/ p.ref = s)
  <2>1. Clean(s)
    BY <1>3, HardwareMishaps, CleanBefore
  <2>2. IF w[s] \in {"none", "stopping"}
        THEN /\ w[s] = "stopping" => s = j.sess
             /\ j.ref # s => CashOf(s) = 0 /\ Closed(s)
             /\ w[s] = "none" /\ j.ref = s => j.screen = "cash"
        ELSE k[s] = CashOf(s) /\ Closed(s) /\ (tk[s] # 0 \/ p.ref = s)
    BY <1>2, <1>3, <2>1 DEF SessionsExact, Unsent
  <2>3. Closed(s) => Closed(s)' /\ CashOf(s)' = CashOf(s)
    BY <1>3, ClosedStays
  <2> QED
    BY <2>2, <2>3
<1>4. j.ref \in {0, j.sess} /\ \A s \in Sessions : w[s] # "none" => s <= j.sess
  BY <1>2 DEF SessionsExact
<1>5. js' = j /\ work' = w /\ credit' = k /\ pending' = p /\ ticket' = tk
  BY <1>1, <1>2
<1> QED
  BY <1>3, <1>4, <1>5 DEF SessionsExact, Unsent, Clean, Closed, CashOf, Stacking

----------------------------------------------------------------------------
(* The screen's own steps *)

\* A session that is finalized is not one to be finalized again.
UnsentBefore == \A s \in Sessions : Unsent(s)' => Unsent(s)
\* The screen is emptied of n only if no session without mishap counts on it.
Empties(n) == \A s \in Sessions : Clean(s)' /\ Unsent(s)' => n = 0 \/ js.ref # s
\* What a step handles of the queue, and c is then shown.
Handles(c) ==
  \/ queue' = queue /\ c = js.collected
  \/ queue # <<>> /\ queue' = Tail(queue) /\ c = After(js.collected, Head(queue))

LEMMA EmptiedResults ==
  ASSUME NEW q \in Seq(Messages), NEW c, NEW R, NEW F, AtResults(c, q, R, F), NEW d,
         \A s : <<s, c>> \in R => <<s, d>> \in R
  PROVE  AtResults(d, q, R, F)
<1>1. SUFFICES ASSUME NEW i \in DOMAIN q, q[i].k = "result", q[i].then \in F,
                      NEW x \in Shown(d, q, i)
               PROVE  <<q[i].then.s, x>> \in R
  BY DEF AtResults
<1>2. CASE x \in Shown(c, q, i)
  BY <1>1, <1>2 DEF AtResults
<1>3. CASE x \notin Shown(c, q, i)
  <2>1. x = d /\ Carrying(q, i) = {}
    BY <1>1, <1>3 DEF Shown
  <2>2. c \in Shown(c, q, i)
    BY <2>1 DEF Shown
  <2>3. <<q[i].then.s, c>> \in R
    BY <1>1, <2>2 DEF AtResults
  <2> QED
    BY <2>1, <2>3
<1> QED
  BY <1>2, <1>3

LEMMA BoxedElsewhere ==
  ASSUME Elsewhere, MishapsGrow, UnsentBefore
  PROVE  /\ \A s : Closed(s)' = Closed(s) /\ CashOf(s)' = CashOf(s)
         /\ \A s, x : <<s, x>> \in Boxed => <<s, x>> \in Boxed'
<1>1. \A s : Closed(s)' = Closed(s) /\ CashOf(s)' = CashOf(s)
  BY DEF Elsewhere, Closed, CashOf, Stacking
<1>2. \A s : Clean(s)' => Clean(s)
  BY CleanBefore
<1>3. \A s : Clean(s)' /\ Unsent(s)' => Unsent(s)
  BY DEF UnsentBefore, Clean
<1>4. ASSUME NEW s, NEW x, <<s, x>> \in Boxed PROVE <<s, x>> \in Boxed'
  <2>1. s \in Sessions \cup {0} /\ x \in Nat
    BY <1>4, InBoxed
  <2>2. Clean(s)' /\ Unsent(s)' => Closed(s)' /\ x = CashOf(s)'
    <3>1. SUFFICES ASSUME Clean(s)', Unsent(s)' PROVE Closed(s)' /\ x = CashOf(s)'
      OBVIOUS
    <3>2. Clean(s) /\ Unsent(s)
      BY <1>2, <1>3, <3>1
    <3>3. Closed(s) /\ x = CashOf(s)
      BY <1>4, <3>2, InBoxed
    <3> QED
      BY <1>1, <3>3
  <2> QED
    BY <2>1, <2>2, InBoxed
<1> QED
  BY <1>1, <1>4

LEMMA ElsewhereShows ==
  ASSUME Hardwired, Hardwired', Scripted, StartsAgree, ReaderExact, ResultsExact, SessionsExact,
         Elsewhere, MishapsGrow, UnsentBefore, NEW c, Handles(c),
         js'.collected = c \/ (js'.collected = 0 /\ Empties(c))
  PROVE  ReaderExact' /\ ResultsExact'
<1>1. PICK q, p, R, d : /\ q = queue /\ p = queue' /\ R = Boxed' /\ d = js'.collected
                        /\ q \in Seq(Messages) /\ p \in Seq(Messages)
  BY DEF Hardwired
<1>2. Last(c, p) = Last(js.collected, q)
  <2>1. CASE queue' = queue
    <3>1. CASE c = js.collected
      BY <1>1, <2>1, <3>1
    <3>2. CASE c # js.collected
      BY <1>1, <3>2, ShownTail DEF Handles
    <3> QED
      BY <3>1, <3>2
  <2>2. CASE queue' # queue
    BY <1>1, <2>2, ShownTail DEF Handles
  <2> QED
    BY <2>1, <2>2
<1>3. AtResults(c, p, R, Sending)
  <2>1. AtResults(js.collected, q, Boxed, Sending)
    BY <1>1, ResultsBoxed
  <2>2. AtResults(js.collected, q, R, Sending)
    BY <1>1, <2>1, BoxedElsewhere, WeakerResults
  <2>3. CASE queue' = queue /\ c = js.collected
    BY <1>1, <2>2, <2>3
  <2>4. CASE queue # <<>> /\ queue' = Tail(queue) /\ c = After(js.collected, Head(queue))
    BY <1>1, <2>2, <2>4, TailResults
  <2> QED
    BY <2>3, <2>4 DEF Handles
<1>4. \A s : Clean(s)' /\ Unsent(s)' => Clean(s) /\ Unsent(s)
  <2>1. \A s : Clean(s)' => Clean(s) /\ s \in Sessions
    BY CleanBefore DEF Clean
  <2> QED
    BY <2>1 DEF UnsentBefore
\* An emptied screen shows what a session that is not on it has in the box.
<1>5. ASSUME Empties(c), c # 0, NEW s, Clean(s)', Unsent(s)', s <= js.sess
      PROVE  CashOf(s) = 0 /\ Closed(s)
  <2>1. s \in Sessions /\ Clean(s) /\ Unsent(s)
    BY <1>4, <1>5 DEF Clean
  <2>2. js.ref # s
    BY <1>5, <2>1 DEF Empties
  <2> QED
    BY <1>5, <2>1, <2>2 DEF SessionsExact
<1>6. AtResults(d, p, R, Sending)
  <2>1. CASE d = c
    BY <1>3, <2>1
  <2>2. CASE d # c
    <3>1. d = 0 /\ Empties(c) /\ c # 0
      BY <1>1, <2>2
    <3>2. ASSUME NEW s, <<s, c>> \in R PROVE <<s, 0>> \in R
      <4>1. s \in Sessions \cup {0}
        BY <1>1, <3>2, InBoxed
      <4>2. Clean(s)' /\ Unsent(s)' => Closed(s)' /\ 0 = CashOf(s)'
        <5>1. SUFFICES ASSUME Clean(s)', Unsent(s)' PROVE Closed(s)' /\ 0 = CashOf(s)'
          OBVIOUS
        <5>2. Closed(s)'
          BY <1>1, <3>2, <5>1, InBoxed
        <5>3. Closed(s)
          BY <5>2, BoxedElsewhere
        <5>4. s <= js.sess
          <6>1. PICK n, last : n = acceptor.now /\ last = js.sess
            OBVIOUS
          <6>2. n \in Nat /\ last \in Nat /\ s \in Nat
            <7>1. n \in Sessions \cup {0} /\ last \in Sessions \cup {0}
              BY <6>1 DEF Hardwired, Scripted, Acceptors, Screens
            <7> QED
              BY <4>1, <7>1, SessionsAbove
          <6>3. s <= n /\ n <= last
            BY <5>3, <6>1 DEF Closed, StartsAgree
          <6> QED
            BY <6>1, <6>2, <6>3
        <5>5. CashOf(s) = 0
          BY <1>5, <3>1, <5>1, <5>4
        <5> QED
          BY <5>2, <5>5, BoxedElsewhere
      <4>3. 0 \in Nat
        OBVIOUS
      <4> QED
        BY <1>1, <4>1, <4>2, <4>3, InBoxed
    <3> QED
      BY <1>1, <1>3, <3>1, <3>2, EmptiedResults
  <2> QED
    BY <2>1, <2>2
<1>7. ResultsExact'
  BY <1>1, <1>6, ResultsBoxedNext
<1>8. PICK n, t, e, S, S2 : /\ n = acceptor.now /\ t = reader.collected /\ e = reader.escrow
                            /\ S = Last(js.collected, q) /\ S2 = Last(d, p)
  OBVIOUS
<1>9. acceptor'.now = n /\ reader'.collected = t /\ reader'.escrow = e
  BY <1>8 DEF Elsewhere
<1>10. ASSUME Clean(n)', Unsent(n)' PROVE Fits(n, t, e, S2)'
  <2>1. Fits(n, t, e, S)
    BY <1>1, <1>4, <1>8, <1>10, ReaderFits
  <2>2. \A x \in S2 : x \in S \/ x = t
    <3>1. CASE d = c
      BY <1>2, <1>8, <3>1
    <3>2. CASE d # c
      <4>1. d = 0 /\ Empties(c) /\ c # 0
        BY <1>1, <3>2
      <4>2. n <= js.sess
        BY <1>8 DEF StartsAgree
      <4>3. CashOf(n) = 0
        BY <1>5, <1>10, <4>1, <4>2
      <4>4. t \in Nat /\ e \in Nat
        BY <1>8, InBaht DEF Hardwired, Readers
      <4>5. t = 0
        BY <2>1, <4>3, <4>4 DEF Fits
      <4> QED
        BY <1>1, <1>2, <1>8, <4>1, <4>5, ShownReset DEF Last
    <3> QED
      BY <3>1, <3>2
  <2>3. Fits(n, t, e, S2)
    BY <2>1, <2>2 DEF Fits
  <2> QED
    BY <2>3 DEF Elsewhere, Fits, CashOf, Overtakes, Stacking, Arrived
<1>11. ReaderExact'
  BY <1>1, <1>8, <1>9, <1>10, ReaderFitsNext
<1> QED
  BY <1>7, <1>11

----------------------------------------------------------------------------
(* What becomes of the money of a session *)

\* Session s with the screen j, the work w, the amounts k and tk of the kiosk
\* and of the server, and p kept to be sent.
Accounted(s, j, w, k, p, tk) ==
  IF w[s] \in {"none", "stopping"}
  THEN /\ w[s] = "stopping" => s = j.sess
       /\ j.ref # s => CashOf(s) = 0 /\ Closed(s)
       /\ w[s] = "none" /\ j.ref = s => j.screen = "cash"
  ELSE k[s] = CashOf(s) /\ Closed(s) /\ (tk[s] # 0 \/ p.ref = s)

LEMMA SessionsAccounted ==
  ASSUME SessionsExact, NEW s \in Sessions, Clean(s), s <= js.sess
  PROVE  Accounted(s, js, work, credit, pending, ticket)
  BY DEF SessionsExact, Unsent, Accounted

LEMMA SessionsAccountedNext ==
  ASSUME Elsewhere,
         NEW j, j = js', NEW w, w = work', NEW k, k = credit', NEW p, p = pending',
         NEW tk, tk = ticket', j.ref \in {0, j.sess},
         \A s \in Sessions : w[s] # "none" => s <= j.sess,
         \A s \in Sessions : Clean(s)' /\ s <= j.sess => Accounted(s, j, w, k, p, tk)
  PROVE  SessionsExact'
<1>1. \A s : Closed(s)' = Closed(s) /\ CashOf(s)' = CashOf(s)
  BY DEF Elsewhere, Closed, CashOf, Stacking
<1>2. ASSUME NEW s \in Sessions, Clean(s)', s <= j.sess
      PROVE  IF w[s] \in {"none", "stopping"}
             THEN /\ w[s] = "stopping" => s = j.sess
                  /\ j.ref # s => CashOf(s)' = 0 /\ Closed(s)'
                  /\ w[s] = "none" /\ j.ref = s => j.screen = "cash"
             ELSE k[s] = CashOf(s)' /\ Closed(s)' /\ (tk[s] # 0 \/ p.ref = s)
  BY <1>1, <1>2 DEF Accounted
<1> QED
  BY <1>2 DEF SessionsExact, Unsent, Clean, Closed, CashOf, Stacking

\* A session that is not sent is as it was, stopping on the screen, or given up;
\* and it is no longer of the screen only when it is empty.
Goes(s, j, w) ==
  \/ w[s] = work[s]
  \/ work[s] = "none" /\ w[s] = "stopping" /\ s = js.sess
  \/ work[s] = "stopping" /\ w[s] = "none" /\ j.ref # s
  \/ ~Unsent(s) /\ w[s] \notin {"none", "stopping"}
Leaves(s, j, w) ==
  /\ j.ref # js.ref /\ js.ref = s /\ Unsent(s) => CashOf(s) = 0 /\ Closed(s)
  /\ j.screen = js.screen \/ ~(w[s] = "none" /\ j.ref = s)

LEMMA ShownSessions ==
  ASSUME Scripted, SessionsExact, Elsewhere, MishapsGrow,
         NEW j, j = js', NEW w, w = work', j.sess = js.sess, j.ref \in {js.ref, 0},
         UNCHANGED credit, \A s \in Sessions : Goes(s, j, w),
         \A s \in Sessions : Clean(s)' =>
           /\ ticket[s] # 0 \/ pending.ref = s => ticket'[s] # 0 \/ pending'.ref = s
           /\ Leaves(s, j, w)
  PROVE  SessionsExact' /\ UnsentBefore
<1>0. UnsentBefore
  BY DEF Goes, Unsent, UnsentBefore
<1>1. PICK k, p, tk : k = credit' /\ p = pending' /\ tk = ticket'
  OBVIOUS
<1>2. \A s \in Sessions : w[s] # "none" => s <= j.sess
  <2>1. \A s \in Sessions : s <= s
    BY SessionsAbove
  <2> QED
    BY <2>1 DEF SessionsExact, Goes, Unsent
<1>3. j.ref \in {0, j.sess}
  BY DEF SessionsExact
<1>4. ASSUME NEW s \in Sessions, Clean(s)', s <= j.sess PROVE Accounted(s, j, w, k, p, tk)
  <2>1. Accounted(s, js, work, credit, pending, ticket)
    BY <1>4, CleanBefore, SessionsAccounted
  <2>2. Goes(s, j, w) /\ Leaves(s, j, w)
    BY <1>4
  <2>3. ticket[s] # 0 \/ pending.ref = s => tk[s] # 0 \/ p.ref = s
    BY <1>1, <1>4
  <2>4. CASE w[s] \in {"none", "stopping"}
    <3>1. Unsent(s)
      BY <2>2, <2>4 DEF Goes, Leaves, Unsent
    <3>2. w[s] = "stopping" => s = j.sess
      BY <2>1, <2>2, <3>1 DEF Accounted, Goes, Leaves, Unsent
    <3>3. j.ref # s => CashOf(s) = 0 /\ Closed(s)
      BY <2>1, <2>2, <3>1 DEF Accounted, Goes, Leaves, Unsent
    <3>4. w[s] = "none" /\ j.ref = s => j.screen = "cash"
      <4>1. SUFFICES ASSUME w[s] = "none", j.ref = s PROVE j.screen = "cash"
        OBVIOUS
      <4>2. j.screen = js.screen /\ js.ref = s
        BY <2>2, <4>1, SessionsAbove DEF Goes, Leaves
      <4>3. CASE work[s] = "none"
        BY <2>1, <4>2, <4>3 DEF Accounted
      <4> QED
        BY <2>2, <3>1, <4>1, <4>3 DEF Goes, Leaves, Unsent
    <3> QED
      BY <2>4, <3>2, <3>3, <3>4 DEF Accounted
  <2>5. CASE w[s] \notin {"none", "stopping"}
    <3>1. ~Unsent(s)
      BY <2>2, <2>5 DEF Goes, Leaves, Unsent
    <3>2. credit[s] = CashOf(s) /\ Closed(s) /\ (ticket[s] # 0 \/ pending.ref = s)
      BY <2>1, <3>1 DEF Accounted, Unsent
    <3> QED
      BY <1>1, <2>3, <2>5, <3>2 DEF Accounted
  <2> QED
    BY <2>4, <2>5
<1> QED
  BY <1>0, <1>1, <1>2, <1>3, <1>4, SessionsAccountedNext

\* The mishap of a session that is emptied, lost or left.
LEMMA ResetBlames ==
  ASSUME Hardwired, Scripted, NEW x, NEW s \in Sessions, ResetBy(x)[s] = {}, js.ref = s, Unsent(s)
  PROVE  s = x /\ js.collected = 0
<1>1. mishap \in [Sessions -> SUBSET Mishaps] /\ s # 0 /\ js.collected \in Nat
  BY SessionsAbove DEF Hardwired, Scripted, Screens
<1>2. s = x
  <2>1. ASSUME s # x PROVE FALSE
    <3>1. PICK own : own = IF js.ref = x /\ x # 0 /\ js.collected > 0 /\ work[x] \in {"none", "stopping"}
                           THEN Blame(x, "dropped") ELSE mishap
      OBVIOUS
    <3>2. own = mishap
      BY <2>1, <3>1
    <3>3. ResetBy(x) = [own EXCEPT ![js.ref] = @ \cup {"wiped"}]
      BY <1>1, <2>1, <3>1 DEF ResetBy
    <3>4. "wiped" \in ResetBy(x)[s]
      BY <1>1, <3>2, <3>3
    <3> QED
      BY <3>4
  <2> QED
    BY <2>1
<1>3. js.collected = 0
  <2>1. ASSUME js.collected # 0 PROVE FALSE
    <3>1. js.collected > 0
      BY <1>1, <2>1
    <3>2. ResetBy(x) = Blame(x, "dropped")
      BY <1>1, <1>2, <3>1 DEF ResetBy, Unsent
    <3>3. "dropped" \in Blame(x, "dropped")[s]
      BY <1>1, <1>2 DEF Blame
    <3> QED
      BY <3>2, <3>3
  <2> QED
    BY <2>1
<1> QED
  BY <1>2, <1>3

LEMMA LostBlames ==
  ASSUME Hardwired, NEW x, NEW how, NEW s \in Sessions, Lost(pending, x, how)[s] = {},
         pending.ref = s
  PROVE  s = x \/ ticket[s] # 0
<1>1. mishap \in [Sessions -> SUBSET Mishaps] /\ s # 0
  BY SessionsAbove DEF Hardwired
<1>2. ASSUME s # x, ticket[s] = 0 PROVE FALSE
  <2>1. Lost(pending, x, how) = Blame(s, how)
    BY <1>1, <1>2 DEF Lost
  <2>2. how \in Blame(s, how)[s]
    BY <1>1 DEF Blame
  <2> QED
    BY <2>1, <2>2
<1> QED
  BY <1>2

LEMMA LeftBlames ==
  ASSUME Hardwired, NEW s \in Sessions, LeftBehind(mishap)[s] = {}
  PROVE  ~(js.screen = "cash" /\ js.sess = s /\ work[s] = "none")
<1>1. ASSUME js.screen = "cash", js.sess = s, work[s] = "none" PROVE FALSE
  <2>1. LeftBehind(mishap) = [mishap EXCEPT ![s] = @ \cup {"left"}]
    BY <1>1 DEF LeftBehind
  <2>2. "left" \in LeftBehind(mishap)[s]
    BY <2>1 DEF Hardwired
  <2> QED
    BY <2>2
<1> QED
  BY <1>1

\* A step shows what the queue tells, or empties the screen.
Shows == \E c : Handles(c) /\ (js'.collected = c \/ (js'.collected = 0 /\ Empties(c)))
ExactStep == SessionsExact' /\ UnsentBefore /\ Shows

\* A step that leaves the screen's session on it.
LEMMA KeptScreen ==
  ASSUME IInv, SessionsExact, Elsewhere, MishapsGrow, NEW j, j = js', NEW w, w = work',
         j.sess = js.sess, j.ref = js.ref, j.screen = js.screen,
         UNCHANGED <<credit, ticket, pending>>,
         \/ w = work
         \/ work[js.sess] = "none" /\ w = [work EXCEPT ![js.sess] = "stopping"]
  PROVE  SessionsExact' /\ UnsentBefore
<1>1. Hardwired /\ Scripted
  BY IsScripted
<1>2. ASSUME NEW s \in Sessions PROVE Goes(s, j, w) /\ Leaves(s, j, w)
  BY <1>1 DEF Goes, Leaves, Scripted
<1>3. /\ \A s \in Sessions : Goes(s, j, w)
      /\ \A s \in Sessions : Leaves(s, j, w)
      /\ \A s : ticket[s] # 0 \/ pending.ref = s => ticket'[s] # 0 \/ pending'.ref = s
      /\ credit' = credit /\ j.ref \in {js.ref, 0}
  BY <1>2
<1> QED
  BY <1>1, <1>3, ShownSessions

\* The home screen, or the one out of service, after another.
LEMMA OtherScreen ==
  ASSUME IInv, SessionsExact, Elsewhere, MishapsGrow, NEW j, j = js', NEW w, w = work',
         j.sess = js.sess, j.ref = js.ref, UNCHANGED credit,
         \A s \in Sessions : w[s] = work[s] \/ (~Unsent(s) /\ w[s] \notin {"none", "stopping"}),
         \A s \in Sessions : Clean(s)' =>
           /\ ~(js.screen = "cash" /\ js.sess = s /\ work[s] = "none")
           /\ ticket[s] # 0 \/ pending.ref = s => ticket'[s] # 0 \/ pending'.ref = s
  PROVE  SessionsExact' /\ UnsentBefore
<1>1. Hardwired /\ Scripted
  BY IsScripted
<1>2. ASSUME NEW s \in Sessions PROVE Goes(s, j, w)
  BY <1>2 DEF Goes
<1>3. ASSUME NEW s \in Sessions, Clean(s)' PROVE Leaves(s, j, w)
  <2>1. ASSUME w[s] = "none", j.ref = s PROVE FALSE
    <3>1. work[s] = "none" /\ Unsent(s)
      BY <2>1 DEF Unsent
    <3>2. js.ref = s /\ s # 0
      BY <2>1, SessionsAbove
    <3>3. js.sess = s
      BY <3>2 DEF SessionsExact
    <3>4. s <= js.sess
      <4>1. s <= s
        BY SessionsAbove
      <4> QED
        BY <3>3, <4>1
    <3>5. Clean(s)
      BY <1>3, CleanBefore
    <3>6. js.screen = "cash"
      BY <3>1, <3>2, <3>4, <3>5 DEF SessionsExact
    <3> QED
      BY <1>3, <3>1, <3>3, <3>6
  <2> QED
    BY <2>1 DEF Leaves
<1> QED
  BY <1>1, <1>2, <1>3, ShownSessions

\* The screen is reset: no session without mishap is lost with it.
LEMMA ResetSessions ==
  ASSUME IInv, SessionsExact, Elsewhere, MishapsGrow, NEW j, j = js', NEW w, w = work', NEW x,
         j.sess = js.sess, j.ref = 0, UNCHANGED <<credit, ticket, pending>>,
         \A s \in Sessions : ResetBy(x)[s] \subseteq mishap'[s],
         \A s \in Sessions : \/ w[s] = work[s]
                             \/ work[s] = "stopping" /\ w[s] = "none"
                             \/ ~Unsent(s) /\ w[s] \notin {"none", "stopping"},
         x \in Sessions /\ Clean(x) /\ Unsent(x) /\ js.ref = x => CashOf(x) = js.collected /\ Closed(x)
  PROVE  SessionsExact' /\ UnsentBefore /\ Empties(js.collected)
<1>1. Hardwired /\ Scripted
  BY IsScripted
<1>2. ASSUME NEW s \in Sessions PROVE Goes(s, j, w)
  BY <1>2, SessionsAbove DEF Goes
<1>3. ASSUME NEW s \in Sessions, Clean(s)', js.ref = s, Unsent(s)
      PROVE  s = x /\ js.collected = 0 /\ CashOf(s) = 0 /\ Closed(s)
  <2>1. ResetBy(x)[s] = {}
    BY <1>3 DEF Clean
  <2>2. s = x /\ js.collected = 0
    BY <1>1, <1>3, <2>1, ResetBlames
  <2>3. Clean(s)
    BY <1>3, CleanBefore
  <2> QED
    BY <1>3, <2>2, <2>3
<1>4. ASSUME NEW s \in Sessions, Clean(s)' PROVE Leaves(s, j, w)
  BY <1>3, <1>4, SessionsAbove DEF Leaves
<1>5. SessionsExact' /\ UnsentBefore
  BY <1>1, <1>2, <1>4, ShownSessions
<1>6. Empties(js.collected)
  BY <1>3, <1>5 DEF Empties, UnsentBefore
<1> QED
  BY <1>5, <1>6

LEMMA SameShows ==
  ASSUME queue' = queue, js'.collected = js.collected
  PROVE  Shows
  BY DEF Shows, Handles

\* A touch, or the idle timer, of the session on the screen.
LEMMA TouchExact ==
  ASSUME IInv, SessionsExact, Elsewhere, MishapsGrow, queue' = queue,
         Back \/ Cancel \/ InhibitAccepting \/ IdleExpires \/ AnswerOverpay("accept")
           \/ AnswerOverpay("return")
  PROVE  ExactStep
<1>1. Hardwired /\ Scripted
  BY IsScripted
<1>2. PICK j, w : j = js' /\ w = work'
  OBVIOUS
<1>3. /\ j.sess = js.sess /\ j.ref = js.ref /\ j.screen = js.screen /\ j.collected = js.collected
      /\ UNCHANGED <<credit, ticket, pending>>
  <2>1. CASE InhibitAccepting
    BY <1>1, <1>2, <2>1 DEF InhibitAccepting, Free, Scripted, Screens
  <2>2. CASE ~InhibitAccepting
    <3>1. js' = js /\ UNCHANGED <<credit, ticket, pending>>
      BY <2>2 DEF Back, Cancel, IdleExpires, ExecuteCancel, AnswerOverpay, Free
    <3> QED
      BY <1>2, <3>1
  <2> QED
    BY <2>1, <2>2
<1>4. \/ w = work
      \/ work[js.sess] = "none" /\ w = [work EXCEPT ![js.sess] = "stopping"]
  <2>1. CASE Cancel \/ IdleExpires
    <3>1. ExecuteCancel
      BY <2>1 DEF Cancel, IdleExpires
    <3> QED
      BY <1>2, <3>1 DEF ExecuteCancel, ShouldFinalize, FinalizeStarts
  <2>2. CASE Back \/ InhibitAccepting \/ AnswerOverpay("accept") \/ AnswerOverpay("return")
    BY <1>2, <2>2 DEF Back, InhibitAccepting, AnswerOverpay
  <2> QED
    BY <2>1, <2>2
<1>5. SessionsExact' /\ UnsentBefore
  BY <1>2, <1>3, <1>4, KeptScreen
<1> QED
  BY <1>2, <1>3, <1>5, SameShows DEF ExactStep

\* What a view that goes away leaves.
LEMMA UnmountLeaves ==
  ASSUME IInv, NEW j \in Screens, NEW w, NEW more, Unmount(j, w, more)
  PROVE  /\ js'.sess = j.sess /\ js'.ref = j.ref /\ js'.collected = j.collected
         /\ js.screen # "recovery" => work' = w
         /\ js.screen = "recovery" => work' = [w EXCEPT ![js.sess] = "done"]
         /\ js.screen = "recovery" => js.sess \in Sessions /\ work[js.sess] = "recovering"
<1>1. /\ js' = [j EXCEPT !.screen = IF oos' THEN "oos" ELSE "home"]
      /\ work' = IF js.screen = "recovery" THEN [w EXCEPT ![js.sess] = "done"] ELSE w
  BY DEF Unmount
<1>2. js'.sess = j.sess /\ js'.ref = j.ref /\ js'.collected = j.collected
  BY <1>1 DEF Screens
<1>3. js.screen = "recovery" => js.sess \in Sessions /\ work[js.sess] = "recovering"
  BY DEF IInv, ScreenAgrees
<1> QED
  BY <1>1, <1>2, <1>3

LEMMA UnmountWork ==
  ASSUME IInv, NEW j \in Screens, NEW w, NEW more, Unmount(j, w, more),
         w \in [Sessions -> Works],
         \A s \in Sessions : w[s] = work[s] \/ (~Unsent(s) /\ w[s] \notin {"none", "stopping"})
  PROVE  \A s \in Sessions :
           work'[s] = work[s] \/ (~Unsent(s) /\ work'[s] \notin {"none", "stopping"})
<1>1. CASE js.screen = "recovery"
  <2>1. PICK x : x = js.sess
    OBVIOUS
  <2>2. work' = [w EXCEPT ![x] = "done"] /\ ~Unsent(x)
    BY <1>1, <2>1, UnmountLeaves DEF Unsent
  <2> QED
    BY <2>2
<1>2. CASE js.screen # "recovery"
  BY <1>2, UnmountLeaves
<1> QED
  BY <1>1, <1>2

LEMMA LogoutExact ==
  ASSUME IInv, SessionsExact, Elsewhere, MishapsGrow, queue' = queue, FinishAndLogout
  PROVE  ExactStep
<1>1. Hardwired /\ Scripted /\ js \in Screens
  BY IsScripted DEF Scripted
<1>2. PICK more : Unmount(js, work, more)
  BY DEF FinishAndLogout
<1>3. PICK j, w : j = js' /\ w = work'
  OBVIOUS
<1>4. js.screen = "success" /\ UNCHANGED <<credit, ticket, pending>>
  BY DEF FinishAndLogout
<1>5. j.sess = js.sess /\ j.ref = js.ref /\ j.collected = js.collected
  BY <1>1, <1>2, <1>3, UnmountLeaves
<1>6. \A s \in Sessions : w[s] = work[s] \/ (~Unsent(s) /\ w[s] \notin {"none", "stopping"})
  BY <1>1, <1>2, <1>3, UnmountWork DEF Scripted
<1>7. SessionsExact' /\ UnsentBefore
  BY <1>3, <1>4, <1>5, <1>6, OtherScreen
<1> QED
  BY <1>3, <1>5, <1>7, SameShows DEF ExactStep

\* The next session: what was on the screen has been credited, or was nothing.
LEMMA SelectExact ==
  ASSUME IInv, Hardwired', SessionsExact, Elsewhere, MishapsGrow, queue' = queue,
         NEW target \in Targets, SelectCash(target)
  PROVE  ExactStep
<1>1. Hardwired /\ Scripted
  BY IsScripted
<1>2. PICK last : last = js.sess
  OBVIOUS
<1>3. last \in Nat /\ last + 1 \in Sessions /\ js.screen = "home"
  <2>1. last \in Sessions \cup {0}
    BY <1>1, <1>2 DEF Scripted, Screens
  <2> QED
    BY <1>2, <2>1, SessionsAbove DEF SelectCash
<1>4. PICK j, w, k, p, tk : j = js' /\ w = work' /\ k = credit' /\ p = pending' /\ tk = ticket'
  OBVIOUS
<1>5. j.sess = last + 1 /\ j.screen = "cash" /\ j.ref = last + 1 /\ j.collected = 0
  BY <1>1, <1>2, <1>4, SelectCalls
<1>6. w = work /\ k = credit /\ p = pending /\ tk = ticket
  BY <1>4 DEF SelectCash, Free
<1>7. ASSUME NEW s \in Sessions, Clean(s)' PROVE Clean(s) /\ work[s] # "stopping"
  <2>1. Clean(s)
    BY <1>7, CleanBefore
  <2>2. mishap'[s] = IF work[s] = "stopping" THEN mishap[s] \cup {"dropped"} ELSE mishap[s]
    BY DEF SelectCash
  <2>3. mishap'[s] = {}
    BY <1>7 DEF Clean
  <2> QED
    BY <2>1, <2>2, <2>3
<1>8. ASSUME NEW s \in Sessions, Clean(s), s <= last, work[s] = "none" PROVE js.ref # s
  BY <1>2, <1>3, <1>8 DEF SessionsExact, Unsent
<1>9. ASSUME NEW s \in Sessions, Clean(s)', s <= last + 1 PROVE Accounted(s, j, w, k, p, tk)
  <2>1. s \in Nat
    BY SessionsAbove
  <2>2. CASE s <= last
    <3>1. Accounted(s, js, work, credit, pending, ticket)
      BY <1>2, <1>7, <1>9, <2>2, SessionsAccounted
    <3>2. s # last + 1
      BY <1>3, <2>1, <2>2
    <3>3. work[s] = "none" => js.ref # s
      BY <1>7, <1>8, <1>9, <2>2
    <3> QED
      BY <1>5, <1>6, <1>7, <1>9, <3>1, <3>2, <3>3 DEF Accounted
  <2>3. CASE s = last + 1
    <3>1. ~(s <= last)
      BY <1>3, <2>3
    <3>2. work[s] = "none"
      BY <1>2, <3>1 DEF SessionsExact
    <3> QED
      BY <1>5, <1>6, <2>3, <3>2 DEF Accounted
  <2> QED
    BY <1>3, <1>9, <2>1, <2>2, <2>3
<1>10. \A s \in Sessions : w[s] # "none" => s <= j.sess
  <2>1. ASSUME NEW s \in Sessions, work[s] # "none" PROVE s <= last + 1
    <3>1. s <= last /\ s \in Nat
      BY <1>2, <2>1, SessionsAbove DEF SessionsExact
    <3> QED
      BY <1>3, <3>1
  <2> QED
    BY <1>5, <1>6, <2>1
<1>11. SessionsExact'
  BY <1>4, <1>5, <1>9, <1>10, SessionsAccountedNext
<1>12. UnsentBefore
  BY <1>4, <1>6 DEF UnsentBefore, Unsent
<1>13. Empties(js.collected)
  <2>1. ASSUME NEW s \in Sessions, Clean(s)', Unsent(s)' PROVE js.ref # s
    <3>1. work[s] = "none" /\ Clean(s)
      BY <1>7, <1>12, <2>1 DEF UnsentBefore, Unsent
    <3>2. CASE s <= last
      BY <1>8, <3>1, <3>2
    <3>3. CASE ~(s <= last)
      <4>1. s # last /\ s # 0
        BY <1>3, <3>3, SessionsAbove
      <4> QED
        BY <1>2, <4>1 DEF SessionsExact
    <3> QED
      BY <3>2, <3>3
  <2> QED
    BY <2>1 DEF Empties
<1>14. Shows
  BY <1>4, <1>5, <1>13 DEF Shows, Handles
<1> QED
  BY <1>11, <1>12, <1>14 DEF ExactStep

LEMMA CustomerExact ==
  ASSUME IInv, Hardwired', SessionsExact, Customer
  PROVE  ExactStep
<1>1. Elsewhere /\ MishapsGrow /\ queue' = queue
  BY IsScripted, CustomerElsewhere
<1> QED
  BY <1>1, TouchExact, LogoutExact, SelectExact DEF Customer

\* The screen stays, and what is kept or credited goes only from a session
\* that has been credited.
LEMMA PaidSessions ==
  ASSUME IInv, SessionsExact, Elsewhere, MishapsGrow, js' = js, queue' = queue, UNCHANGED credit,
         \A s \in Sessions : work'[s] = work[s]
                             \/ (~Unsent(s) /\ work'[s] \notin {"none", "stopping"}),
         \A s \in Sessions : Clean(s)' /\ (ticket[s] # 0 \/ pending.ref = s) =>
                               ticket'[s] # 0 \/ pending'.ref = s
  PROVE  ExactStep
<1>1. Hardwired /\ Scripted
  BY IsScripted
<1>2. PICK j, w : j = js' /\ w = work'
  OBVIOUS
<1>3. /\ \A s \in Sessions : Goes(s, j, w)
      /\ \A s \in Sessions : Leaves(s, j, w)
      /\ j.sess = js.sess /\ j.ref \in {js.ref, 0}
  BY <1>2 DEF Goes, Leaves
<1>4. SessionsExact' /\ UnsentBefore
  BY <1>1, <1>2, <1>3, ShownSessions
<1> QED
  BY <1>4, SameShows DEF ExactStep

\* The slot is emptied, of a top-up that has been credited.
LEMMA SlotEmptied ==
  ASSUME IInv, NEW x, NEW how, mishap' = Lost(pending, x, how), ticket' = ticket,
         x \in Sessions => ticket[x] # 0
  PROVE  \A s \in Sessions : Clean(s)' /\ (ticket[s] # 0 \/ pending.ref = s) => ticket'[s] # 0
<1>1. SUFFICES ASSUME NEW s \in Sessions, Clean(s)', pending.ref = s, ticket[s] = 0 PROVE FALSE
  OBVIOUS
<1>2. Lost(pending, x, how)[s] = {}
  BY <1>1 DEF Clean
<1> QED
  BY <1>1, <1>2, LostBlames, IsScripted

LEMMA AnswerExact ==
  ASSUME IInv, SessionsExact, Elsewhere, MishapsGrow, queue' = queue,
         (\E s \in Sessions : CallReturns(s)) \/ RetryReturns \/ RetryFails
           \/ \E q \in Request : ServerCredits(q)
  PROVE  ExactStep
<1>1. Hardwired /\ Scripted
  BY IsScripted
<1>2. ASSUME NEW x \in Sessions, CallReturns(x) PROVE ExactStep
  <2>1. /\ work[x] = "calling" /\ ticket[x] # 0 /\ work' = [work EXCEPT ![x] = "refreshing"]
        /\ mishap' = Lost(pending, x, "cleared") /\ js' = js /\ credit' = credit /\ ticket' = ticket
    BY <1>2 DEF CallReturns, ClearPending
  <2>2. \A s \in Sessions : work'[s] = work[s]
                            \/ (~Unsent(s) /\ work'[s] \notin {"none", "stopping"})
    BY <1>1, <2>1 DEF Unsent, Scripted
  <2>3. \A s \in Sessions : Clean(s)' /\ (ticket[s] # 0 \/ pending.ref = s) => ticket'[s] # 0
    BY <2>1, SlotEmptied
  <2> QED
    BY <2>1, <2>2, <2>3, PaidSessions
<1>3. CASE RetryReturns
  <2>1. PICK x : x = retry.ref
    OBVIOUS
  <2>2. /\ ticket[x] # 0 /\ mishap' = Lost(pending, x, "cleared")
        /\ js' = js /\ credit' = credit /\ ticket' = ticket /\ work' = work
    BY <1>3, <2>1 DEF RetryReturns, ClearPending
  <2>3. \A s \in Sessions : Clean(s)' /\ (ticket[s] # 0 \/ pending.ref = s) => ticket'[s] # 0
    BY <2>2, SlotEmptied
  <2> QED
    BY <2>2, <2>3, PaidSessions
<1>4. CASE RetryFails
  <2>1. /\ js' = js /\ credit' = credit /\ ticket' = ticket /\ work' = work /\ pending' = pending
    BY <1>4 DEF RetryFails
  <2> QED
    BY <2>1, PaidSessions
<1>5. ASSUME NEW q \in Request, ServerCredits(q) PROVE ExactStep
  <2>1. /\ js' = js /\ credit' = credit /\ work' = work /\ pending' = pending
        /\ ticket' = [ticket EXCEPT ![q.ref] = q.amount]
    BY <1>5 DEF ServerCredits, script
  <2>2. q.amount # 0
    <3>1. CASE q \in {retry} \ {None}
      <4>1. q \in Slot /\ q # None
        BY <1>1, <3>1 DEF Scripted
      <4>2. q.amount \in Nat \ {0}
        BY <4>1 DEF Slot
      <4> QED
        BY <4>2
    <3>2. CASE q \notin {retry} \ {None}
      <4>1. PICK x \in Sessions : work[x] = "calling" /\ q = [ref |-> x, amount |-> credit[x]]
        BY <3>2 DEF Request
      <4>2. credit[x] > 0
        BY <1>1, <4>1 DEF Scripted
      <4> QED
        BY <4>1, <4>2
    <3> QED
      BY <3>1, <3>2
  <2>3. \A s \in Sessions : ticket[s] # 0 => ticket'[s] # 0
    BY <1>1, <2>1, <2>2 DEF Scripted
  <2> QED
    BY <2>1, <2>3, PaidSessions
<1> QED
  BY <1>2, <1>3, <1>4, <1>5

\* A finalize ends: the session it was for has been sent.
LEMMA EndsExact ==
  ASSUME IInv, SessionsExact, Elsewhere, MishapsGrow, queue' = queue, NEW x \in Sessions,
         Refreshed(x) \/ CallFails(x)
  PROVE  ExactStep
<1>1. Hardwired /\ Scripted
  BY IsScripted
<1>2. PICK j, w, screen : /\ j = js' /\ w = work'
                          /\ j = [ResetSession(js) EXCEPT !.screen =
                                    IF js.sess = x /\ @ = "cash" THEN screen ELSE @]
  BY DEF Refreshed, CallFails, Ends
<1>3. /\ mishap' = ResetBy(x) /\ UNCHANGED <<credit, ticket, pending>> /\ ~Unsent(x)
      /\ \E v \in {"done", "recovering"} : w = [work EXCEPT ![x] = v]
  BY <1>2 DEF Refreshed, CallFails, Ends, Unsent
<1>4. j.sess = js.sess /\ j.ref = 0 /\ j.collected = 0
  <2>1. /\ ResetSession(js).sess = js.sess /\ ResetSession(js).ref = 0
        /\ ResetSession(js).collected = 0 /\ ResetSession(js) \in Screens
    BY <1>1, ResetTyped, ResetShows DEF Scripted
  <2> QED
    BY <1>2, <2>1 DEF Screens
<1>5. \A s \in Sessions : \/ w[s] = work[s]
                          \/ work[s] = "stopping" /\ w[s] = "none"
                          \/ ~Unsent(s) /\ w[s] \notin {"none", "stopping"}
  BY <1>1, <1>3 DEF Scripted
<1>6. \A s \in Sessions : ResetBy(x)[s] \subseteq mishap'[s]
  BY <1>3
<1>7. SessionsExact' /\ UnsentBefore /\ Empties(js.collected)
  BY <1>2, <1>3, <1>4, <1>5, <1>6, ResetSessions
<1> QED
  BY <1>2, <1>4, <1>7 DEF ExactStep, Shows, Handles

\* The view goes away with what it has, or the lock opens.
LEMMA AwayExact ==
  ASSUME IInv, SessionsExact, Elsewhere, MishapsGrow, queue' = queue,
         (\E s \in Sessions : EnterOutOfService(s)) \/ ResumeApp
  PROVE  ExactStep
<1>1. Hardwired /\ Scripted /\ js \in Screens
  BY IsScripted DEF Scripted
<1>2. PICK j, w, v, more : /\ j = js' /\ w = work' /\ Unmount(js, v, more)
                           /\ v = work \/ \E s \in Sessions : /\ work[s] = "recovering"
                                                              /\ v = [work EXCEPT ![s] = "done"]
  <2>1. CASE ResumeApp
    BY <2>1 DEF ResumeApp
  <2>2. CASE ~ResumeApp
    BY <2>2 DEF EnterOutOfService
  <2> QED
    BY <2>1, <2>2
<1>3. mishap' = LeftBehind(mishap) /\ UNCHANGED <<credit, ticket, pending>>
  BY DEF EnterOutOfService, ResumeApp
<1>4. j.sess = js.sess /\ j.ref = js.ref /\ j.collected = js.collected
  BY <1>1, <1>2, UnmountLeaves
<1>5. /\ v \in [Sessions -> Works]
      /\ \A s \in Sessions : v[s] = work[s] \/ (~Unsent(s) /\ v[s] \notin {"none", "stopping"})
  BY <1>1, <1>2 DEF Scripted, Works, Unsent
<1>6. \A s \in Sessions : w[s] = work[s] \/ (~Unsent(s) /\ w[s] \notin {"none", "stopping"})
  BY <1>1, <1>2, <1>5, UnmountWork
<1>7. ASSUME NEW s \in Sessions, Clean(s)'
      PROVE  ~(js.screen = "cash" /\ js.sess = s /\ work[s] = "none")
  <2>1. LeftBehind(mishap)[s] = {}
    BY <1>3, <1>7 DEF Clean
  <2> QED
    BY <1>1, <2>1, LeftBlames
<1>8. SessionsExact' /\ UnsentBefore
  BY <1>2, <1>3, <1>4, <1>6, <1>7, OtherScreen
<1> QED
  BY <1>2, <1>4, <1>8, SameShows DEF ExactStep

LEMMA UnlockExact ==
  ASSUME IInv, SessionsExact, Elsewhere, MishapsGrow, queue' = queue, HandleUnlock
  PROVE  ExactStep
<1>1. Hardwired /\ Scripted
  BY IsScripted
<1>2. PICK j, w : j = js' /\ w = work'
  OBVIOUS
<1>3. /\ js.screen = "oos" /\ js' = [js EXCEPT !.screen = "home"] /\ work' = work
      /\ credit' = credit /\ ticket' = ticket /\ mishap' = Lost(pending, 0, "unlocked")
  BY DEF HandleUnlock
<1>4. j.sess = js.sess /\ j.ref = js.ref /\ j.collected = js.collected
  BY <1>1, <1>2, <1>3 DEF Scripted, Screens
<1>5. \A s \in Sessions : Clean(s)' /\ (ticket[s] # 0 \/ pending.ref = s) => ticket'[s] # 0
  BY <1>3, SlotEmptied, SessionsAbove
<1>6. \A s \in Sessions : w[s] = work[s] \/ (~Unsent(s) /\ w[s] \notin {"none", "stopping"})
  BY <1>2, <1>3
<1>7. SessionsExact' /\ UnsentBefore
  BY <1>2, <1>3, <1>4, <1>5, <1>6, OtherScreen
<1> QED
  BY <1>2, <1>4, <1>7, SameShows DEF ExactStep

LEMMA ApiExact ==
  ASSUME IInv, SessionsExact, Api \/ HandleUnlock \/ ResumeApp
  PROVE  ExactStep
<1>1. Elsewhere /\ MishapsGrow /\ queue' = queue
  BY IsScripted, ApiElsewhere
<1> QED
  BY <1>1, AnswerExact, EndsExact, AwayExact, UnlockExact DEF Api

----------------------------------------------------------------------------
(* The script handles an event or a result *)

\* A result: what the screen shows is what it goes by.
LEMMA ResultShows ==
  ASSUME Hardwired, queue # <<>>, queue' = Tail(queue), Head(queue).k = "result",
         js'.collected = js.collected \/ (js'.collected = 0 /\ Empties(js.collected))
  PROVE  Shows
<1>1. PICK c : c = After(js.collected, Head(queue))
  OBVIOUS
<1>2. c = js.collected
  BY <1>1 DEF After, Carries
<1> QED
  BY <1>1, <1>2 DEF Shows, Handles

LEMMA ResultBoxed ==
  ASSUME IInv, ResultsExact, NEW what \in {"finalize", "cancel", "leave", "back"}, Resolved(what)
  PROVE  /\ queue # <<>> /\ queue' = Tail(queue) /\ Head(queue).k = "result"
         /\ Clean(Of.s) /\ Unsent(Of.s) => CashOf(Of.s) = js.collected /\ Closed(Of.s)
<1>1. Hardwired /\ Scripted
  BY IsScripted
<1>2. queue # <<>> /\ queue' = Tail(queue) /\ Head(queue).k = "result"
  BY DEF Resolved
<1>3. Of \in Thens /\ Of.what = what
  BY <1>1, ResolvedKeeps
<1>4. Of \in Sending /\ Of = Head(queue).then
  BY <1>3 DEF Sending, Of
<1>5. PICK q, c : q = queue /\ c = js.collected /\ q \in Seq(Messages)
  BY <1>1 DEF Hardwired
<1>6. AtResults(c, q, Boxed, Sending)
  BY <1>1, <1>5, ResultsBoxed
<1>7. <<Head(q).then.s, c>> \in Boxed
  BY <1>2, <1>4, <1>5, <1>6, HeadResult
<1>8. <<Of.s, js.collected>> \in Boxed
  BY <1>4, <1>5, <1>7
<1>9. Clean(Of.s) /\ Unsent(Of.s) => CashOf(Of.s) = js.collected /\ Closed(Of.s)
  BY <1>8, InBoxed
<1> QED
  BY <1>2, <1>9

LEMMA EventExact ==
  ASSUME IInv, SessionsExact, Elsewhere, MishapsGrow, HandleEvent
  PROVE  ExactStep
<1>1. Hardwired /\ Scripted
  BY IsScripted
<1>2. PICK e, j, w : e = Head(queue) /\ j = js' /\ w = work'
  OBVIOUS
<1>3. e \in Events
  <2>1. queue # <<>> /\ e.k # "result" /\ queue \in Seq(Messages)
    BY <1>1, <1>2 DEF HandleEvent, Hardwired
  <2>2. e \in Messages
    BY <1>2, <2>1
  <2> QED
    BY <2>1, <2>2 DEF Messages, Results
<1>4. js' = Handled(e) /\ UNCHANGED <<credit, ticket, pending>>
  BY <1>2 DEF HandleEvent
<1>5. /\ j.sess = js.sess /\ j.ref = js.ref /\ j.screen = js.screen
      /\ j.collected = IF e.k \in {"escrowPending", "accepted"} THEN js.collected ELSE e.total
  BY <1>1, <1>2, <1>3, <1>4, HandledTyped
<1>6. j.collected = After(js.collected, e)
  <2>1. e.k # "result"
    BY <1>2 DEF HandleEvent
  <2> QED
    BY <1>5, <2>1 DEF After, Carries
<1>7. \/ w = work
      \/ work[js.sess] = "none" /\ w = [work EXCEPT ![js.sess] = "stopping"]
  <2>1. \/ work' = work
        \/ ShouldFinalize(Handled(e)) /\ FinalizeStarts(Handled(e), "finalize")
    BY <1>2 DEF HandleEvent
  <2>2. \/ work' = work
        \/ ShouldFinalize(j) /\ FinalizeStarts(j, "finalize")
    BY <1>2, <1>4, <2>1
  <2> QED
    BY <1>2, <1>5, <2>2 DEF ShouldFinalize, FinalizeStarts
<1>8. SessionsExact' /\ UnsentBefore
  BY <1>2, <1>4, <1>5, <1>7, KeptScreen
<1>9. Shows
  <2>1. queue # <<>> /\ queue' = Tail(queue)
    BY DEF HandleEvent
  <2> QED
    BY <1>2, <1>6, <2>1 DEF Shows, Handles
<1> QED
  BY <1>8, <1>9 DEF ExactStep

LEMMA StopExact ==
  ASSUME IInv, SessionsExact, Elsewhere, MishapsGrow, AfterStop
  PROVE  ExactStep
<1>1. Hardwired /\ Scripted
  BY IsScripted
<1>2. PICK j, w : j = js' /\ w = work'
  OBVIOUS
<1>3. w = work /\ UNCHANGED <<credit, ticket, pending>>
  BY <1>2 DEF AfterStop
<1>4. /\ j.sess = js.sess /\ j.ref = js.ref /\ j.screen = js.screen
      /\ j.collected = js.collected
  <2>1. js' = [js EXCEPT !.overpay = FALSE, !.inFlight = FALSE] \/ js' = [js EXCEPT !.overpay = FALSE]
    BY DEF AfterStop, Stopped
  <2> QED
    BY <1>1, <1>2, <2>1 DEF Scripted, Screens
<1>5. SessionsExact' /\ UnsentBefore
  BY <1>2, <1>3, <1>4, KeptScreen
<1>6. queue # <<>> /\ queue' = Tail(queue) /\ Head(queue).k = "result"
  BY DEF AfterStop, Resolved
<1>7. Shows
  BY <1>1, <1>2, <1>4, <1>6, ResultShows
<1> QED
  BY <1>5, <1>7 DEF ExactStep

\* The amount is sent: all that the session has in the box.
LEMMA CreditExact ==
  ASSUME IInv, SessionsExact, Elsewhere, MishapsGrow, ticket' = ticket,
         NEW x \in Sessions, work[x] = "stopping",
         Clean(x) => CashOf(x) = js.collected /\ Closed(x),
         js' = Stopped, credit' = [credit EXCEPT ![x] = js.collected],
         pending' = Pending(x, js.collected), mishap' = Lost(pending, x, "overwritten"),
         work' = [work EXCEPT ![x] = "calling"]
  PROVE  SessionsExact' /\ UnsentBefore /\ js'.collected = js.collected
<1>1. Hardwired /\ Scripted
  BY IsScripted
<1>2. PICK j, w, k, p, tk : j = js' /\ w = work' /\ k = credit' /\ p = pending' /\ tk = ticket'
  OBVIOUS
<1>3. /\ j.sess = js.sess /\ j.ref = js.ref /\ j.screen = js.screen /\ j.collected = js.collected
      /\ p.ref = x /\ tk = ticket
  BY <1>1, <1>2 DEF Scripted, Screens, Stopped, Pending
<1>4. /\ w[x] = "calling" /\ k[x] = js.collected
      /\ \A s \in Sessions : s # x => w[s] = work[s] /\ k[s] = credit[s]
  BY <1>1, <1>2 DEF Scripted
<1>5. \A s \in Sessions : w[s] # "none" => s <= j.sess
  BY <1>3, <1>4 DEF SessionsExact
<1>6. ASSUME NEW s \in Sessions, Clean(s)', s <= j.sess PROVE Accounted(s, j, w, k, p, tk)
  <2>1. Clean(s)
    BY <1>6, CleanBefore
  <2>2. CASE s = x
    BY <1>3, <1>4, <2>1, <2>2 DEF Accounted
  <2>3. CASE s # x
    <3>1. Accounted(s, js, work, credit, pending, ticket)
      BY <1>3, <1>6, <2>1, SessionsAccounted
    <3>2. pending.ref = s => ticket[s] # 0
      <4>1. Lost(pending, x, "overwritten")[s] = {}
        BY <1>6 DEF Clean
      <4> QED
        BY <1>1, <2>3, <4>1, LostBlames
    <3> QED
      BY <1>3, <1>4, <2>3, <3>1, <3>2 DEF Accounted
  <2> QED
    BY <2>2, <2>3
<1>7. j.ref \in {0, j.sess}
  BY <1>3 DEF SessionsExact
<1>8. SessionsExact'
  BY <1>2, <1>5, <1>6, <1>7, SessionsAccountedNext
<1>9. UnsentBefore
  <2>1. ASSUME NEW s \in Sessions, w[s] \in {"none", "stopping"} PROVE Unsent(s)
    BY <1>4, <2>1 DEF Unsent
  <2> QED
    BY <1>2, <2>1 DEF UnsentBefore, Unsent
<1> QED
  BY <1>2, <1>3, <1>8, <1>9

LEMMA FinalizeExact ==
  ASSUME IInv, SessionsExact, ResultsExact, Elsewhere, MishapsGrow, AfterFinalizeStop
  PROVE  ExactStep
<1>1. Hardwired /\ Scripted
  BY IsScripted
<1>2. PICK what \in {"finalize", "cancel"} :
        Resolved(what) /\ Finalized(Of.s, Of.ref, what = "cancel")
  BY DEF AfterFinalizeStop
<1>3. PICK x, amount, j, w : x = Of.s /\ amount = js.collected /\ j = js' /\ w = work'
  OBVIOUS
<1>4. x \in Sessions /\ work[x] = "stopping"
  BY <1>2, <1>3, StopWaitedFor
<1>5. /\ queue # <<>> /\ queue' = Tail(queue) /\ Head(queue).k = "result"
      /\ Clean(x) => CashOf(x) = amount /\ Closed(x)
  <2>1. /\ queue # <<>> /\ queue' = Tail(queue) /\ Head(queue).k = "result"
        /\ Clean(Of.s) /\ Unsent(Of.s) => CashOf(Of.s) = js.collected /\ Closed(Of.s)
    BY <1>2, ResultBoxed
  <2>2. Unsent(x)
    BY <1>4 DEF Unsent
  <2> QED
    BY <1>3, <2>1, <2>2
<1>6. ticket' = ticket
  BY DEF AfterFinalizeStop
<1>7. CASE CreditAmount(js) > 0 /\ Of.ref # 0
  <2>1. /\ js' = Stopped /\ credit' = [credit EXCEPT ![x] = js.collected]
        /\ pending' = Pending(x, js.collected) /\ mishap' = Lost(pending, x, "overwritten")
        /\ work' = [work EXCEPT ![x] = "calling"]
    BY <1>2, <1>3, <1>7 DEF Finalized, CreditAmount
  <2>2. SessionsExact' /\ UnsentBefore /\ js'.collected = js.collected
    BY <1>3, <1>4, <1>5, <1>6, <2>1, CreditExact
  <2>3. Shows
    BY <1>1, <1>5, <2>2, ResultShows
  <2> QED
    BY <2>2, <2>3 DEF ExactStep
<1>8. CASE ~(CreditAmount(js) > 0 /\ Of.ref # 0)
  <2>1. /\ js' = ResetSession(js) /\ mishap' = ResetBy(x) /\ work' = [work EXCEPT ![x] = "none"]
        /\ UNCHANGED <<credit, ticket, pending>>
    BY <1>2, <1>3, <1>6, <1>8 DEF Finalized
  <2>2. j.sess = js.sess /\ j.ref = 0 /\ j.collected = 0
    BY <1>1, <1>3, <2>1, ResetTyped, ResetShows DEF Scripted
  <2>3. \A s \in Sessions : \/ w[s] = work[s]
                            \/ work[s] = "stopping" /\ w[s] = "none"
                            \/ ~Unsent(s) /\ w[s] \notin {"none", "stopping"}
    BY <1>1, <1>3, <1>4, <2>1 DEF Scripted
  <2>4. /\ \A s \in Sessions : ResetBy(x)[s] \subseteq mishap'[s]
        /\ x \in Sessions /\ Clean(x) /\ Unsent(x) /\ js.ref = x =>
             CashOf(x) = js.collected /\ Closed(x)
    BY <1>3, <1>5, <2>1
  <2>5. SessionsExact' /\ UnsentBefore /\ Empties(js.collected)
    BY <1>3, <2>1, <2>2, <2>3, <2>4, ResetSessions
  <2>6. Shows
    BY <1>1, <1>3, <1>5, <2>2, <2>5, ResultShows
  <2> QED
    BY <2>5, <2>6 DEF ExactStep
<1> QED
  BY <1>7, <1>8

LEMMA LeaveExact ==
  ASSUME IInv, SessionsExact, ResultsExact, Elsewhere, MishapsGrow, AfterBack \/ AfterLeave
  PROVE  ExactStep
<1>1. Hardwired /\ Scripted /\ js \in Screens
  BY IsScripted DEF Scripted
<1>2. PICK x, j, w, r : x = Of.s /\ j = js' /\ w = work' /\ r = ResetSession(js)
  OBVIOUS
<1>3. r \in Screens /\ r.sess = js.sess /\ r.ref = 0 /\ r.collected = 0
  BY <1>1, <1>2, ResetTyped, ResetShows
<1>4. PICK what \in {"back", "leave"} : Resolved(what)
  BY DEF AfterBack, AfterLeave
<1>5. /\ queue # <<>> /\ queue' = Tail(queue) /\ Head(queue).k = "result"
      /\ x \in Sessions /\ Clean(x) /\ Unsent(x) /\ js.ref = x =>
           CashOf(x) = js.collected /\ Closed(x)
  BY <1>2, <1>4, ResultBoxed
<1>6. UNCHANGED <<credit, ticket, pending>>
  BY DEF AfterBack, AfterLeave
<1>7. \A s \in Sessions : ResetBy(x)[s] \subseteq mishap'[s]
  <2>1. \/ mishap' = ResetBy(x)
        \/ mishap' = [y \in Sessions |-> ResetBy(x)[y] \cup LeftBehind(mishap)[y]]
    BY <1>2 DEF AfterBack, AfterLeave
  <2> QED
    BY <2>1
<1>8. /\ j.sess = js.sess /\ j.ref = 0 /\ j.collected = 0
      /\ \A s \in Sessions : w[s] = work[s] \/ (~Unsent(s) /\ w[s] \notin {"none", "stopping"})
  <2>1. CASE AfterBack
    <3>1. w = work /\ \E y : j = [r EXCEPT !.screen = y]
      BY <1>2, <2>1 DEF AfterBack
    <3> QED
      BY <1>3, <3>1 DEF Screens
  <2>2. CASE AfterLeave
    <3>1. Unmount(r, work, <<>>)
      BY <1>2, <2>2 DEF AfterLeave
    <3>2. j.sess = r.sess /\ j.ref = r.ref /\ j.collected = r.collected
      BY <1>2, <1>3, <3>1, UnmountLeaves
    <3>3. \A s \in Sessions : w[s] = work[s] \/ (~Unsent(s) /\ w[s] \notin {"none", "stopping"})
      BY <1>1, <1>2, <1>3, <3>1, UnmountWork DEF Scripted
    <3> QED
      BY <1>3, <3>2, <3>3
  <2> QED
    BY <2>1, <2>2
<1>9. \A s \in Sessions : \/ w[s] = work[s]
                          \/ work[s] = "stopping" /\ w[s] = "none"
                          \/ ~Unsent(s) /\ w[s] \notin {"none", "stopping"}
  BY <1>8
<1>10. SessionsExact' /\ UnsentBefore /\ Empties(js.collected)
  BY <1>2, <1>5, <1>6, <1>7, <1>8, <1>9, ResetSessions
<1>11. Shows
  BY <1>1, <1>2, <1>5, <1>8, <1>10, ResultShows
<1> QED
  BY <1>10, <1>11 DEF ExactStep

LEMMA ScriptExact ==
  ASSUME IInv, SessionsExact, ResultsExact, Script
  PROVE  ExactStep
<1>1. Elsewhere /\ MishapsGrow
  BY IsScripted, ScriptElsewhere
<1> QED
  BY <1>1, EventExact, StopExact, FinalizeExact, LeaveExact DEF Script

----------------------------------------------------------------------------
(* The application dies *)

LEMMA RestartLeaves ==
  ASSUME Hardwired, Scripted, StartsAgree, SessionsExact, Restart
  PROVE  /\ js'.sess = js.sess /\ js'.ref = 0 /\ js'.collected = 0
         /\ UNCHANGED <<cash, credit, pending, ticket>>
         /\ \A s \in Sessions : work'[s] = IF work[s] = "none" THEN "none" ELSE "done"
         /\ \A s \in Sessions : Closed(s) => Closed(s)'
         /\ \A s \in Sessions : Clean(s)' =>
              Clean(s) /\ work[s] # "stopping" /\ ~(js.ref = s /\ work[s] = "none")
<1>1. PICK j \in Screens : /\ j = ResetSession(js) /\ j.collected = 0 /\ j.ref = 0
                           /\ j.sess = js.sess
  BY ResetShows, ResetTyped DEF Scripted
<1>2. \E x : js' = [j EXCEPT !.screen = x, !.inhibited = FALSE]
  BY <1>1 DEF Restart
<1>3. js'.sess = js.sess /\ js'.ref = 0 /\ js'.collected = 0
  BY <1>1, <1>2 DEF Screens
<1>4. /\ UNCHANGED <<cash, credit, pending, ticket>> /\ ReaderRestart
      /\ \A s \in Sessions : work'[s] = IF work[s] = "none" THEN "none" ELSE "done"
      /\ \A s \in Sessions :
           mishap'[s] = IF work[s] = "stopping" \/ (js.ref = s /\ work[s] = "none")
                        THEN mishap[s] \cup {"restart"} ELSE mishap[s]
  BY DEF Restart
<1>5. /\ acceptor'.now = acceptor.now /\ acceptor'.s = acceptor.s /\ (Stacking' => Stacking)
      /\ ~reader'.collecting
  BY <1>4, RestartDevice
<1>6. \A s \in Sessions : Closed(s) => Closed(s)'
  BY <1>5 DEF Closed, Stacking
<1>7. \A s \in Sessions : Clean(s)' =>
        Clean(s) /\ work[s] # "stopping" /\ ~(js.ref = s /\ work[s] = "none")
  BY <1>4 DEF Clean
<1> QED
  BY <1>3, <1>4, <1>6, <1>7

LEMMA RestartSessions ==
  ASSUME Hardwired, Scripted, StartsAgree, SessionsExact, Restart
  PROVE  SessionsExact'
<1>1. PICK j, w, k, p, tk : j = js' /\ w = work' /\ k = credit' /\ p = pending' /\ tk = ticket'
  OBVIOUS
<1>2. /\ j.sess = js.sess /\ j.ref = 0 /\ k = credit /\ p = pending /\ tk = ticket /\ cash' = cash
      /\ \A s \in Sessions : w[s] = IF work[s] = "none" THEN "none" ELSE "done"
      /\ \A s \in Sessions : Closed(s) => Closed(s)'
      /\ \A s \in Sessions : Clean(s)' =>
           Clean(s) /\ work[s] # "stopping" /\ ~(js.ref = s /\ work[s] = "none")
  BY <1>1, RestartLeaves
<1>3. \A s \in Sessions : CashOf(s)' = CashOf(s)
  BY <1>2 DEF CashOf
<1>4. ASSUME NEW s \in Sessions, Clean(s)', s <= j.sess
      PROVE  IF w[s] \in {"none", "stopping"}
             THEN /\ w[s] = "stopping" => s = j.sess
                  /\ j.ref # s => CashOf(s)' = 0 /\ Closed(s)'
                  /\ w[s] = "none" /\ j.ref = s => j.screen = "cash"
             ELSE k[s] = CashOf(s)' /\ Closed(s)' /\ (tk[s] # 0 \/ p.ref = s)
  <2>1. Accounted(s, js, work, credit, pending, ticket)
    BY <1>2, <1>4, SessionsAccounted
  <2>2. s # 0
    BY SessionsAbove
  <2>3. CASE work[s] = "none"
    BY <1>2, <1>3, <1>4, <2>1, <2>2, <2>3 DEF Accounted
  <2>4. CASE work[s] # "none"
    BY <1>2, <1>3, <1>4, <2>1, <2>4 DEF Accounted
  <2> QED
    BY <2>3, <2>4
<1>5. \A s \in Sessions : w[s] # "none" => s <= j.sess
  BY <1>2 DEF SessionsExact
<1> QED
  BY <1>1, <1>2, <1>4, <1>5 DEF SessionsExact, Unsent, Clean, Closed, CashOf, Stacking

LEMMA RestartReader ==
  ASSUME Hardwired, Hardwired', Scripted, StartsAgree, SessionsExact, Restart
  PROVE  ReaderExact' /\ ResultsExact'
<1>1. PICK n, S, c, q : n = acceptor.now /\ S = Last(c, q) /\ c = js'.collected /\ q = queue'
  OBVIOUS
<1>2. /\ acceptor'.now = acceptor.now /\ acceptor'.s = acceptor.s /\ (Stacking' => Stacking)
      /\ reader'.collected = 0 /\ reader'.escrow = 0 /\ turn'.at = "idle" /\ queue' = <<>>
      /\ wire' = <<>>
  BY RestartDevice DEF Restart
<1>3. S = {0}
  <2>1. q \in Seq(Messages) /\ Len(q) + 1 = 1 /\ c = 0
    BY <1>1, <1>2, RestartLeaves DEF Hardwired
  <2> QED
    BY <1>1, <2>1, ShownFirst DEF Last
<1>4. ASSUME Clean(n)', Unsent(n)' PROVE CashOf(n)' = 0 /\ ~(Stacking' /\ acceptor'.s = n)
  <2>1. n \in Sessions
    BY <1>4 DEF Clean
  <2>2. Clean(n) /\ work[n] = "none" /\ js.ref # n
    BY <1>4, <2>1, RestartLeaves DEF Unsent
  <2>3. n <= js.sess
    BY <1>1 DEF StartsAgree
  <2>4. CashOf(n) = 0 /\ Closed(n)
    BY <2>1, <2>2, <2>3 DEF SessionsExact, Unsent
  <2> QED
    BY <1>2, <2>4, RestartLeaves DEF Closed, CashOf
<1>5. ~Arrived'
  BY <1>2 DEF Arrived
<1>6. ReaderExact'
  <2>1. acceptor'.now = n
    BY <1>1, <1>2
  <2>2. ShownLast' = {0}
    BY <1>1, <1>3 DEF ShownLast, ShownAt, Last
  <2> QED
    BY <1>2, <1>4, <1>5, <2>1, <2>2
    DEF ReaderExact, Clean, Unsent, CashOf, Arrived, Stacking, Overtakes, ShownLast, ShownAt
<1>7. ResultsExact'
  <2>1. DOMAIN queue' = {}
    BY <1>2
  <2> QED
    BY <2>1 DEF ResultsExact
<1> QED
  BY <1>6, <1>7

----------------------------------------------------------------------------
(* The money is all credited, in every state *)

LEMMA InitExact ==
  ASSUME Init
  PROVE  Exact
<1>1. Hardwired /\ Scripted
  BY InitEstablishes, IsScripted
<1>2. /\ reader.collected = 0 /\ reader.escrow = 0 /\ ~reader.collecting
      /\ turn.at = "idle" /\ wire = <<>> /\ calls = <<>> /\ queue = <<>> /\ waiting = "no"
      /\ acceptor.at = "empty" /\ acceptor.now = 0 /\ acceptor.s = 0
      /\ js.sess = 0 /\ js.ref = 0 /\ cash = [s \in Sessions |-> NoBills]
      /\ work = [s \in Sessions |-> "none"]
  BY DEF Init, ReaderInit, Reset, Idle
<1>3. \A s \in Sessions : CashOf(s) = 0
  BY <1>2, NoBillsWorth DEF CashOf
<1>4. 0 \notin Sessions /\ ~Clean(0) /\ \A s \in Sessions : s \in Nat /\ ~(s <= 0)
  <2>1. \A s \in Sessions : s \in Nat /\ s # 0
    BY SessionsAbove
  <2> QED
    BY <2>1 DEF Clean
<1>5. WaitingAgrees
  <2>1. 0 <= 0
    OBVIOUS
  <2> QED
    BY <1>2, <1>3, <2>1 DEF WaitingAgrees
<1>6. DOMAIN calls = {} /\ DOMAIN queue = {}
  BY <1>2
<1>7. CallsExact
  BY <1>2, <1>4, <1>6 DEF CallsExact
<1>8. ReaderExact
  BY <1>2, <1>4 DEF ReaderExact
<1>9. ResultsExact
  BY <1>6 DEF ResultsExact
<1>10. SessionsExact
  BY <1>2, <1>4 DEF SessionsExact
<1> QED
  BY <1>5, <1>7, <1>8, <1>9, <1>10 DEF Exact

\* A step of the script or of what is beyond it, that makes no call before its
\* session's.
LEMMA StepExact ==
  ASSUME IInv, IInv', Backed, Exact, Elsewhere, MishapsGrow, ExactStep, CallsExact'
  PROVE  Exact'
<1>1. Hardwired /\ Scripted /\ Hardwired'
  BY IsScripted DEF IInv, TypeOK, MessagesOK, Hardwired, Messages
<1>2. /\ StartsAgree /\ WaitingAgrees /\ ReaderExact /\ ResultsExact /\ SessionsExact
      /\ SessionsExact' /\ UnsentBefore
  BY DEF Backed, Exact, ExactStep
<1>3. WaitingAgrees'
  BY <1>2, ElsewhereWaits
<1>4. PICK c : Handles(c) /\ (js'.collected = c \/ (js'.collected = 0 /\ Empties(c)))
  BY DEF ExactStep, Shows
<1>5. ReaderExact' /\ ResultsExact'
  BY <1>1, <1>2, <1>4, ElsewhereShows
<1> QED
  BY <1>2, <1>3, <1>5 DEF Exact

LEMMA NextExact ==
  ASSUME IInv, IInv', Backed, Exact, [Next]_vars
  PROVE  Exact'
<1>1. Hardwired /\ Scripted
  BY IsScripted
<1>2. Hardwired'
  BY DEF IInv, TypeOK, MessagesOK, Hardwired, Messages
<1>3. /\ PathAgrees /\ StartsAgree
      /\ WaitingAgrees /\ CallsExact /\ ReaderExact /\ ResultsExact /\ SessionsExact
  BY DEF Backed, Exact
<1>4. CASE Hardware
  <2>1. WaitingAgrees'
    BY <1>1, <1>2, <1>3, <1>4, HardwareWaits
  <2>2. CallsExact'
    BY <1>1, <1>2, <1>3, <1>4, HardwareExactCalls
  <2>3. ReaderExact'
    BY <1>1, <1>2, <1>3, <1>4, HardwareReader
  <2>4. ResultsExact'
    BY <1>1, <1>2, <1>3, <1>4, HardwareExactResults
  <2>5. SessionsExact'
    BY <1>1, <1>2, <1>3, <1>4, HardwareSessions
  <2> QED
    BY <2>1, <2>2, <2>3, <2>4, <2>5 DEF Exact
<1>5. CASE Customer \/ Script \/ Api \/ HandleUnlock \/ ResumeApp
  <2>1. Elsewhere /\ MishapsGrow
    BY <1>1, <1>5, CustomerElsewhere, ScriptElsewhere, ApiElsewhere
  <2>2. ExactStep
    BY <1>2, <1>3, <1>5, CustomerExact, ScriptExact, ApiExact
  <2>3. CallsExact'
    <3>1. CASE \E t \in Targets : SelectCash(t)
      BY <1>1, <1>2, <1>3, <2>1, <3>1, SelectExactCalls
    <3>2. CASE ~\E t \in Targets : SelectCash(t)
      <4>1. CallsMade
        BY <1>1, <1>5, <3>2, CustomerCalls, ScriptCalls, ApiCalls
      <4> QED
        BY <1>2, <1>3, <2>1, <4>1, MadeExactCalls
    <3> QED
      BY <3>1, <3>2
  <2> QED
    BY <2>1, <2>2, <2>3, StepExact
<1>6. CASE Restart
  <2>1. WaitingAgrees'
    BY <1>1, <1>3, <1>6, RestartWaits
  <2>2. CallsExact'
    BY <1>1, <1>2, <1>3, <1>6, RestartExactCalls
  <2>3. ReaderExact' /\ ResultsExact'
    BY <1>1, <1>2, <1>3, <1>6, RestartReader
  <2>4. SessionsExact'
    BY <1>1, <1>3, <1>6, RestartSessions
  <2> QED
    BY <2>1, <2>2, <2>3, <2>4 DEF Exact
<1>7. CASE UNCHANGED vars
  <2>1. UNCHANGED <<reader, turn, acceptor, wire, calls, waiting, settled, queue, cash, taken,
                    inserted, faults, mishap, js, work, credit, pending, retry, oos, box, ticket>>
    BY <1>7 DEF vars, readerVars, script
  <2>2. Elsewhere /\ MishapsGrow /\ CallsMade
    BY <2>1 DEF Elsewhere, MishapsGrow, CallsMade
  <2>3. CallsExact'
    BY <1>2, <1>3, <2>2, MadeExactCalls
  <2>4. ExactStep
    <3>1. /\ \A s \in Sessions : work'[s] = work[s]
          /\ \A s \in Sessions : ticket'[s] = ticket[s]
          /\ js' = js /\ queue' = queue /\ UNCHANGED credit /\ pending' = pending
      BY <2>1
    <3> QED
      BY <1>3, <2>2, <3>1, PaidSessions
  <2> QED
    BY <2>2, <2>3, <2>4, StepExact
<1> QED
  BY <1>4, <1>5, <1>6, <1>7 DEF Next

\* In every state of a run, what is in the box of a session without mishap is
\* counted, on its way to the screen, or sent.
THEOREM ExactInvariance == Spec => []Exact
<1>1. Init => Exact
  BY InitExact
<1>2. IInv /\ IInv' /\ Backed /\ Exact /\ [Next]_vars => Exact'
  BY NextExact
<1> QED
  BY <1>1, <1>2, Invariance, BackedInvariance, PTL DEF Spec

LEMMA ExactCredits == IInv /\ Exact => CashIsCredited
<1> SUFFICES ASSUME IInv, Exact, NEW s \in Sessions, Over(s), mishap[s] = {}
             PROVE  ticket[s] = Worth(cash[s])
  BY DEF CashIsCredited
<1>1. RefsAgree /\ SessionsExact
  BY IsScripted DEF Exact
<1>2. /\ s <= js.sess /\ js.ref # s /\ work[s] \in {"none", "done"} /\ s # pending.ref
      /\ Clean(s)
  BY DEF Over, Clean
<1>3. Accounted(s, js, work, credit, pending, ticket)
  BY <1>1, <1>2, SessionsAccounted
<1>4. CASE work[s] = "none"
  <2>1. ticket[s] = 0
    BY <1>1, <1>4 DEF RefsAgree
  <2> QED
    BY <1>2, <1>3, <1>4, <2>1 DEF Accounted, CashOf
<1>5. CASE work[s] = "done"
  <2>1. ticket[s] \in {0, credit[s]}
    BY <1>1 DEF RefsAgree
  <2> QED
    BY <1>2, <1>3, <1>5, <2>1 DEF Accounted, CashOf
<1> QED
  BY <1>2, <1>4, <1>5

\* Every bill in the box has been credited when its session is over, through
\* failed calls, lost answers, restarts with a top-up pending, overpaid bills
\* and bills in flight; only the mishaps named in the code can prevent it.
THEOREM CashAlwaysCredited == Spec => []CashIsCredited
  BY Invariance, ExactInvariance, ExactCredits, PTL

=============================================================================
