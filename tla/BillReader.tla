----------------------------- MODULE BillReader -----------------------------
(***************************************************************************)
(* The kiosk's bill acceptor as its plug-in drives it: Nk77Reader.kt, whose *)
(* reader thread handles the bytes of the device while the plug-in's thread *)
(* runs the calls of the kiosk's script one after the other.               *)
(*                                                                         *)
(* The two threads share the reader's state.  A block under stateLock is   *)
(* one step, so what a thread does between two blocks can be overtaken by  *)
(* the other.  Events and the results of calls reach the script through    *)
(* one queue in the order they are posted, the order that suits the code   *)
(* best.  The device (external) keeps one bill at a time in its path.      *)
(*                                                                         *)
(* cash, taken and mishap are history: what happened to a session's money. *)
(***************************************************************************)
EXTENDS Integers, Sequences, FiniteSets, Counting

CONSTANTS
  Bills,          \* denominations put into the slot, in a unit of money
  MinAcceptedThb, \* the lowest one the kiosk keeps
  Targets,        \* amounts a customer asks to top up
  Sessions,       \* 1..n, one for each cash top-up
  MaxBills,       \* bound on bills put in
  MaxFaults       \* bound on time-outs, transport faults, lost calls, restarts

ASSUME ReaderAssumption ==
  /\ Bills \subseteq Nat \ {0} /\ Targets \subseteq Nat \ {0}
  /\ Sessions = 1..Cardinality(Sessions) /\ IsFiniteSet(Sessions) /\ IsFiniteSet(Bills)
  /\ {MinAcceptedThb, MaxBills, MaxFaults} \subseteq Nat

VARIABLES
  reader,   \* the fields stateLock guards: escrow 0 is no bill
  turn,     \* what the reader thread is in the middle of
  acceptor, \* the device: whether it takes bills, and the bill in its path;
            \* now and s, its session and that of the bill accepted, are history
  wire,     \* bytes of the device not yet read
  calls,    \* calls of the script, the head is being run
  waiting,  \* the head is a stopCollecting that waits: "no", "stack", "return"
  settled,  \* settleLatch has been counted down
  queue,    \* events and results on their way to the script
  cash,     \* the bills of a session in the box
  taken,    \* the bills of a session the device was told to accept
  inserted, faults,
  mishap    \* session -> what went wrong in it

device == <<acceptor, wire>>
plugin == <<calls, waiting>>
history == <<cash, taken, inserted, faults, mishap>>
readerVars == <<reader, turn, acceptor, wire, calls, waiting, settled, queue,
                cash, taken, inserted, faults, mishap>>

Idle == [at |-> "idle"]
Reset == [collecting |-> FALSE, target |-> 0, collected |-> 0, escrow |-> 0,
          accepted |-> FALSE]
Event(type, amount, total, inFlight) ==
  [k |-> type, amount |-> amount, total |-> total, inFlight |-> inFlight]
Post(events) == queue' = queue \o events
Blame(s, what) == [mishap EXCEPT ![s] = @ \cup {what}]
\* What a number of bills of each denomination is worth.
Worth(f) == Sum([v \in Bills |-> v * f[v]])
NoBills == [v \in Bills |-> 0]
Plus(f, v) == [f EXCEPT ![v] = @ + 1]
Minus(f, v) == [f EXCEPT ![v] = IF @ > 0 THEN @ - 1 ELSE 0]
OneMore(f, s, v) == [f EXCEPT ![s] = Plus(@, v)]

----------------------------------------------------------------------------
(* The device *)

Holds(a) == a.at \in {"escrow", "held"}
Accept(a) == IF Holds(a) THEN [a EXCEPT !.at = "stacking", !.s = a.now] ELSE a
Decline(a) == IF Holds(a) THEN [a EXCEPT !.at = "returning"] ELSE a
Hold(a) == IF a.at = "escrow" THEN [a EXCEPT !.at = "held"] ELSE a
Emptied(a) == [a EXCEPT !.at = "empty", !.bill = 0, !.s = 0]
Enable(a) == [a EXCEPT !.enabled = TRUE]
Disable(a) == [a EXCEPT !.enabled = FALSE]

\* Pacing: bytes are handled and events delivered within milliseconds, before
\* the next bill is drawn in or the next session chosen, and long before a bill
\* or a stop has waited for seconds.
Quiescent == turn = Idle /\ wire = <<>> /\ queue = <<>>
BillIsRead == turn.at # "decide" /\ \A i \in DOMAIN wire : wire[i].b # "bill"

\* The device takes a bill in and reports its value: 0x81, then the value.
InsertBill(v) ==
  /\ acceptor.enabled /\ acceptor.at = "empty" /\ inserted < MaxBills /\ Quiescent
  /\ acceptor' = [acceptor EXCEPT !.at = "escrow", !.bill = v]
  /\ wire' = Append(wire, [b |-> "bill", v |-> v])
  /\ inserted' = inserted + 1
  /\ UNCHANGED <<reader, turn, plugin, settled, queue, cash, taken, faults, mishap>>

\* 0x10: the bill is in the box.
StackBill ==
  /\ acceptor.at = "stacking"
  /\ acceptor' = Emptied(acceptor)
  /\ wire' = Append(wire, [b |-> "stacked"])
  /\ cash' = OneMore(cash, acceptor.s, acceptor.bill)
  /\ UNCHANGED <<reader, turn, plugin, settled, queue, taken, inserted, faults, mishap>>

\* 0x11: the bill is back with the customer.  An accepted bill may fail to
\* stack.  The five seconds after which a bill nobody answers goes back never
\* pass: the reader answers every bill it reads.
GiveBack ==
  /\ \/ acceptor.at = "returning" /\ UNCHANGED faults
     \/ acceptor.at = "stacking" /\ faults < MaxFaults /\ faults' = faults + 1
  /\ acceptor' = Emptied(acceptor)
  /\ wire' = Append(wire, [b |-> "returned"])
  /\ UNCHANGED <<reader, turn, plugin, settled, queue, cash, taken, inserted, mishap>>

----------------------------------------------------------------------------
(* The reader thread *)

Byte(b) == turn.at = "idle" /\ wire # <<>> /\ Head(wire).b = b /\ wire' = Tail(wire)

\* handleBillValue reads collecting before it takes the lock.
ReadBill ==
  /\ Byte("bill")
  /\ Post(<<Event("escrowPending", 0, 0, FALSE)>>)
  /\ IF reader.collecting
     THEN turn' = [at |-> "decide", bill |-> Head(wire).v] /\ UNCHANGED acceptor
     ELSE /\ acceptor' = IF reader.accepted THEN acceptor ELSE Decline(acceptor)
          /\ UNCHANGED turn
  /\ UNCHANGED <<reader, plugin, settled, history>>

\* The rest of handleBillValue: decline a small bill, accept one that fits,
\* hold one above the target.
Verdict(v) ==
  IF v < MinAcceptedThb THEN "decline"
  ELSE IF reader.collected + v > reader.target THEN "hold" ELSE "accept"

DecideBill ==
  /\ turn.at = "decide"
  /\ LET v == turn.bill
         verdict == Verdict(v)
     IN  /\ reader' = [reader EXCEPT !.escrow = v, !.accepted = (verdict = "accept")]
         /\ acceptor' = CASE verdict = "decline" -> Decline(acceptor)
                          [] verdict = "hold" -> Hold(acceptor)
                          [] verdict = "accept" -> Accept(acceptor)
         /\ taken' = IF verdict = "accept" THEN OneMore(taken, acceptor.now, v) ELSE taken
         /\ Post(CASE verdict = "decline" -> <<>>
                   [] verdict = "hold" ->
                        <<Event("overpayPending", v, reader.collected, FALSE)>>
                   [] verdict = "accept" ->
                        <<Event("accepted", v, reader.collected, FALSE)>>)
  /\ mishap' = IF ~reader.collecting /\ Verdict(turn.bill) = "accept"
                THEN Blame(acceptor.now, "late decision") ELSE mishap
  /\ turn' = Idle
  /\ UNCHANGED <<wire, plugin, settled, cash, inserted, faults>>

\* onStacked and onReturned up to signalEscrowSettled(): the waiting call may
\* go on before the event is emitted.
Outcome(type, total) ==
  [at |-> "emit", s |-> acceptor.now, event |-> Event(type, reader.escrow, total, FALSE),
   complete |-> type = "stacked" /\ reader.collecting /\ total >= reader.target]

Settle(type, total) ==
  /\ reader' = [reader EXCEPT !.collected = total, !.escrow = 0, !.accepted = FALSE]
  /\ settled' = TRUE
  /\ turn' = Outcome(type, total)
  /\ UNCHANGED <<acceptor, plugin, queue, history>>

ReadStacked == Byte("stacked") /\ Settle("stacked", reader.collected + reader.escrow)
ReadReturned == Byte("returned") /\ Settle("returned", reader.collected)

EmitOutcome ==
  /\ turn.at = "emit"
  /\ IF turn.complete
     THEN /\ Post(<<turn.event, Event("collectComplete", 0, turn.event.total, FALSE)>>)
          /\ reader' = [reader EXCEPT !.collecting = FALSE]
          /\ acceptor' = Disable(acceptor)
     ELSE Post(<<turn.event>>) /\ UNCHANGED <<reader, acceptor>>
  /\ turn' = Idle
  /\ mishap' = IF turn.s # acceptor.now THEN Blame(acceptor.now, "strayed") ELSE mishap
  /\ UNCHANGED <<wire, plugin, settled, cash, taken, inserted, faults>>

----------------------------------------------------------------------------
(* The plug-in's thread *)

Result == [k |-> "result", then |-> Head(calls).then]
Returns == calls' = Tail(calls) /\ waiting' = "no"
Runs(op) == waiting = "no" /\ calls # <<>> /\ Head(calls).op = op
\* A result is posted while the event of a stacked bill is not.
Overtakes == turn.at = "emit" /\ turn.event.k = "stacked" /\ turn.event.amount > 0
BlameIfOvertaken == mishap' = IF Overtakes THEN Blame(turn.s, "overtaken") ELSE mishap

StartCollecting ==
  /\ Runs("start")
  /\ reader' = [Reset EXCEPT !.collecting = TRUE, !.target = Head(calls).target]
  /\ acceptor' = [Enable(acceptor) EXCEPT !.now = Head(calls).s]
  /\ Post(<<Event("collecting", 0, 0, FALSE)>>)
  /\ Returns
  /\ UNCHANGED <<turn, wire, settled, history>>

\* A fault: the stop does not wait for a bill in flight.
FaultyStopCollecting ==
  /\ Runs("stop")
  /\ reader' = [reader EXCEPT !.collecting = FALSE]
  /\ acceptor' = Disable(acceptor)
  /\ Post(<<Result>>) /\ Returns
  /\ BlameIfOvertaken
  /\ UNCHANGED <<turn, wire, settled, cash, taken, inserted, faults>>

StopCollecting ==
  /\ Runs("stop")
  /\ IF reader.escrow # 0
     THEN /\ reader' = [reader EXCEPT !.collecting = FALSE]
          /\ waiting' = IF reader.accepted THEN "stack" ELSE "return"
          /\ acceptor' = IF reader.accepted THEN Disable(acceptor) ELSE Decline(acceptor)
          /\ settled' = FALSE
          /\ UNCHANGED <<calls, queue, mishap>>
     ELSE /\ reader' = [reader EXCEPT !.collecting = FALSE, !.accepted = FALSE]
          /\ acceptor' = Disable(acceptor)
          /\ Post(<<Result>>) /\ Returns
          /\ BlameIfOvertaken
          /\ UNCHANGED settled
  /\ UNCHANGED <<turn, wire, cash, taken, inserted, faults>>

StopSettled ==
  /\ waiting # "no" /\ settled
  /\ acceptor' = Disable(acceptor)
  /\ Post(<<Result>>) /\ Returns
  /\ BlameIfOvertaken
  /\ UNCHANGED <<reader, turn, wire, settled, cash, taken, inserted, faults>>

\* A fault: the bill stays in escrow and is counted again with its 0x10.
FaultyInFlightCredit ==
  IF waiting = "stack" /\ reader.accepted /\ reader.escrow # 0
  THEN [reader EXCEPT !.collected = @ + reader.escrow]
  ELSE reader

\* creditInFlightEscrowIfNeeded
InFlightCredit ==
  IF waiting = "stack" /\ reader.accepted /\ reader.escrow # 0
  THEN [reader EXCEPT !.collected = @ + reader.escrow, !.escrow = 0, !.accepted = FALSE]
  ELSE reader

\* Eight seconds pass without 0x10 or 0x11.
StopTimesOut ==
  /\ waiting # "no" /\ ~settled /\ BillIsRead /\ faults < MaxFaults
  /\ faults' = faults + 1
  /\ reader' = InFlightCredit
  /\ acceptor' = Disable(acceptor)
  /\ Post(IF InFlightCredit = reader THEN <<Result>>
          ELSE <<Event("stacked", reader.escrow, reader'.collected, TRUE), Result>>)
  /\ settled' = TRUE
  /\ Returns
  /\ mishap' = Blame(acceptor.now, "no answer")
  /\ UNCHANGED <<turn, wire, cash, taken, inserted>>

AcceptBill ==
  /\ Runs("accept")
  /\ IF reader.escrow = 0 THEN UNCHANGED <<reader, acceptor, taken>>
     ELSE /\ reader' = [reader EXCEPT !.accepted = TRUE]
          /\ acceptor' = Accept(acceptor)
          /\ taken' = OneMore(taken, acceptor.now, reader.escrow)
  /\ mishap' = IF reader.collecting THEN mishap ELSE Blame(acceptor.now, "late decision")
  /\ Post(<<Result>>) /\ Returns
  /\ UNCHANGED <<turn, wire, settled, cash, inserted, faults>>

ReturnBill ==
  /\ Runs("return")
  /\ reader' = [reader EXCEPT !.accepted = FALSE]
  /\ acceptor' = Decline(acceptor)
  /\ Post(<<Result>>) /\ Returns
  /\ UNCHANGED <<turn, wire, settled, history>>

----------------------------------------------------------------------------
ReaderInit ==
  /\ reader = Reset /\ turn = Idle /\ wire = <<>> /\ calls = <<>> /\ queue = <<>>
  /\ acceptor = [enabled |-> FALSE, at |-> "empty", bill |-> 0, s |-> 0, now |-> 0]
  /\ waiting = "no" /\ settled = TRUE /\ inserted = 0 /\ faults = 0
  /\ cash = [s \in Sessions |-> NoBills] /\ taken = cash
  /\ mishap = [s \in Sessions |-> {}]

ReaderThread == ReadBill \/ DecideBill \/ ReadStacked \/ ReadReturned \/ EmitOutcome
PluginThread ==
  StartCollecting \/ StopCollecting \/ StopSettled \/ StopTimesOut \/ AcceptBill \/ ReturnBill
Device == StackBill \/ GiveBack

\* The application is killed and started again: both threads are new, and the
\* device is reset and left disabled until a session starts.
ReaderRestart ==
  /\ reader' = Reset /\ turn' = Idle /\ wire' = <<>> /\ calls' = <<>> /\ queue' = <<>>
  /\ waiting' = "no" /\ settled' = TRUE
  /\ acceptor' = Disable(Decline(acceptor))
=============================================================================
