----------------------------- MODULE KioskCash -----------------------------
(***************************************************************************)
(* A cash top-up at the kiosk: the screen (TopUpView.vue), the state all   *)
(* screens share (useBillAcceptor.ts), the counter of the bills in the box *)
(* (cashBoxStackReturn.ts, kioskCashBox.ts), the lock (kioskOutOfService)  *)
(* and the top-up that survives a restart, over the bill reader.           *)
(*                                                                         *)
(* The script is one thread: an event, a result or a touch is one step, up *)
(* to the next await.  A session is one bill.start(), and its number is    *)
(* its ref.  The server (WalletLedger) keeps one ticket for a ref.         *)
(***************************************************************************)
EXTENDS BillReader

VARIABLES
  js,       \* screen, sess: sessions begun; the rest is shared by all screens
  work,     \* session -> finalizeCashTopUp: "none", "stopping", "calling",
            \* "refreshing" the balance, "recovering" or "done"
  credit,   \* session -> the amount finalizeTopUp sends
  pending,  \* kiosk-pending-cash-topup
  retry,    \* retryPendingCashTopup's request
  oos,      \* kiosk-out-of-service is active
  box,      \* the counter of each denomination, and what may still change it
  ticket    \* the server: ref -> the amount credited, 0 none

script == <<js, work, credit, pending, retry, oos, box>>
vars == <<readerVars, js, work, credit, pending, retry, oos, box, ticket>>

None == [ref |-> 0, amount |-> 0]
\* An uncredited top-up goes from the slot other than by its own answer.
Lost(slot, s, how) ==
  IF slot.ref \notin {0, s} /\ ticket[slot.ref] = 0 THEN Blame(slot.ref, how) ELSE mishap

\* A fault: the target is kept for the amount.
FaultyPending(s, amount) == [ref |-> s, amount |-> reader.target]
Pending(s, amount) == [ref |-> s, amount |-> amount]

Call(op, what, s) == [op |-> op, then |-> [what |-> what, s |-> s, ref |-> 0]]
Stop(what, s) == Call("stop", what, s)

\* resetSessionState
ResetSession(j) ==
  [j EXCEPT !.collected = 0, !.overpay = FALSE, !.ref = 0, !.inFlight = FALSE]

\* What a reset ends: the money counted in a session nobody finalizes, and the
\* session of another customer.
ResetBy(s) ==
  LET own == IF js.ref = s /\ s # 0 /\ js.collected > 0 /\ work[s] \in {"none", "stopping"}
             THEN Blame(s, "dropped") ELSE mishap
  IN  IF js.ref \notin {0, s} THEN [own EXCEPT ![js.ref] = @ \cup {"wiped"}] ELSE own

----------------------------------------------------------------------------
(* The counter of the box *)

recordStackedBill(b, v) == [b EXCEPT !.counter = Plus(@, v), !.counted = Plus(@, v)]

onBillStacked(b, v, inFlight) ==
  IF v = 0 THEN b
  ELSE IF inFlight THEN [b EXCEPT !.unsure = Plus(@, v)] ELSE recordStackedBill(b, v)

onBillReturned(b, v) ==
  IF v < MinAcceptedThb THEN b
  ELSE IF b.unsure[v] > 0 THEN [b EXCEPT !.unsure = Minus(@, v)]
  ELSE IF b.counted[v] > 0
       THEN [b EXCEPT !.counted = Minus(@, v), !.counter = Minus(@, v)]
       ELSE b

\* A fault: a stack in flight stays pending.
FaultyFlush(b) ==
  [b EXCEPT !.counter = [v \in Bills |-> b.counter[v] + b.unsure[v]],
            !.counted = [v \in Bills |-> b.counted[v] + b.unsure[v]]]

flushPending(b) ==
  [counter |-> [v \in Bills |-> b.counter[v] + b.unsure[v]],
   counted |-> [v \in Bills |-> b.counted[v] + b.unsure[v]],
   unsure |-> NoBills]

----------------------------------------------------------------------------
(* handleBillEvent *)

InFlightAfter(type) ==
  CASE type \in {"escrowPending", "accepted", "overpayPending"} -> TRUE
    [] type \in {"stacked", "returned", "collectComplete"} -> FALSE
    [] OTHER -> js.inFlight

Handled(e) ==
  [js EXCEPT !.inFlight = InFlightAfter(e.k),
             !.collected = IF e.k \in {"escrowPending", "accepted"} THEN @ ELSE e.total,
             !.overpay = CASE e.k = "overpayPending" -> TRUE
                           [] e.k \in {"collecting", "stacked", "returned"} -> FALSE
                           [] OTHER -> @]

\* finalizeCashTopUp up to its first await; the ref is read before it.
FinalizeStarts(j, why) ==
  /\ work' = [work EXCEPT ![j.sess] = "stopping"]
  /\ calls' = Append(calls, [Stop(why, j.sess) EXCEPT !.then.ref = j.ref])

\* A finalize runs once, and only for a customer who is logged in.
ShouldFinalize(j) == j.screen = "cash" /\ work[j.sess] = "none"

HandleEvent ==
  /\ queue # <<>> /\ Head(queue).k # "result"
  /\ queue' = Tail(queue)
  /\ LET e == Head(queue)
         j == Handled(e)
     IN  /\ js' = j
         /\ box' = CASE e.k = "stacked" -> onBillStacked(box, e.amount, e.inFlight)
                     [] e.k = "returned" -> onBillReturned(box, e.amount)
                     [] e.k = "collectComplete" -> flushPending(box)
                     [] OTHER -> box
         /\ IF e.k = "collectComplete" /\ ShouldFinalize(j)
            THEN FinalizeStarts(j, "finalize")
            ELSE UNCHANGED <<work, calls>>
  /\ UNCHANGED <<reader, turn, device, waiting, settled, history, credit, pending,
                 retry, oos, ticket>>

----------------------------------------------------------------------------
(* What follows an await of the reader *)

Resolved(what) ==
  queue # <<>> /\ Head(queue).k = "result" /\ Head(queue).then.what = what
  /\ queue' = Tail(queue)
Of == Head(queue).then
Stopped == [js EXCEPT !.overpay = FALSE, !.inFlight = FALSE]

\* stop() and acceptOverpay, returnOverpay with nothing after them.
AfterStop ==
  /\ \/ Resolved("nothing") /\ js' = Stopped
     \/ Resolved("overpay") /\ js' = [js EXCEPT !.overpay = FALSE]
  /\ UNCHANGED <<reader, turn, device, plugin, settled, history, work, credit,
                 pending, retry, oos, box, ticket>>

\* finalizeCashTopUp after its stop: the amount is what has been collected now,
\* and with nothing to credit the shared state is reset.
CreditAmount(j) == j.collected

Finalized(s, ref, cancelled) ==
  /\ box' = flushPending(box)
  /\ IF CreditAmount(js) > 0 /\ ref # 0
     THEN /\ js' = Stopped
          /\ credit' = [credit EXCEPT ![s] = CreditAmount(js)]
          /\ pending' = Pending(s, CreditAmount(js))
          /\ mishap' = Lost(pending, s, "overwritten")
          /\ work' = [work EXCEPT ![s] = "calling"]
          /\ UNCHANGED calls
     ELSE /\ js' = ResetSession(js)
          /\ mishap' = ResetBy(s)
          /\ work' = [work EXCEPT ![s] = "none"]
          /\ calls' = IF cancelled THEN Append(calls, Stop("leave", s)) ELSE calls
          /\ UNCHANGED <<credit, pending>>

AfterFinalizeStop ==
  /\ \/ Resolved("finalize") /\ Finalized(Of.s, Of.ref, FALSE)
     \/ Resolved("cancel") /\ Finalized(Of.s, Of.ref, TRUE)
  /\ UNCHANGED <<reader, turn, device, waiting, settled, cash, taken, inserted, faults,
                 retry, oos, ticket>>

\* A TopUpView goes away: it stops the reader and forgets its timers.
Unmounts == js.screen \in {"cash", "success", "recovery"}
Unmount(j, w, more) ==
  /\ js' = [j EXCEPT !.screen = IF oos' THEN "oos" ELSE "home"]
  /\ work' = IF js.screen = "recovery" THEN [w EXCEPT ![js.sess] = "done"] ELSE w
  /\ calls' = calls \o more \o (IF Unmounts THEN <<Stop("nothing", js.sess)>> ELSE <<>>)
\* The session on the screen is left with what it has collected.
LeftBehind(m) ==
  IF js.screen = "cash" /\ work[js.sess] = "none"
  THEN [m EXCEPT ![js.sess] = @ \cup {"left"}] ELSE m

\* backToMethods: the view stays, at the choice of a method.
AfterBack ==
  /\ Resolved("back")
  /\ js' = [ResetSession(js) EXCEPT !.screen =
              IF js.sess = Of.s /\ @ = "cash" THEN "home" ELSE @]
  /\ mishap' = ResetBy(Of.s)
  /\ UNCHANGED <<reader, turn, device, plugin, settled, cash, taken, inserted, faults,
                 work, credit, pending, retry, oos, box, ticket>>

\* executeCancelTopup: log out and go home, whoever is at the screen by now.
AfterLeave ==
  /\ Resolved("leave")
  /\ UNCHANGED oos
  /\ Unmount(ResetSession(js), work, <<>>)
  /\ mishap' = IF js.sess = Of.s THEN ResetBy(Of.s)
               ELSE [x \in Sessions |-> ResetBy(Of.s)[x] \cup LeftBehind(mishap)[x]]
  /\ UNCHANGED <<reader, turn, device, waiting, settled, cash, taken, inserted, faults,
                 credit, pending, retry, box, ticket>>

----------------------------------------------------------------------------
(* The customer, and the screen's idle timer *)

Free == UNCHANGED <<reader, turn, device, waiting, settled, queue, cash, taken, inserted,
                    faults, credit, pending, retry, oos, box, ticket>>

\* selectMethod("cash"): bill.start() resets what the screens share.  A stop of
\* the session before may still wait for the device.
SelectCash(target) ==
  /\ js.screen = "home" /\ js.sess + 1 \in Sessions /\ Quiescent
  /\ LET s == js.sess + 1
     IN  /\ js' = [ResetSession(js) EXCEPT !.screen = "cash", !.sess = s, !.ref = s,
                                           !.inhibited = FALSE]
         /\ calls' = Append(calls, [op |-> "start", target |-> target, s |-> s])
  /\ mishap' = [x \in Sessions |->
       IF work[x] = "stopping" THEN mishap[x] \cup {"dropped"} ELSE mishap[x]]
  /\ work' = work
  /\ Free

\* Bound: a touch is not repeated while its call to the reader is under way.
Asked(what) ==
  \/ \E i \in DOMAIN calls : calls[i].op # "start" /\ calls[i].then.what = what
  \/ \E i \in DOMAIN queue : queue[i].k = "result" /\ queue[i].then.what = what
Leaving == Asked("leave") \/ Asked("back") \/ Asked("cancel")

\* cashLocked hides it once a bill has been counted.
Back ==
  /\ js.screen = "cash" /\ js.collected = 0 /\ ~Leaving
  /\ calls' = Append(calls, Stop("back", js.sess))
  /\ UNCHANGED <<js, work, mishap>> /\ Free

\* executeCancelTopup
ExecuteCancel ==
  /\ IF js.collected > 0 /\ ShouldFinalize(js) THEN FinalizeStarts(js, "cancel")
     ELSE calls' = Append(calls, Stop("leave", js.sess)) /\ UNCHANGED work
  /\ UNCHANGED <<js, mishap>> /\ Free

\* The cancel button and the log-out button.
Cancel ==
  /\ js.screen = "cash" /\ ~Leaving
  /\ work[js.sess] = "none" \/ js.collected = 0
  /\ ExecuteCancel

\* The idle timer: cut-off for new bills, then the end of the session.  It does
\* not run while a bill is in flight.
Ticks == js.screen = "cash" /\ ~js.inFlight /\ Quiescent

InhibitAccepting ==
  /\ Ticks /\ ~js.inhibited /\ calls = <<>>
  /\ js' = [js EXCEPT !.inhibited = TRUE]
  /\ calls' = Append(calls, Stop("nothing", js.sess))
  /\ UNCHANGED <<work, mishap>> /\ Free

IdleExpires == Ticks /\ ~Leaving /\ ExecuteCancel

AnswerOverpay(op) ==
  /\ js.screen = "cash" /\ js.overpay /\ work[js.sess] = "none" /\ ~Asked("overpay")
  /\ calls' = Append(calls, Call(op, "overpay", js.sess))
  /\ UNCHANGED <<js, work, mishap>> /\ Free

\* finishAndLogout stops the reader itself, and once more as the view goes.
FinishAndLogout ==
  /\ js.screen = "success" /\ UNCHANGED oos
  /\ Unmount(js, work, <<Stop("nothing", js.sess)>>)
  /\ UNCHANGED <<reader, turn, device, waiting, settled, queue, history, credit,
                 pending, retry, box, ticket>>

----------------------------------------------------------------------------
(* The top-up's request: retryTopupApi tries three times with one ref *)

Request == {[ref |-> s, amount |-> credit[s]] : s \in {x \in Sessions : work[x] = "calling"}}
           \cup ({retry} \ {None})

\* The server credits a ref once (external here, WalletLedger).
ServerCredits(q) ==
  /\ q \in Request /\ ticket[q.ref] = 0
  /\ ticket' = [ticket EXCEPT ![q.ref] = q.amount]
  /\ UNCHANGED <<readerVars, script>>

\* clearPending empties the slot, whatever it holds.
ClearPending(s) == pending' = None /\ mishap' = Lost(pending, s, "cleared")

CallReturns(s) ==
  /\ work[s] = "calling" /\ ticket[s] # 0
  /\ ClearPending(s)
  /\ work' = [work EXCEPT ![s] = "refreshing"]
  /\ UNCHANGED <<reader, turn, device, plugin, settled, queue, cash, taken, inserted,
                 faults, js, credit, retry, oos, box, ticket>>

\* The finally of finalizeCashTopUp: the reset is of what all screens share.
Ends(s, screen) ==
  /\ js' = [ResetSession(js) EXCEPT !.screen =
              IF js.sess = s /\ @ = "cash" THEN screen ELSE @]
  /\ mishap' = ResetBy(s)
  /\ UNCHANGED <<reader, turn, device, plugin, settled, queue, cash, taken, inserted,
                 credit, pending, retry, oos, box, ticket>>

Refreshed(s) ==
  /\ work[s] = "refreshing"
  /\ work' = [work EXCEPT ![s] = "done"]
  /\ Ends(s, "success") /\ UNCHANGED faults

\* The last attempt fails, with or without the top-up made.
CallFails(s) ==
  /\ work[s] = "calling" /\ faults < MaxFaults /\ faults' = faults + 1
  /\ work' = [work EXCEPT ![s] = "recovering"]
  /\ Ends(s, "recovery")

\* After ten seconds the kiosk is locked, whoever is at the screen by now.
EnterOutOfService(s) ==
  /\ work[s] = "recovering"
  /\ oos' = TRUE
  /\ Unmount(js, [work EXCEPT ![s] = "done"], <<Stop("nothing", s)>>)
  /\ mishap' = LeftBehind(mishap)
  /\ UNCHANGED <<reader, turn, device, waiting, settled, queue, cash, taken, inserted,
                 faults, credit, pending, retry, box, ticket>>

\* The technician unlocks the kiosk.
HandleUnlock ==
  /\ js.screen = "oos"
  /\ oos' = FALSE
  /\ js' = [js EXCEPT !.screen = "home"]
  /\ pending' = None /\ mishap' = Lost(pending, 0, "unlocked")
  /\ UNCHANGED <<reader, turn, device, plugin, settled, queue, cash, taken, inserted,
                 faults, work, credit, retry, box, ticket>>

RetryReturns ==
  /\ retry # None /\ ticket[retry.ref] # 0
  /\ ClearPending(retry.ref)
  /\ retry' = None
  /\ UNCHANGED <<reader, turn, device, plugin, settled, queue, cash, taken, inserted,
                 faults, js, work, credit, oos, box, ticket>>

RetryFails ==
  /\ retry # None /\ retry' = None
  /\ UNCHANGED <<readerVars, js, work, credit, pending, oos, box, ticket>>

----------------------------------------------------------------------------
(* The application is paused, or dies *)

\* The resume event: resetKioskSession logs out and leaves for home.
ResumeApp ==
  /\ faults < MaxFaults /\ faults' = faults + 1
  /\ Unmounts /\ UNCHANGED oos
  /\ Unmount(js, work, <<>>)
  /\ mishap' = LeftBehind(mishap)
  /\ UNCHANGED <<reader, turn, device, waiting, settled, queue, cash, taken, inserted,
                 credit, pending, retry, box, ticket>>

\* Only localStorage is left: the pending top-up, the lock and the counter.
\* Unless the kiosk is locked, mounting retries the pending top-up once.
Restart ==
  /\ faults < MaxFaults /\ faults' = faults + 1
  /\ ReaderRestart
  /\ js' = [ResetSession(js) EXCEPT !.screen = IF oos THEN "oos" ELSE "home",
                                    !.inhibited = FALSE]
  /\ mishap' = [s \in Sessions |->
       IF work[s] = "stopping" \/ (js.ref = s /\ work[s] = "none")
       THEN mishap[s] \cup {"restart"} ELSE mishap[s]]
  /\ work' = [s \in Sessions |-> IF work[s] = "none" THEN "none" ELSE "done"]
  /\ retry' = IF oos THEN None ELSE pending
  /\ box' = [box EXCEPT !.counted = NoBills, !.unsure = NoBills]
  /\ UNCHANGED <<cash, taken, inserted, credit, pending, oos, ticket>>

----------------------------------------------------------------------------
Init ==
  /\ ReaderInit
  /\ js = [screen |-> "home", sess |-> 0, ref |-> 0, collected |-> 0, overpay |-> FALSE,
           inFlight |-> FALSE, inhibited |-> FALSE]
  /\ work = [s \in Sessions |-> "none"] /\ credit = [s \in Sessions |-> 0]
  /\ pending = None /\ retry = None /\ oos = FALSE
  /\ box = [counter |-> NoBills, counted |-> NoBills, unsure |-> NoBills]
  /\ ticket = [s \in Sessions |-> 0]

Hardware ==
  /\ ReaderThread \/ PluginThread \/ Device \/ \E v \in Bills : InsertBill(v)
  /\ UNCHANGED <<script, ticket>>

Customer ==
  \/ \E t \in Targets : SelectCash(t)
  \/ Back \/ Cancel \/ InhibitAccepting \/ IdleExpires \/ FinishAndLogout
  \/ AnswerOverpay("accept") \/ AnswerOverpay("return")

Script == HandleEvent \/ AfterStop \/ AfterFinalizeStop \/ AfterBack \/ AfterLeave

Api ==
  \/ \E s \in Sessions :
       \/ CallReturns(s) \/ Refreshed(s) \/ CallFails(s) \/ EnterOutOfService(s)
  \/ \E q \in Request : ServerCredits(q)
  \/ RetryReturns \/ RetryFails

Next == Hardware \/ Customer \/ Script \/ Api \/ HandleUnlock \/ ResumeApp \/ Restart
Spec == Init /\ [][Next]_vars

----------------------------------------------------------------------------
(* Properties *)

Counts == [Bills -> Nat]
Readers == [collecting : BOOLEAN, target : Targets \cup {0}, collected : Nat,
            escrow : Bills \cup {0}, accepted : BOOLEAN]
Acceptors == [enabled : BOOLEAN, at : {"empty", "escrow", "held", "stacking", "returning"},
              bill : Bills \cup {0}, s : Sessions \cup {0}, now : Sessions \cup {0}]
Mishaps == {"late decision", "overtaken", "no answer", "dropped", "wiped", "left",
            "overwritten", "cleared", "unlocked", "restart", "strayed"}
Screens == [screen : {"home", "cash", "success", "recovery", "oos"}, sess : Sessions \cup {0},
            ref : Sessions \cup {0}, collected : Nat, overpay : BOOLEAN,
            inFlight : BOOLEAN, inhibited : BOOLEAN]
Works == {"none", "stopping", "calling", "refreshing", "recovering", "done"}
Slot == [ref : Sessions, amount : Nat \ {0}] \cup {None}
Boxes == [counter : Counts, counted : Counts, unsure : Counts]

\* Types; a slot, a request or an amount is never of nothing, and only a stop
\* waits.
TypeOK ==
  /\ reader \in Readers /\ acceptor \in Acceptors
  /\ waiting \in {"no", "stack", "return"} /\ settled \in BOOLEAN
  /\ waiting # "no" => calls # <<>> /\ Head(calls).op = "stop"
  /\ cash \in [Sessions -> Counts] /\ taken \in [Sessions -> Counts]
  /\ inserted \in 0..MaxBills /\ faults \in 0..MaxFaults
  /\ mishap \in [Sessions -> SUBSET Mishaps]
  /\ js \in Screens /\ work \in [Sessions -> Works] /\ credit \in [Sessions -> Nat]
  /\ \A s \in Sessions : work[s] = "calling" => credit[s] > 0
  /\ pending \in Slot /\ retry \in Slot /\ oos \in BOOLEAN
  /\ box \in Boxes /\ ticket \in [Sessions -> Nat]

\* A bill is credited once: a top-up is at most the bills the device was told
\* to take in its session, however late their 0x10 and 0x11 come, and at most
\* the bills in the box unless a stop gave up waiting for one of them.  (An
\* event that strays into the next session brings the total of the last one.)
CreditBacked ==
  \A s \in {x \in Sessions : "strayed" \notin mishap[x]} :
    /\ ticket[s] <= Worth(taken[s])
    /\ "no answer" \notin mishap[s] => ticket[s] <= Worth(cash[s])

\* The bills of a denomination over all sessions.
Total(f, v) == Sum([s \in Sessions |-> f[s][v]])

\* The counter of the box counts a bill once: it is at most the bills taken,
\* and at most those in the box when no stop gave up waiting.
CounterBacked ==
  \A v \in Bills :
    /\ box.counter[v] <= Total(taken, v)
    /\ (\A s \in Sessions : "no answer" \notin mishap[s]) => box.counter[v] <= Total(cash, v)

\* A ref stands for one amount: whatever is sent or kept to be sent again is
\* what the server has credited under that ref, if it has.
RefHasOneAmount ==
  \A q \in Request \cup ({pending} \ {None}) : ticket[q.ref] \in {0, q.amount}

\* Nothing of a session is under way any more.
Over(s) ==
  /\ s <= js.sess /\ js.ref # s /\ work[s] \in {"none", "done"}
  /\ s \notin {pending.ref, retry.ref}
  /\ Quiescent /\ calls = <<>>
  /\ acceptor.at = "empty" \/ acceptor.s # s

\* Every bill in the box has been credited when its session is over, failed
\* calls, lost answers, restarts with a pending top-up, overpaid bills and
\* bills in flight included.  The ways it may not be are those named by
\* mishap, each of which is a line of the code.
CashIsCredited ==
  \A s \in Sessions : Over(s) /\ mishap[s] = {} => ticket[s] = Worth(cash[s])

\* "stop() settles in-flight bill then collectedThb reflects full cashbox":
\* what a finalize sends is what the session put in the box, when every bill
\* was answered and none was decided after the stop.
StopReflectsBox ==
  \A s \in Sessions :
    work[s] = "calling" /\ mishap[s] \cap {"no answer", "late decision"} = {}
      => credit[s] = Worth(cash[s])
----------------------------------------------------------------------------
(* The inductive invariant *)

Thens == [what : {"nothing", "overpay", "finalize", "cancel", "leave", "back"},
          s : Sessions \cup {0}, ref : Sessions \cup {0}]
Answers == [what : {"overpay"}, s : Sessions \cup {0}, ref : Sessions \cup {0}]
Finalizes(s) == [what : {"finalize", "cancel"}, s : {s}, ref : Sessions \cup {0}]
Stops(thens) == [op : {"stop"}, then : thens]
Calls == Stops(Thens) \cup [op : {"accept", "return"}, then : Answers]
         \cup [op : {"start"}, target : Targets, s : Sessions]
Events == [k : {"escrowPending", "accepted", "overpayPending", "stacked", "returned",
                "collectComplete", "collecting"},
           amount : Bills \cup {0}, total : Nat, inFlight : BOOLEAN]
Results(thens) == [k : {"result"}, then : thens]
Bytes == [b : {"bill"}, v : Bills] \cup [b : {"stacked", "returned"}]
Turns == {Idle} \cup [at : {"decide"}, bill : Bills]
         \cup [at : {"emit"}, s : Sessions \cup {0}, event : Events, complete : BOOLEAN]

\* What is under way between the threads and the device.
MessagesOK ==
  /\ calls \in Seq(Calls) /\ queue \in Seq(Events \cup Results(Thens))
  /\ wire \in Seq(Bytes) /\ turn \in Turns

\* The screen of a session shows one; the recovery screen is that of a call
\* that failed.
ScreenAgrees ==
  /\ js.screen \in {"cash", "recovery"} => js.sess \in Sessions
  /\ js.screen = "recovery" => work[js.sess] = "recovering"

\* The stop a session's finalize waits for: asked of the reader, or its result
\* posted.
Places(q, M) == {i \in DOMAIN q : q[i] \in M}
AtMostOne(S) == \A i, j \in S : i = j
StopAsked(c, s) == Places(c, Stops(Finalizes(s)))
StopDone(q, s) == Places(q, Results(Finalizes(s)))
NoStop(c, q, s) == StopAsked(c, s) = {} /\ StopDone(q, s) = {}
OneStop(c, q, s) ==
  /\ AtMostOne(StopAsked(c, s)) /\ AtMostOne(StopDone(q, s))
  /\ StopAsked(c, s) = {} \/ StopDone(q, s) = {}

\* A session waits for one such stop at a time, and only while it is stopping.
StopsOnce ==
  /\ NoStop(calls, queue, 0)
  /\ \A s \in Sessions :
       /\ OneStop(calls, queue, s)
       /\ work[s] # "stopping" => NoStop(calls, queue, s)

\* Nothing has been sent or kept for a session that has not been finalized, and
\* what has been is its amount.
RefsAgree ==
  /\ \A s \in Sessions :
       /\ work[s] \in {"none", "stopping"} =>
            ticket[s] = 0 /\ pending.ref # s /\ retry.ref # s
       /\ ticket[s] \in {0, credit[s]}
  /\ \A slot \in {pending, retry} : slot # None => slot.amount = credit[slot.ref]

IInv == TypeOK /\ MessagesOK /\ ScreenAgrees /\ StopsOnce /\ RefsAgree

----------------------------------------------------------------------------
(* The inductive invariant of the money: that it is backed *)

CashOf(s) == Worth(cash[s])
TakenOf(s) == Worth(taken[s])
Covers(s, n) == n <= TakenOf(s) /\ ("no answer" \notin mishap[s] => n <= CashOf(s))
Covered(s, n) == s \in Sessions => "strayed" \in mishap[s] \/ Covers(s, n)

Stacked == [b |-> "stacked"]
Returned == [b |-> "returned"]
BillByte(v) == [b |-> "bill", v |-> v]
Stacking == acceptor.at = "stacking"
Empty == acceptor.at = "empty"
Arrived == wire = <<Stacked>>

\* The bill in the device's path is the one the wire tells of, the one the
\* reader is deciding or the one it holds in escrow; before the first session
\* there is none.
PathAgrees ==
  /\ wire \in {<<>>, <<Stacked>>, <<Returned>>}
              \cup {<<BillByte(v)>> : v \in Bills} \cup {<<BillByte(v), Returned>> : v \in Bills}
  /\ ~Empty => wire = <<>> \/ wire = <<BillByte(acceptor.bill)>>
  /\ Empty => \A v \in Bills : wire # <<BillByte(v)>>
  /\ wire # <<>> /\ wire[1].b = "bill" => reader.escrow = 0 /\ turn.at # "decide" /\ ~Stacking
  /\ turn.at = "decide" =>
       /\ reader.escrow = 0 /\ ~Stacking
       /\ IF Empty THEN wire = <<Returned>> ELSE acceptor.bill = turn.bill /\ wire = <<>>
  /\ reader.escrow # 0 =>
       IF Empty THEN wire \in {<<Stacked>>, <<Returned>>}
       ELSE acceptor.bill = reader.escrow /\ (Stacking => acceptor.s = acceptor.now)
  /\ Stacking => wire = <<>> /\ acceptor.s # 0
  /\ ~Empty => acceptor.bill # 0
  /\ acceptor.now = 0 =>
       ~acceptor.enabled /\ Empty /\ wire = <<>> /\ turn.at # "decide" /\ reader.escrow = 0

\* What the reader has counted, and counts with the bill on its way, was taken.
ReaderCovered ==
  /\ acceptor.now # 0 => Covers(acceptor.now, reader.collected)
  /\ reader.escrow # 0 /\ (reader.accepted \/ Stacking) =>
       reader.collected + reader.escrow <= TakenOf(acceptor.now)
  /\ Arrived => Covers(acceptor.now, reader.collected + reader.escrow)
  /\ turn.at = "emit" => turn.s # 0 /\ Covers(turn.s, turn.event.total)

\* Sessions start in their order, and the stop a finalize waits for finds the
\* reader in its session.
Starts == {i \in DOMAIN calls : calls[i].op = "start"}
Begun(s) == acceptor.now = s \/ \E i \in Starts : calls[i].s = s
Finds(i, s) ==
  /\ acceptor.now = s \/ \E j \in Starts : j < i /\ calls[j].s = s
  /\ \A j \in Starts : j < i => calls[j].s <= s
Finalizing(then) == then.what \in {"finalize", "cancel"}
StartsAgree ==
  /\ acceptor.now <= js.sess
  /\ \A i \in Starts : acceptor.now < calls[i].s /\ calls[i].s <= js.sess
  /\ \A i, j \in Starts : i < j => calls[i].s < calls[j].s
  /\ js.screen = "cash" => Begun(js.sess)
  /\ \A i \in DOMAIN calls \ Starts : Finalizing(calls[i].then) => Finds(i, calls[i].then.s)

\* What the screen shows when the messages before the i-th have been handled.
Carries(e) == e.k \notin {"result", "escrowPending", "accepted"}
Carrying(q, i) == {j \in DOMAIN q : j < i /\ Carries(q[j])}
Shown(c, q, i) ==
  {q[j].total : j \in {x \in Carrying(q, i) : \A y \in Carrying(q, i) : y <= x}}
    \cup {n \in {c} : Carrying(q, i) = {}}
ShownAt(i) == Shown(js.collected, queue, i)
ShownLast == ShownAt(Len(queue) + 1)

\* What a finalize finds on the screen, and sends, was taken.
ResultsCovered ==
  /\ \A n \in ShownLast : Covered(acceptor.now, n)
  /\ \A i \in DOMAIN queue : queue[i].k = "result" /\ Finalizing(queue[i].then) =>
       \A n \in ShownAt(i) : Covered(queue[i].then.s, n)
  /\ \A s \in Sessions : Covered(s, credit[s])

\* A bill is counted, about to be, or on its way into the box.
StackedOf(v) == [k : {"stacked"}, amount : {v}, total : Nat, inFlight : BOOLEAN]
OneIf(b) == IF b THEN 1 ELSE 0
Coming(v) ==
  Cardinality(Places(queue, StackedOf(v)))
    + OneIf(turn.at = "emit" /\ turn.event \in StackedOf(v))
CountOf(v) == box.counter[v] + box.unsure[v] + Coming(v)
Accepted(v) == OneIf(reader.escrow = v /\ (reader.accepted \/ Stacking \/ Arrived))
Landed(v) == OneIf(reader.escrow = v /\ Arrived)
AllAnswered == \A s \in Sessions : "no answer" \notin mishap[s]
BoxAgrees ==
  \A v \in Bills :
    /\ CountOf(v) + Accepted(v) <= Total(taken, v)
    /\ AllAnswered => CountOf(v) + Landed(v) <= Total(cash, v)

Backed == PathAgrees /\ ReaderCovered /\ StartsAgree /\ ResultsCovered /\ BoxAgrees

----------------------------------------------------------------------------
(* The inductive invariant of the money: that it is all credited *)

Clean(s) == s \in Sessions /\ mishap[s] = {}
Unsent(s) == work[s] \in {"none", "stopping"}
\* No more of the session's bills goes into the box.
Closed(s) ==
  s <= acceptor.now /\ (acceptor.now = s => ~reader.collecting) /\ ~(Stacking /\ acceptor.s = s)

WaitingAgrees ==
  /\ waiting # "no" => ~reader.collecting /\ turn.at # "decide" /\ (settled => reader.escrow = 0)
  /\ acceptor.s <= acceptor.now /\ (turn.at = "emit" => turn.s <= acceptor.now)
  /\ \A s \in Sessions : s > acceptor.now => CashOf(s) = 0

\* A session's stops find the reader in it.
CallsExact ==
  /\ Clean(js.sess) => Begun(js.sess)
  /\ \A i \in DOMAIN calls \ Starts :
       calls[i].then.what # "nothing" /\ Clean(calls[i].then.s) => Finds(i, calls[i].then.s)

\* The reader's count is what is in the box, and so is what the screen will
\* show unless a result overtakes the event.
ReaderExact ==
  Clean(acceptor.now) /\ Unsent(acceptor.now) =>
    /\ CashOf(acceptor.now) = reader.collected + (IF Arrived THEN reader.escrow ELSE 0)
    /\ Stacking /\ acceptor.s = acceptor.now => reader.escrow # 0
    /\ ~(Overtakes /\ turn.s = acceptor.now) => \A n \in ShownLast : n = reader.collected
    /\ turn.at = "emit" /\ turn.s = acceptor.now => turn.event.total = reader.collected

\* What the script finds on the screen after a stop is what is in the box.
ResultsExact ==
  \A i \in DOMAIN queue :
    queue[i].k = "result" /\ queue[i].then.what \notin {"nothing", "overpay"} =>
      LET s == queue[i].then.s
      IN  Clean(s) /\ Unsent(s) => \A n \in ShownAt(i) : Closed(s) /\ n = CashOf(s)

\* A session that is not finalized is the one on the screen, or empty; one that
\* is sends what it has in the box, or keeps it to be sent.
SessionsExact ==
  /\ js.ref \in {0, js.sess}
  /\ \A s \in Sessions : work[s] # "none" => s <= js.sess
  /\ \A s \in Sessions : Clean(s) /\ s <= js.sess =>
       IF Unsent(s)
       THEN /\ work[s] = "stopping" => s = js.sess
            /\ js.ref # s => CashOf(s) = 0 /\ Closed(s)
            /\ work[s] = "none" /\ js.ref = s => js.screen = "cash"
       ELSE credit[s] = CashOf(s) /\ Closed(s) /\ (ticket[s] # 0 \/ pending.ref = s)

Exact == WaitingAgrees /\ CallsExact /\ ReaderExact /\ ResultsExact /\ SessionsExact
=============================================================================
