-------------------------- MODULE PosQrSaleProofs --------------------------
(* Proofs about PosQrSale, for every value of its constants.                *)
EXTENDS PosQrSale, TLAPS

USE ConstantsAssumption

LEMMA RequestType ==
  /\ Idle \in Requests /\ Idle.at = "idle"
  /\ \A at \in Points, i \in Sales, from \in {"none", "user", "webhook", "inquiry"} :
       /\ Request(at, i, from) \in Requests
       /\ Request(at, i, from).at = at
       /\ Request(at, i, from).on = i
  BY DEF Requests, Idle, Request, Points

\* What a step of one request does to req: it gets the record r, and the other
\* requests are left alone.
Moves(w, r) ==
  /\ req' \in [Workers -> Requests]
  /\ req'[w] = r
  /\ \A v \in Workers : v # w => req'[v] = req[v]

LEMMA StepMoves ==
  ASSUME TypeOK, NEW w \in Workers, NEW r \in Requests, Step(w, r)
  PROVE  Moves(w, r)
  BY DEF Step, TypeOK, Moves

LEMMA GotoMoves ==
  ASSUME TypeOK, NEW w \in Workers, NEW point \in Points, Goto(w, point)
  PROVE  /\ Moves(w, req'[w])
         /\ req'[w].at = point
         /\ req'[w].on = req[w].on
         /\ req'[w].from = req[w].from
         /\ req'[w].receipt = req[w].receipt
  <1> DEFINE r == [req[w] EXCEPT !.at = point]
  <1>1. req[w] \in Requests
    BY DEF TypeOK
  <1>2. /\ r \in Requests /\ r.at = point /\ r.on = req[w].on
        /\ r.from = req[w].from /\ r.receipt = req[w].receipt
    BY <1>1 DEF Requests
  <1>3. Moves(w, r)
    BY <1>2, StepMoves DEF Goto
  <1> HIDE DEF r
  <1>4. QED
    BY <1>2, <1>3 DEF Moves

LEMMA IdleMoves ==
  ASSUME TypeOK, NEW w \in Workers, Step(w, Idle)
  PROVE  Moves(w, req'[w]) /\ req'[w].at = "idle"
  BY RequestType, StepMoves DEF Moves

LEMMA ReplyMoves ==
  ASSUME TypeOK, NEW w \in Workers, req[w].on \in Sales, Reply(w)
  PROVE  /\ Moves(w, req'[w]) /\ req'[w].at = "idle"
         /\ acked' \in [Sales -> BOOLEAN]
  <1>1. acked' \in [Sales -> BOOLEAN]
    BY DEF Reply, TypeOK
  <1>2. QED
    BY <1>1, IdleMoves DEF Reply

LEMMA ArriveMoves ==
  ASSUME TypeOK, NEW w \in Workers, NEW i \in Sales, NEW at \in Points,
         NEW from \in {"none", "user", "webhook", "inquiry"},
         Arrives(w, Request(at, i, from))
  PROVE  /\ Moves(w, req'[w])
         /\ req'[w].at = at
         /\ req'[w].on = i
         /\ req[w].at = "idle"
  BY RequestType, StepMoves DEF Arrives, Moves

LEMMA InitHolds == Init => SalesInv
  BY DEF Init, SalesInv, TypeOK, RequestsKnowSales, CreationsAgree, ReportsAgree, ClaimsAgree,
         SalesAgree, ReceiptIsPaid, ConfirmedIsStamped, Idle, Requests, Points, CreatePoints,
         SalePoints

-----------------------------------------------------------------------------
(* Steps that touch no sale *)

\* A step that leaves the intents, the receipts and the gateway as they are
\* keeps what the invariant says about sales alone.
Quiet == UNCHANGED <<intentVars, receipts, gateway>> /\ (lostReads' = 0 => lostReads = 0)

LEMMA QuietSales ==
  ASSUME SalesInv, Quiet
  PROVE  SalesAgree' /\ ReceiptIsPaid' /\ ConfirmedIsStamped'
  BY DEF SalesInv, Quiet, intentVars, SalesAgree, ReceiptIsPaid, ConfirmedIsStamped

\* The moves of one request that the invariant allows without a change of the
\* sale: it ends, or goes on where it may.
QuietMove(w) ==
  LET point == req'[w].at
      i == req'[w].on
  IN \/ point = "idle"
     \/ /\ i \in Sales /\ status[i] # "none"
        /\ \/ point \in {"inquiry_wait", "cancel", "cancel_log"}
           \/ point = "claim" /\ gateway[i] = "completed"
           \/ point = "hook_cancel" /\ gateway[i] = "failed"
           \/ /\ point \in CreatePoints /\ req[w].at \in CreatePoints
              /\ req[w].on = i
              /\ point \in {"create_log", "create_gateway"} =>
                   req[w].at \in {"create_log", "create_gateway"}
           \/ /\ point \in SalePoints /\ req[w].at \in SalePoints
              /\ req[w].on = i /\ req'[w].receipt = req[w].receipt
              /\ point \in Committed => req[w].at \in Committed
              /\ point \notin Committed =>
                   req[w].at \notin Committed \/ lostReads' # 0

LEMMA QuietMoveKeeps ==
  ASSUME SalesInv, Quiet, NEW w \in Workers, Moves(w, req'[w]), QuietMove(w)
  PROVE  RequestsKnowSales' /\ CreationsAgree' /\ ReportsAgree' /\ ClaimsAgree'
  <1> USE DEF SalesInv, Quiet, intentVars, Moves, QuietMove
  <1>1. RequestsKnowSales'
    BY DEF RequestsKnowSales, CreatePoints, SalePoints
  <1>2. CreationsAgree'
    BY DEF CreationsAgree, CreatePoints, SalePoints
  <1>3. ReportsAgree'
    BY DEF ReportsAgree, CreatePoints, SalePoints
  <1>4. ClaimsAgree'
    BY DEF ClaimsAgree, CreatePoints, SalePoints, Committed
  <1>5. QED
    BY <1>1, <1>2, <1>3, <1>4

\* Requests that arrive, and a callback for a sale already confirmed.
LEMMA ArriveQuietly ==
  ASSUME SalesInv, NEW w \in Workers, NEW i \in Sales,
         \/ HookReceive(w, i) \/ HookKnown(w, i) \/ InquiryAsk(w, i)
         \/ CancelAsk(w, i) \/ Abandon(w, i)
  PROVE  SalesInv'
  <1> USE DEF counters, intentVars
  <1>0. TypeOK
    BY DEF SalesInv
  <1>1. CASE HookKnown(w, i)
    <2>1. Quiet /\ UNCHANGED req
      BY <1>1 DEF HookKnown, Quiet
    <2>2. TypeOK'
      BY <1>0, <1>1 DEF HookKnown, TypeOK
    <2>3. RequestsKnowSales' /\ CreationsAgree' /\ ReportsAgree' /\ ClaimsAgree'
      BY <2>1 DEF SalesInv, Quiet, RequestsKnowSales, CreationsAgree, ReportsAgree, ClaimsAgree
    <2>4. QED
      BY <2>1, <2>2, <2>3, QuietSales DEF SalesInv
  <1>2. CASE HookReceive(w, i) \/ InquiryAsk(w, i) \/ CancelAsk(w, i) \/ Abandon(w, i)
    <2>1. Quiet /\ UNCHANGED <<log, acked, faults, lostReads>> /\ status[i] # "none"
      BY <1>2 DEF HookReceive, InquiryAsk, CancelAsk, Abandon, Quiet, Offered
    <2>2. \E at \in {"claim", "hook_cancel", "inquiry_wait", "cancel", "cancel_log"},
             from \in {"none", "user", "webhook", "inquiry"} :
            /\ Arrives(w, Request(at, i, from))
            /\ at = "claim" => gateway[i] = "completed"
            /\ at = "hook_cancel" => gateway[i] = "failed"
      BY <1>2 DEF HookReceive, InquiryAsk, CancelAsk, Abandon
    <2>3. PICK at \in {"claim", "hook_cancel", "inquiry_wait", "cancel", "cancel_log"},
               from \in {"none", "user", "webhook", "inquiry"} :
            /\ Arrives(w, Request(at, i, from))
            /\ at = "claim" => gateway[i] = "completed"
            /\ at = "hook_cancel" => gateway[i] = "failed"
      BY <2>2
    <2>4. at \in Points
      BY DEF Points
    <2>5. Moves(w, req'[w]) /\ req'[w].at = at /\ req'[w].on = i
      BY <1>0, <2>3, <2>4, ArriveMoves
    <2>6. QuietMove(w)
      BY <2>1, <2>3, <2>5 DEF QuietMove
    <2>7. TypeOK'
      BY <1>0, <2>1, <2>5 DEF TypeOK, Quiet, Moves
    <2>8. QED
      BY <2>1, <2>5, <2>6, <2>7, QuietMoveKeeps, QuietSales DEF SalesInv
  <1>3. QED
    BY <1>1, <1>2

\* The steps of a request in flight that touch no sale.
LEMMA RunQuietly ==
  ASSUME SalesInv, NEW w \in Workers, NEW i \in Sales,
         \/ CreateLog(w, i) \/ InquiryAnswer(w, i) \/ CancelLog(w, i) \/ ClaimSkip(w, i)
         \/ CheckoutThrows(w, i) \/ ReadReceipt(w, i) \/ LogOutcome(w, i)
         \/ ReadReceiptFails(w, i) \/ CancelLogFails(w, i)
  PROVE  SalesInv'
  <1> USE DEF counters, intentVars, On
  <1>0. TypeOK /\ RequestsKnowSales /\ ClaimsAgree
    BY DEF SalesInv
  <1>1. Quiet
    BY <1>0 DEF Quiet, TypeOK, CreateLog, InquiryAnswer, CancelLog, ClaimSkip, CheckoutThrows,
                ReadReceipt, LogOutcome, ReadReceiptFails, CancelLogFails
  <1>2. req[w].at # "idle" /\ req[w].on = i /\ status[i] # "none"
    BY <1>0 DEF RequestsKnowSales, CreateLog, InquiryAnswer, CancelLog, ClaimSkip,
                CheckoutThrows, ReadReceipt, LogOutcome, ReadReceiptFails, CancelLogFails
  <1>3. /\ log' \in [Sales -> {"none", "pending", "success", "failed", "cancelled"}]
        /\ faults' \in 0..MaxFaults
        /\ lostReads' \in 0..MaxLostReads
    BY <1>0 DEF TypeOK, CreateLog, InquiryAnswer, CancelLog, ClaimSkip, CheckoutThrows,
                ReadReceipt, LogOutcome, ReadReceiptFails, CancelLogFails
  <1>4. Moves(w, req'[w]) /\ QuietMove(w) /\ acked' \in [Sales -> BOOLEAN]
    <2>1. CASE CancelLog(w, i) \/ ClaimSkip(w, i) \/ CancelLogFails(w, i)
      BY <1>0, <1>2, <2>1, ReplyMoves DEF CancelLog, ClaimSkip, CancelLogFails, QuietMove
    <2>2. CASE InquiryAnswer(w, i)
      <3>1. acked' \in [Sales -> BOOLEAN]
        BY <1>0, <2>2 DEF InquiryAnswer, TypeOK
      <3>2. CASE Step(w, Idle)
        BY <1>0, <3>1, <3>2, IdleMoves DEF QuietMove
      <3>3. CASE gateway[i] = "completed" /\ Goto(w, "claim")
        BY <1>0, <1>2, <3>1, <3>3, GotoMoves DEF QuietMove, Points
      <3>4. CASE Goto(w, "cancel")
        BY <1>0, <1>2, <3>1, <3>4, GotoMoves DEF QuietMove, Points
      <3>5. QED
        BY <2>2, <3>2, <3>3, <3>4 DEF InquiryAnswer
    <2>3. CASE \/ CreateLog(w, i) \/ CheckoutThrows(w, i) \/ ReadReceipt(w, i)
               \/ LogOutcome(w, i) \/ ReadReceiptFails(w, i)
      <3>1. acked' \in [Sales -> BOOLEAN]
        BY <1>0, <2>3 DEF CreateLog, CheckoutThrows, ReadReceipt, LogOutcome,
                          ReadReceiptFails, TypeOK
      <3>2. CASE CreateLog(w, i)
        BY <1>0, <1>2, <3>1, <3>2, GotoMoves
           DEF CreateLog, QuietMove, Points, CreatePoints, SalePoints
      <3>3. CASE CheckoutThrows(w, i)
        BY <1>0, <1>2, <3>1, <3>3, GotoMoves
           DEF CheckoutThrows, QuietMove, Points, SalePoints, Committed
      <3>4. CASE ReadReceipt(w, i)
        BY <1>0, <1>2, <3>1, <3>4, GotoMoves
           DEF ReadReceipt, QuietMove, Points, SalePoints, Committed
      <3>5. CASE LogOutcome(w, i)
        BY <1>0, <1>2, <3>1, <3>5, GotoMoves
           DEF LogOutcome, QuietMove, Points, SalePoints, Committed
      <3>6. CASE ReadReceiptFails(w, i)
        <4>1. lostReads' # 0
          BY <1>0, <3>6 DEF ReadReceiptFails, TypeOK
        <4>2. QED
          BY <1>0, <1>2, <3>1, <3>6, <4>1, GotoMoves
             DEF ReadReceiptFails, QuietMove, Points, SalePoints, Committed
      <3>7. QED
        BY <2>3, <3>2, <3>3, <3>4, <3>5, <3>6
    <2>4. QED
      BY <2>1, <2>2, <2>3
  <1>5. TypeOK'
    BY <1>0, <1>1, <1>3, <1>4 DEF TypeOK, Quiet, Moves
  <1>6. QED
    BY <1>1, <1>4, <1>5, QuietMoveKeeps, QuietSales DEF SalesInv

\* A database error moves a request on, or ends it; a crash ends them all.
LEMMA FaultsQuietly ==
  ASSUME SalesInv, ServerCrash \/ \E w \in Workers : RequestFails(w)
  PROVE  SalesInv'
  <1> USE DEF intentVars
  <1>0. TypeOK /\ RequestsKnowSales /\ ClaimsAgree
    BY DEF SalesInv
  <1>1. Quiet
    BY DEF Quiet, ServerCrash, RequestFails
  <1>2. CASE ServerCrash
    <2>1. /\ req' \in [Workers -> Requests]
          /\ \A v \in Workers : req'[v].at = "idle"
      BY <1>2, RequestType DEF ServerCrash
    <2>2. TypeOK'
      BY <1>0, <1>2, <2>1 DEF ServerCrash, TypeOK
    <2>3. RequestsKnowSales' /\ CreationsAgree' /\ ReportsAgree' /\ ClaimsAgree'
      BY <2>1 DEF RequestsKnowSales, CreationsAgree, ReportsAgree, ClaimsAgree,
                  CreatePoints, SalePoints
    <2>4. QED
      BY <1>1, <2>2, <2>3, QuietSales DEF SalesInv
  <1>3. ASSUME NEW w \in Workers, RequestFails(w)
        PROVE  SalesInv'
    <2>1. req[w].at # "idle" /\ req[w].on \in Sales /\ status[req[w].on] # "none"
      BY <1>0, <1>3 DEF RequestFails, RequestsKnowSales
    <2>2. AfterError(w) \in Points
      BY DEF AfterError, Points, CreatePoints, SalePoints
    <2>3. Moves(w, req'[w]) /\ QuietMove(w)
      <3>1. CASE AfterError(w) = "idle"
        BY <1>0, <1>3, <3>1, IdleMoves DEF RequestFails, QuietMove
      <3>2. CASE AfterError(w) # "idle"
        <4>1. Goto(w, AfterError(w))
          BY <1>3, <3>2 DEF RequestFails
        <4>2. /\ Moves(w, req'[w]) /\ req'[w].at = AfterError(w)
              /\ req'[w].on = req[w].on /\ req'[w].receipt = req[w].receipt
          BY <1>0, <2>2, <4>1, GotoMoves
        <4>3. \/ req[w].at = "create_log" /\ AfterError(w) = "create_gateway"
              \/ req[w].at = "create_store" /\ AfterError(w) = "create_cancel"
              \/ req[w].at = "create_cancel" /\ AfterError(w) = "cancel_log"
              \/ req[w].at = "checkout" /\ AfterError(w) = "log_failed"
              \/ req[w].at = "log_success" /\ AfterError(w) = "stamp"
              \/ req[w].at = "log_failed" /\ AfterError(w) = "release"
          BY <3>2 DEF AfterError
        <4>4. QED
          BY <2>1, <4>2, <4>3 DEF QuietMove, CreatePoints, SalePoints, Committed
      <3>3. QED
        BY <3>1, <3>2
    <2>4. TypeOK'
      BY <1>0, <1>3, <2>3 DEF RequestFails, TypeOK, Moves
    <2>5. QED
      BY <1>1, <2>3, <2>4, QuietMoveKeeps, QuietSales DEF SalesInv
  <1>4. QED
    BY <1>2, <1>3

-----------------------------------------------------------------------------
(* Creating a sale *)

LEMMA CreateInsertKeeps ==
  ASSUME SalesInv, NEW w \in Workers, NEW i \in Sales, CreateInsert(w, i)
  PROVE  SalesInv'
  <1> USE DEF counters
  <1>0. TypeOK
    BY DEF SalesInv
  <1>1. /\ Moves(w, req'[w]) /\ req'[w].at = "create_log" /\ req'[w].on = i
        /\ req[w].at = "idle"
    BY <1>0, ArriveMoves DEF CreateInsert, Points, CreatePoints
  <1>2. TypeOK'
    BY <1>0, <1>1 DEF CreateInsert, TypeOK, Moves
  <1>3. /\ status[i] = "none" /\ gateway[i] = "absent" /\ ~txnNo[i]
        /\ status' = [status EXCEPT ![i] = "pending"]
        /\ UNCHANGED <<txnNo, via, stamp, receipts, gateway, lostReads>>
    BY DEF SalesInv, SalesAgree, CreateInsert
  <1>4. \A v \in Workers : v # w /\ req'[v].at # "idle" =>
          req'[v] = req[v] /\ req[v].on # i /\ status'[req[v].on] = status[req[v].on]
    BY <1>0, <1>1, <1>3 DEF SalesInv, RequestsKnowSales, Moves, TypeOK
  <1>5. RequestsKnowSales'
    BY <1>0, <1>1, <1>3, <1>4 DEF SalesInv, RequestsKnowSales, TypeOK
  <1>6. CreationsAgree' /\ ReportsAgree' /\ ClaimsAgree'
    BY <1>1, <1>3, <1>4 DEF SalesInv, CreationsAgree, ReportsAgree, ClaimsAgree, CreatePoints,
                            SalePoints
  <1>7. SalesAgree' /\ ReceiptIsPaid' /\ ConfirmedIsStamped'
    BY <1>0, <1>3 DEF SalesInv, SalesAgree, ReceiptIsPaid, ConfirmedIsStamped, TypeOK
  <1>8. QED
    BY <1>2, <1>5, <1>6, <1>7 DEF SalesInv

LEMMA CreateAtGatewayKeeps ==
  ASSUME SalesInv, NEW w \in Workers, NEW i \in Sales, CreateAtGateway(w, i)
  PROVE  SalesInv'
  <1> USE DEF counters, intentVars, On
  <1>0. TypeOK
    BY DEF SalesInv
  <1>1. req[w].on = i /\ req[w].at = "create_gateway" /\ gateway[i] = "absent" /\ ~txnNo[i]
    BY DEF CreateAtGateway, SalesInv, CreationsAgree, CreatePoints
  <1>2. /\ Moves(w, req'[w]) /\ req'[w].at \in {"create_store", "create_cancel"}
        /\ req'[w].on = i
    BY <1>0, <1>1, GotoMoves DEF CreateAtGateway, Points, CreatePoints
  <1>3. /\ UNCHANGED <<intentVars, receipts, log, acked, counters>>
        /\ gateway' \in {gateway, [gateway EXCEPT ![i] = "open"]}
    BY DEF CreateAtGateway
  <1>4. TypeOK'
    BY <1>0, <1>2, <1>3 DEF TypeOK, Moves
  <1>5. RequestsKnowSales'
    BY <1>1, <1>2, <1>3 DEF SalesInv, RequestsKnowSales, Moves
  <1>6. CreationsAgree'
    BY <1>0, <1>1, <1>2, <1>3 DEF SalesInv, CreationsAgree, RequestsKnowSales, CreatePoints,
                                  Moves, TypeOK
  <1>7. ReportsAgree' /\ ClaimsAgree'
    BY <1>0, <1>1, <1>2, <1>3 DEF SalesInv, ReportsAgree, ClaimsAgree, RequestsKnowSales,
                                  CreatePoints, SalePoints, Moves, TypeOK
  <1>8. SalesAgree' /\ ReceiptIsPaid' /\ ConfirmedIsStamped'
    <2>1. status[i] # "none"
      BY <1>1 DEF SalesInv, RequestsKnowSales
    <2>2. QED
      BY <1>0, <1>1, <1>3, <2>1 DEF SalesInv, SalesAgree, ReceiptIsPaid, ConfirmedIsStamped,
                                    TypeOK
  <1>9. QED
    BY <1>4, <1>5, <1>6, <1>7, <1>8 DEF SalesInv

LEMMA CreateStoreKeeps ==
  ASSUME SalesInv, NEW w \in Workers, NEW i \in Sales, CreateStore(w, i)
  PROVE  SalesInv'
  <1> USE DEF counters, On
  <1>0. TypeOK
    BY DEF SalesInv
  <1>1. req[w].on = i /\ req[w].at = "create_store" /\ status[i] # "none"
    BY DEF CreateStore, SalesInv, RequestsKnowSales
  <1>2. Moves(w, req'[w]) /\ req'[w].at = "idle" /\ acked' \in [Sales -> BOOLEAN]
    BY <1>0, <1>1, ReplyMoves DEF CreateStore
  <1>3. /\ txnNo' = [txnNo EXCEPT ![i] = TRUE]
        /\ UNCHANGED <<status, via, stamp, receipts, log, gateway, faults, lostReads>>
    BY DEF CreateStore
  <1>4. TypeOK'
    BY <1>0, <1>2, <1>3 DEF TypeOK, Moves
  <1>5. RequestsKnowSales' /\ ReportsAgree' /\ ClaimsAgree'
    BY <1>2, <1>3 DEF SalesInv, RequestsKnowSales, ReportsAgree, ClaimsAgree, SalePoints, Moves
  <1>6. CreationsAgree'
    BY <1>0, <1>1, <1>2, <1>3 DEF SalesInv, CreationsAgree, RequestsKnowSales, CreatePoints,
                                  Moves, TypeOK
  <1>7. SalesAgree' /\ ReceiptIsPaid' /\ ConfirmedIsStamped'
    BY <1>0, <1>1, <1>3 DEF SalesInv, SalesAgree, ReceiptIsPaid, ConfirmedIsStamped, TypeOK
  <1>8. QED
    BY <1>4, <1>5, <1>6, <1>7 DEF SalesInv

-----------------------------------------------------------------------------
(* Cancelling a sale *)

\* A sale that was never stamped may be cancelled: nothing else depends on
\* which status it has.
LEMMA CancelKeeps ==
  ASSUME SalesInv, NEW w \in Workers, NEW i \in Sales,
         CreateCancel(w, i) \/ HookCancel(w, i) \/ Cancel(w, i)
  PROVE  SalesInv'
  <1> USE DEF counters, On
  <1>0. TypeOK
    BY DEF SalesInv
  <1>1. req[w].on = i /\ req[w].at # "idle" /\ status[i] # "none"
    BY DEF CreateCancel, HookCancel, Cancel, SalesInv, RequestsKnowSales
  <1>2. /\ Moves(w, req'[w]) /\ acked' \in [Sales -> BOOLEAN]
        /\ req'[w].at \in {"idle", "cancel_log"}
        /\ req'[w].at # "idle" => req'[w].on = i
    <2>1. CASE HookCancel(w, i)
      BY <1>0, <1>1, <2>1, ReplyMoves DEF HookCancel
    <2>2. CASE CreateCancel(w, i) \/ Cancel(w, i)
      BY <1>0, <1>1, <2>2, GotoMoves DEF CreateCancel, Cancel, Points, TypeOK
    <2>3. QED
      BY <2>1, <2>2
  <1>3. /\ status' \in {status, [status EXCEPT ![i] = "cancelled"]}
        /\ status' # status => stamp[i] = 0
        /\ UNCHANGED <<txnNo, via, stamp, receipts, log, gateway, faults, lostReads>>
    <2>1. CASE CreateCancel(w, i) \/ HookCancel(w, i)
      <3>1. gateway[i] # "completed"
        BY <2>1 DEF CreateCancel, HookCancel, SalesInv, CreationsAgree, ReportsAgree,
                    CreatePoints, SalesAgree
      <3>2. stamp[i] = 0
        BY <1>0, <3>1 DEF SalesInv, ReceiptIsPaid, SalesAgree, TypeOK
      <3>3. QED
        BY <2>1, <3>2 DEF CreateCancel, HookCancel
    <2>2. CASE Cancel(w, i)
      <3>1. CASE status[i] = "pending"
        <4>1. stamp[i] = 0
          BY <1>0, <3>1 DEF SalesInv, ConfirmedIsStamped, SalesAgree, TypeOK
        <4>2. QED
          BY <2>2, <3>1, <4>1 DEF Cancel
      <3>2. CASE status[i] # "pending"
        <4>1. status' = status
          BY <1>0, <2>2, <3>2 DEF Cancel, TypeOK
        <4>2. QED
          BY <2>2, <4>1 DEF Cancel
      <3>3. QED
        BY <3>1, <3>2
    <2>3. QED
      BY <2>1, <2>2
  <1>4. TypeOK'
    BY <1>0, <1>2, <1>3 DEF TypeOK, Moves
  <1>5. RequestsKnowSales'
    BY <1>0, <1>1, <1>2, <1>3 DEF SalesInv, RequestsKnowSales, Moves, TypeOK
  <1>6. CreationsAgree' /\ ReportsAgree' /\ ClaimsAgree'
    BY <1>2, <1>3 DEF SalesInv, CreationsAgree, ReportsAgree, ClaimsAgree, CreatePoints,
                      SalePoints, Moves
  <1>7. SalesAgree' /\ ReceiptIsPaid' /\ ConfirmedIsStamped'
    BY <1>0, <1>1, <1>3 DEF SalesInv, SalesAgree, ReceiptIsPaid, ConfirmedIsStamped, TypeOK
  <1>8. QED
    BY <1>4, <1>5, <1>6, <1>7 DEF SalesInv

-----------------------------------------------------------------------------
(* confirmPosQrSale, and the gateway *)

\* Phase A takes a sale nobody holds, which has no receipt yet.
LEMMA ClaimKeeps ==
  ASSUME SalesInv, NEW w \in Workers, NEW i \in Sales, Claim(w, i)
  PROVE  SalesInv'
  <1> USE DEF counters, On
  <1>0. TypeOK
    BY DEF SalesInv
  <1>1. /\ req[w].on = i /\ req[w].at = "claim" /\ status[i] # "none"
        /\ gateway[i] = "completed" /\ via[i] \in {"none", "failed"} /\ stamp[i] = 0
    <2>1. req[w].on = i /\ req[w].at = "claim" /\ stamp[i] = 0 /\ via[i] # "claimed"
      BY DEF Claim, Skipped
    <2>2. status[i] # "none" /\ gateway[i] = "completed"
      BY <2>1 DEF SalesInv, RequestsKnowSales, ReportsAgree
    <2>3. via[i] # "webhook"
      BY <2>1 DEF SalesInv, SalesAgree
    <2>4. QED
      BY <1>0, <2>1, <2>2, <2>3 DEF TypeOK
  <1>2. Moves(w, req'[w]) /\ req'[w].at = "checkout" /\ req'[w].on = i
    BY <1>0, <1>1, GotoMoves DEF Claim, Points, SalePoints
  <1>3. /\ via' = [via EXCEPT ![i] = "claimed"]
        /\ UNCHANGED <<status, txnNo, stamp, receipts, log, gateway, acked, faults, lostReads>>
    BY DEF Claim
  <1>4. TypeOK'
    BY <1>0, <1>2, <1>3 DEF TypeOK, Moves
  <1>5. RequestsKnowSales' /\ CreationsAgree' /\ ReportsAgree'
    BY <1>1, <1>2, <1>3 DEF SalesInv, RequestsKnowSales, CreationsAgree, ReportsAgree,
                            CreatePoints, Moves
  <1>6. ClaimsAgree'
    <2>1. \A v \in Workers : req[v].at \in SalePoints => req[v].on # i
      BY <1>1 DEF SalesInv, ClaimsAgree
    <2>2. lostReads = 0 => receipts[i] = 0
      BY <1>1 DEF SalesInv, SalesAgree
    <2>3. QED
      BY <1>0, <1>1, <1>2, <1>3, <2>1, <2>2
         DEF SalesInv, ClaimsAgree, RequestsKnowSales, SalePoints, Committed, Moves, TypeOK
  <1>7. SalesAgree' /\ ReceiptIsPaid' /\ ConfirmedIsStamped'
    BY <1>0, <1>1, <1>3 DEF SalesInv, SalesAgree, ReceiptIsPaid, ConfirmedIsStamped, TypeOK
  <1>8. QED
    BY <1>4, <1>5, <1>6, <1>7 DEF SalesInv

\* Phase B makes a receipt for the sale its request holds.
LEMMA CheckoutKeeps ==
  ASSUME SalesInv, NEW w \in Workers, NEW i \in Sales, CheckoutCommits(w, i)
  PROVE  SalesInv'
  <1> USE DEF counters, intentVars, On
  <1>0. TypeOK
    BY DEF SalesInv
  <1>1. /\ req[w].on = i /\ req[w].at = "checkout" /\ status[i] # "none"
        /\ gateway[i] = "completed" /\ via[i] = "claimed" /\ stamp[i] = 0
        /\ lostReads = 0 => receipts[i] = 0
        /\ receipts[i] \in Nat
    <2>1. req[w].on = i /\ req[w].at = "checkout"
      BY DEF CheckoutCommits
    <2>2. /\ status[i] # "none" /\ gateway[i] = "completed" /\ via[i] = "claimed"
          /\ lostReads = 0 => receipts[i] = 0
      BY <2>1 DEF SalesInv, RequestsKnowSales, ClaimsAgree, SalePoints, Committed
    <2>3. QED
      BY <1>0, <2>1, <2>2 DEF SalesInv, SalesAgree, TypeOK
  <1>2. /\ receipts' = [receipts EXCEPT ![i] = receipts[i] + 1]
        /\ receipts'[i] = receipts[i] + 1
        /\ UNCHANGED <<intentVars, log, gateway, acked, faults, lostReads>>
    BY <1>0 DEF CheckoutCommits, TypeOK
  <1>3. /\ Moves(w, req'[w]) /\ req'[w].at = "read_receipt" /\ req'[w].on = i
        /\ req'[w].receipt = receipts[i] + 1
    <2> DEFINE r == [req[w] EXCEPT !.at = "read_receipt", !.receipt = receipts'[i]]
    <2>1. req[w] \in Requests /\ receipts'[i] \in Nat
      BY <1>0, <1>1, <1>2 DEF TypeOK
    <2>2. /\ r \in Requests /\ r.at = "read_receipt" /\ r.on = i
          /\ r.receipt = receipts[i] + 1
      BY <1>1, <1>2, <2>1 DEF Requests, Points, SalePoints
    <2>3. Moves(w, r)
      BY <1>0, <2>2, StepMoves DEF CheckoutCommits
    <2> HIDE DEF r
    <2>4. QED
      BY <2>2, <2>3 DEF Moves
  <1>4. TypeOK'
    BY <1>0, <1>2, <1>3 DEF TypeOK, Moves
  <1>5. RequestsKnowSales' /\ CreationsAgree' /\ ReportsAgree'
    BY <1>1, <1>2, <1>3 DEF SalesInv, RequestsKnowSales, CreationsAgree, ReportsAgree,
                            CreatePoints, Moves
  <1>6. ClaimsAgree'
    <2>1. \A v \in Workers : v # w /\ req[v].at \in SalePoints =>
            req[v].on \in Sales /\ req[v].on # i
      BY <1>1 DEF SalesInv, ClaimsAgree, RequestsKnowSales, SalePoints
    <2>2. \A v \in Workers : v # w /\ req[v].at \in SalePoints =>
            receipts'[req[v].on] = receipts[req[v].on]
      BY <1>0, <1>2, <2>1 DEF TypeOK
    <2>3. receipts[i] + 1 \in 1..receipts'[i]
      BY <1>1, <1>2
    <2>4. QED
      BY <1>1, <1>2, <1>3, <2>1, <2>2, <2>3
         DEF SalesInv, ClaimsAgree, SalePoints, Committed, Moves
  <1>7. SalesAgree' /\ ReceiptIsPaid' /\ ConfirmedIsStamped'
    BY <1>0, <1>1, <1>2 DEF SalesInv, SalesAgree, ReceiptIsPaid, ConfirmedIsStamped, TypeOK
  <1>8. QED
    BY <1>4, <1>5, <1>6, <1>7 DEF SalesInv

\* A release and phase C give up the claim of the one request that holds it.
LEMMA ReleaseKeeps ==
  ASSUME SalesInv, NEW w \in Workers, NEW i \in Sales, Release(w, i) \/ Stamp(w, i)
  PROVE  SalesInv'
  <1> USE DEF counters, On
  <1>0. TypeOK
    BY DEF SalesInv
  <1>1. /\ req[w].on = i /\ req[w].at \in {"release", "stamp"} /\ status[i] # "none"
        /\ gateway[i] = "completed" /\ via[i] = "claimed" /\ stamp[i] = 0
        /\ req[w].at = "release" /\ lostReads = 0 => receipts[i] = 0
        /\ req[w].at = "stamp" => req[w].receipt \in 1..receipts[i]
        /\ \A v \in Workers : req[v].at \in SalePoints /\ req[v].on = i => v = w
    <2>1. req[w].on = i /\ req[w].at \in {"release", "stamp"}
      BY DEF Release, Stamp
    <2>2. req[w].at \in SalePoints /\ (req[w].at \in Committed <=> req[w].at = "stamp")
      BY <2>1 DEF SalePoints, Committed
    <2>3. /\ status[i] # "none" /\ gateway[i] = "completed" /\ via[i] = "claimed"
          /\ req[w].at = "release" /\ lostReads = 0 => receipts[i] = 0
          /\ req[w].at = "stamp" => req[w].receipt \in 1..receipts[i]
          /\ \A v \in Workers : req[v].at \in SalePoints /\ req[v].on = i => v = w
      BY <2>1, <2>2 DEF SalesInv, RequestsKnowSales, ClaimsAgree
    <2>4. stamp[i] = 0
      BY <2>3 DEF SalesInv, SalesAgree
    <2>5. QED
      BY <2>1, <2>3, <2>4
  <1>2. /\ Moves(w, req'[w]) /\ req'[w].at = "idle" /\ acked' \in [Sales -> BOOLEAN]
    <2>1. CASE Release(w, i)
      BY <1>0, <2>1, IdleMoves DEF Release, TypeOK
    <2>2. CASE Stamp(w, i)
      BY <1>0, <1>1, <2>2, ReplyMoves DEF Stamp
    <2>3. QED
      BY <2>1, <2>2
  <1>3. /\ UNCHANGED <<txnNo, receipts, log, gateway, faults, lostReads>>
        /\ \/ /\ req[w].at = "release"
              /\ via' = [via EXCEPT ![i] = "failed"]
              /\ UNCHANGED <<status, stamp>>
           \/ /\ req[w].at = "stamp"
              /\ status' = [status EXCEPT ![i] = "confirmed"]
              /\ via' = [via EXCEPT ![i] = "webhook"]
              /\ stamp' = [stamp EXCEPT ![i] = req[w].receipt]
    BY <1>1 DEF Release, Stamp
  <1>4. TypeOK'
    <2>1. req[w].at = "stamp" => req[w].receipt \in Nat
      BY <1>0 DEF TypeOK, Requests
    <2>2. QED
      BY <1>0, <1>2, <1>3, <2>1 DEF TypeOK, Moves
  <1>5. RequestsKnowSales' /\ CreationsAgree' /\ ReportsAgree'
    BY <1>0, <1>2, <1>3 DEF SalesInv, RequestsKnowSales, CreationsAgree, ReportsAgree,
                            CreatePoints, Moves, TypeOK
  <1>6. ClaimsAgree'
    <2>1. \A v \in Workers : v # w /\ req[v].at \in SalePoints =>
            req[v].on \in Sales /\ req[v].on # i /\ via'[req[v].on] = via[req[v].on]
      BY <1>0, <1>1, <1>3 DEF SalesInv, RequestsKnowSales, SalePoints, TypeOK
    <2>2. QED
      BY <1>2, <1>3, <2>1 DEF SalesInv, ClaimsAgree, SalePoints, Moves
  <1>7. SalesAgree' /\ ReceiptIsPaid' /\ ConfirmedIsStamped'
    <2>1. receipts[i] \in Nat
      BY <1>0 DEF TypeOK
    <2>2. QED
      BY <1>0, <1>1, <1>3, <2>1 DEF SalesInv, SalesAgree, ReceiptIsPaid, ConfirmedIsStamped, TypeOK
  <1>8. QED
    BY <1>4, <1>5, <1>6, <1>7 DEF SalesInv

LEMMA GatewayKeeps ==
  ASSUME SalesInv, NEW i \in Sales, GatewaySettles(i)
  PROVE  SalesInv'
  <1> USE DEF counters, intentVars
  <1>0. TypeOK
    BY DEF SalesInv
  <1>1. /\ gateway[i] = "open"
        /\ UNCHANGED <<intentVars, receipts, log, acked, req, counters>>
        /\ \E s \in {"completed", "failed", "purged"} :
             gateway' = [gateway EXCEPT ![i] = s] /\ (s = "completed" => txnNo[i])
    BY DEF GatewaySettles
  <1>2. PICK s \in {"completed", "failed", "purged"} :
          gateway' = [gateway EXCEPT ![i] = s] /\ (s = "completed" => txnNo[i])
    BY <1>1
  <1>3. TypeOK'
    BY <1>0, <1>1, <1>2 DEF TypeOK
  <1>4. RequestsKnowSales' /\ CreationsAgree'
    BY <1>0, <1>1, <1>2 DEF SalesInv, RequestsKnowSales, CreationsAgree, CreatePoints, TypeOK
  <1>5. ReportsAgree' /\ ClaimsAgree'
    BY <1>0, <1>1, <1>2 DEF SalesInv, ReportsAgree, ClaimsAgree, RequestsKnowSales, SalePoints,
                            TypeOK
  <1>6. SalesAgree' /\ ReceiptIsPaid' /\ ConfirmedIsStamped'
    BY <1>0, <1>1, <1>2 DEF SalesInv, SalesAgree, ReceiptIsPaid, ConfirmedIsStamped, TypeOK
  <1>7. QED
    BY <1>3, <1>4, <1>5, <1>6 DEF SalesInv

-----------------------------------------------------------------------------
(* The theorems *)

LEMMA StepKeeps ==
  ASSUME SalesInv, [Next]_vars
  PROVE  SalesInv'
  <1>1. CASE UNCHANGED vars
    BY <1>1 DEF vars, SalesInv, TypeOK, RequestsKnowSales, CreationsAgree, ReportsAgree,
                ClaimsAgree, SalesAgree, ReceiptIsPaid, ConfirmedIsStamped
  <1>2. ASSUME NEW w \in Workers, Run(w)
        PROVE  SalesInv'
    BY <1>2, RunQuietly, CreateAtGatewayKeeps, CreateStoreKeeps, CancelKeeps, ClaimKeeps,
       CheckoutKeeps, ReleaseKeeps
       DEF Run, Create, ConfirmPosQrSale
  <1>3. ASSUME NEW w \in Workers, Fault(w)
        PROVE  SalesInv'
    BY <1>3, RunQuietly, FaultsQuietly DEF Fault
  <1>4. ASSUME NEW w \in Workers, NEW i \in Sales, Arrive(w, i)
        PROVE  SalesInv'
    BY <1>4, ArriveQuietly, CreateInsertKeeps DEF Arrive
  <1>5. QED
    BY <1>1, <1>2, <1>3, <1>4, FaultsQuietly, GatewayKeeps DEF Next

-----------------------------------------------------------------------------
(* The log of the sales *)

\* A step of one request that forgets no log entry, and no success of a sale that
\* is stamped or about to be.
LEMMA LogsMove ==
  ASSUME SalesInv, LogsAgree, faults = 0, NEW w \in Workers, Moves(w, req'[w]),
         \A i \in Sales : log[i] # "none" => log'[i] # "none",
         \A i \in Sales : txnNo'[i] => txnNo[i] \/ log'[i] # "none",
         \A i \in Sales : stamp'[i] # 0 => stamp[i] # 0 \/ log'[i] = "success",
         \A i \in Sales : log[i] = "success" =>
           \/ log'[i] = "success"
           \/ /\ stamp'[i] = 0
              /\ \A v \in Workers : v # w => ~On(v, "stamp", i),
         req'[w].at \in CreatePoints \ {"create_log"} =>
           req'[w].on \in Sales /\ log'[req'[w].on] # "none",
         req'[w].at = "stamp" => req'[w].on \in Sales /\ log'[req'[w].on] = "success"
  PROVE  LogsAgree'
  <1>1. \A v \in Workers : v # w => req'[v] = req[v]
    BY DEF Moves
  <1>2. \A v \in Workers : req[v].at \in CreatePoints \cup {"stamp"} => req[v].on \in Sales
    BY DEF SalesInv, RequestsKnowSales, CreatePoints
  <1>3. ASSUME NEW v \in Workers, v # w
        PROVE  /\ req'[v].at \in CreatePoints \ {"create_log"} => log'[req'[v].on] # "none"
               /\ req'[v].at = "stamp" => log'[req'[v].on] = "success"
    BY <1>1, <1>2, <1>3 DEF LogsAgree, On
  <1>4. \A i \in Sales : txnNo'[i] => log'[i] # "none"
    BY DEF LogsAgree
  <1>5. \A i \in Sales : stamp'[i] # 0 => log'[i] = "success"
    BY DEF LogsAgree
  <1>6. QED
    BY <1>3, <1>4, <1>5 DEF LogsAgree

\* The log entry of a sale that is being created is nobody's yet.
LEMMA CreateLogKeeps ==
  ASSUME SalesInv, LogsAgree, faults = 0, NEW w \in Workers, NEW i \in Sales, CreateLog(w, i)
  PROVE  LogsAgree'
  <1> USE DEF intentVars, counters
  <1>0. TypeOK /\ CreationsAgree /\ ClaimsAgree /\ SalesAgree
    BY DEF SalesInv
  <1>1. req[w].at = "create_log" /\ req[w].on = i
    BY DEF CreateLog, On
  <1>2. ~txnNo[i] /\ gateway[i] # "completed"
    BY <1>0, <1>1 DEF CreationsAgree, CreatePoints, SalesAgree
  <1>3. stamp[i] = 0
    BY <1>0, <1>2 DEF SalesInv, ReceiptIsPaid, SalesAgree, TypeOK
  <1>4. \A v \in Workers : ~On(v, "stamp", i)
    BY <1>0, <1>2 DEF ClaimsAgree, SalePoints, On
  <1>5. /\ Moves(w, req'[w]) /\ req'[w].at = "create_gateway" /\ req'[w].on = i
    BY <1>0, <1>1, GotoMoves DEF CreateLog, Points, CreatePoints
  <1>6. /\ log'[i] = "pending" /\ \A j \in Sales : j # i => log'[j] = log[j]
        /\ UNCHANGED <<txnNo, stamp>>
    BY <1>0 DEF CreateLog, TypeOK
  <1>7. QED
    BY <1>3, <1>4, <1>5, <1>6, LogsMove

\* checkout's outcome goes into the entry of a sale that only its request holds.
LEMMA LogOutcomeKeeps ==
  ASSUME SalesInv, LogsAgree, faults = 0, NEW w \in Workers, NEW i \in Sales,
         LogOutcome(w, i)
  PROVE  LogsAgree'
  <1> USE DEF intentVars, counters
  <1>0. TypeOK /\ ClaimsAgree /\ SalesAgree
    BY DEF SalesInv
  <1>1. req[w].at \in {"log_success", "log_failed"} /\ req[w].on = i
    BY DEF LogOutcome, On
  <1>2. /\ via[i] = "claimed" /\ gateway[i] = "completed"
        /\ \A v \in Workers : v # w => ~On(v, "stamp", i)
    BY <1>0, <1>1 DEF ClaimsAgree, SalePoints, On
  <1>3. stamp[i] = 0 /\ log[i] # "none"
    BY <1>0, <1>2 DEF SalesAgree, LogsAgree
  <1>4. UNCHANGED <<txnNo, stamp>>
    BY DEF LogOutcome
  <1>5. CASE On(w, "log_success", i)
    <2>1. log'[i] = "success" /\ \A j \in Sales : j # i => log'[j] = log[j]
      BY <1>0, <1>3, <1>5 DEF LogOutcome, On, TypeOK
    <2>2. Moves(w, req'[w]) /\ req'[w].at = "stamp" /\ req'[w].on = i
      BY <1>0, <1>1, <1>5, GotoMoves DEF LogOutcome, On, Points, SalePoints
    <2>3. QED
      BY <1>4, <2>1, <2>2, LogsMove DEF CreatePoints
  <1>6. CASE On(w, "log_failed", i)
    <2>1. log'[i] = "failed" /\ \A j \in Sales : j # i => log'[j] = log[j]
      BY <1>0, <1>3, <1>6 DEF LogOutcome, On, TypeOK
    <2>2. Moves(w, req'[w]) /\ req'[w].at = "release"
      BY <1>0, <1>1, <1>6, GotoMoves DEF LogOutcome, On, Points, SalePoints
    <2>3. QED
      BY <1>2, <1>3, <1>4, <2>1, <2>2, LogsMove DEF CreatePoints
  <1>7. QED
    BY <1>5, <1>6 DEF LogOutcome

\* The steps that make a sale payable, and the stamp.
LEMMA StoreAndStampKeepLogs ==
  ASSUME SalesInv, LogsAgree, faults = 0, NEW w \in Workers, NEW i \in Sales,
         CreateAtGateway(w, i) \/ CreateStore(w, i) \/ Stamp(w, i)
  PROVE  LogsAgree'
  <1> USE DEF intentVars, counters, On
  <1>0. TypeOK
    BY DEF SalesInv
  <1>1. req[w].on = i /\ log' = log
    BY DEF CreateAtGateway, CreateStore, Stamp
  <1>2. CASE CreateAtGateway(w, i)
    <2>1. log[i] # "none"
      BY <1>1, <1>2 DEF CreateAtGateway, LogsAgree, CreatePoints
    <2>2. /\ Moves(w, req'[w]) /\ req'[w].on = i
          /\ req'[w].at \in {"create_store", "create_cancel"}
      BY <1>0, <1>1, <1>2, GotoMoves DEF CreateAtGateway, Points, CreatePoints
    <2>3. UNCHANGED <<txnNo, stamp>>
      BY <1>2 DEF CreateAtGateway
    <2>4. QED
      BY <1>1, <2>1, <2>2, <2>3, LogsMove
  <1>3. CASE CreateStore(w, i)
    <2>1. log[i] # "none"
      BY <1>1, <1>3 DEF CreateStore, LogsAgree, CreatePoints
    <2>2. Moves(w, req'[w]) /\ req'[w].at = "idle"
      BY <1>0, <1>1, <1>3, ReplyMoves DEF CreateStore
    <2>3. stamp' = stamp /\ \A j \in Sales : txnNo'[j] => txnNo[j] \/ j = i
      BY <1>0, <1>3 DEF CreateStore, TypeOK
    <2>4. QED
      BY <1>1, <2>1, <2>2, <2>3, LogsMove DEF CreatePoints
  <1>4. CASE Stamp(w, i)
    <2>1. log[i] = "success"
      BY <1>1, <1>4 DEF Stamp, LogsAgree
    <2>2. Moves(w, req'[w]) /\ req'[w].at = "idle"
      BY <1>0, <1>1, <1>4, ReplyMoves DEF Stamp
    <2>3. txnNo' = txnNo /\ \A j \in Sales : stamp'[j] # 0 => stamp[j] # 0 \/ j = i
      BY <1>0, <1>4 DEF Stamp, TypeOK
    <2>4. QED
      BY <1>1, <2>1, <2>2, <2>3, LogsMove DEF CreatePoints
  <1>5. QED
    BY <1>2, <1>3, <1>4

\* The other steps touch at most an entry that is still pending.
LEMMA OthersKeepLogs ==
  ASSUME SalesInv, LogsAgree, faults = 0, NEW w \in Workers, NEW i \in Sales,
         \/ CreateCancel(w, i) \/ HookCancel(w, i) \/ InquiryAnswer(w, i) \/ Cancel(w, i)
         \/ CancelLog(w, i) \/ ClaimSkip(w, i) \/ Claim(w, i) \/ CheckoutCommits(w, i)
         \/ CheckoutThrows(w, i) \/ ReadReceipt(w, i) \/ ReadReceiptFails(w, i)
         \/ Release(w, i) \/ CreateInsert(w, i) \/ HookReceive(w, i) \/ InquiryAsk(w, i)
         \/ CancelAsk(w, i) \/ Abandon(w, i)
  PROVE  LogsAgree'
  <1> USE DEF intentVars, counters, On
  <1>0. TypeOK
    BY DEF SalesInv
  <1>1. UNCHANGED <<txnNo, stamp>>
    BY DEF CreateCancel, HookCancel, InquiryAnswer, Cancel, CancelLog, ClaimSkip, Claim,
           CheckoutCommits, CheckoutThrows, ReadReceipt, ReadReceiptFails, Release,
           CreateInsert, HookReceive, InquiryAsk, CancelAsk, Abandon
  <1>2. \A j \in Sales : log'[j] = log[j] \/ (log[j] = "pending" /\ log'[j] = "cancelled")
    BY <1>0
       DEF CreateCancel, HookCancel, InquiryAnswer, Cancel, CancelLog, ClaimSkip, Claim,
           CheckoutCommits, CheckoutThrows, ReadReceipt, ReadReceiptFails, Release,
           CreateInsert, HookReceive, InquiryAsk, CancelAsk, Abandon, TypeOK
  <1>3. /\ Moves(w, req'[w]) /\ req'[w].at # "stamp"
        /\ req'[w].at \notin CreatePoints \ {"create_log"}
    <2> USE DEF Points, CreatePoints, SalePoints
    <2>1. CASE HookCancel(w, i) \/ CancelLog(w, i) \/ ClaimSkip(w, i)
      BY <1>0, <2>1, ReplyMoves DEF HookCancel, CancelLog, ClaimSkip
    <2>2. CASE InquiryAnswer(w, i)
      BY <1>0, <2>2, GotoMoves, IdleMoves DEF InquiryAnswer
    <2>3. CASE CreateCancel(w, i) \/ Cancel(w, i) \/ Claim(w, i) \/ CheckoutThrows(w, i)
                 \/ ReadReceipt(w, i) \/ ReadReceiptFails(w, i)
      BY <1>0, <2>3, GotoMoves
         DEF CreateCancel, Cancel, Claim, CheckoutThrows, ReadReceipt, ReadReceiptFails
    <2>4. CASE Release(w, i)
      BY <1>0, <2>4, IdleMoves DEF Release
    <2>5. CASE CheckoutCommits(w, i)
      <3> DEFINE r == [req[w] EXCEPT !.at = "read_receipt", !.receipt = receipts'[i]]
      <3>1. req[w] \in Requests /\ receipts'[i] \in Nat
        BY <1>0, <2>5 DEF CheckoutCommits, TypeOK
      <3>2. r \in Requests /\ r.at = "read_receipt"
        BY <3>1 DEF Requests
      <3>3. Moves(w, r)
        BY <1>0, <2>5, <3>2, StepMoves DEF CheckoutCommits
      <3> HIDE DEF r
      <3>4. QED
        BY <3>2, <3>3 DEF Moves
    <2>6. CASE CreateInsert(w, i) \/ HookReceive(w, i) \/ InquiryAsk(w, i)
                 \/ CancelAsk(w, i) \/ Abandon(w, i)
      <3>1. \E at \in {"create_log", "claim", "hook_cancel", "inquiry_wait", "cancel",
                       "cancel_log"},
               from \in {"none", "user", "webhook", "inquiry"} :
              Arrives(w, Request(at, i, from))
        BY <2>6 DEF CreateInsert, HookReceive, InquiryAsk, CancelAsk, Abandon
      <3>2. PICK at \in {"create_log", "claim", "hook_cancel", "inquiry_wait", "cancel",
                         "cancel_log"},
                 from \in {"none", "user", "webhook", "inquiry"} :
              Arrives(w, Request(at, i, from))
        BY <3>1
      <3>3. Moves(w, req'[w]) /\ req'[w].at = at
        BY <1>0, <3>2, ArriveMoves
      <3>4. QED
        BY <3>3
    <2>7. QED
      BY <2>1, <2>2, <2>3, <2>4, <2>5, <2>6
  <1>4. QED
    BY <1>1, <1>2, <1>3, LogsMove

LEMMA LogsPreserved ==
  ASSUME SalesInv, LogsAgree, [Next]_vars
  PROVE  LogsAgree'
  <1> SUFFICES ASSUME faults' = 0 PROVE LogsAgree'
    BY DEF LogsAgree
  <1>0. faults \in Nat
    BY DEF SalesInv, TypeOK
  <1>1. CASE UNCHANGED <<txnNo, stamp, log, req, faults>>
    BY <1>1 DEF LogsAgree
  <1>2. ASSUME NEW w \in Workers, Run(w)
        PROVE  LogsAgree'
    <2>1. faults = 0
      BY <1>2 DEF Run, Create, ConfirmPosQrSale, CreateLog, CreateAtGateway, CreateStore,
           CreateCancel, HookCancel, InquiryAnswer, Cancel, CancelLog, ClaimSkip, Claim,
           CheckoutCommits, CheckoutThrows, ReadReceipt, LogOutcome, Release, Stamp, counters
    <2>2. QED
      BY <1>2, <2>1, CreateLogKeeps, LogOutcomeKeeps, StoreAndStampKeepLogs, OthersKeepLogs
         DEF Run, Create, ConfirmPosQrSale
  <1>3. ASSUME NEW w \in Workers, Fault(w)
        PROVE  LogsAgree'
    <2>1. ASSUME NEW i \in Sales, ReadReceiptFails(w, i)
          PROVE  LogsAgree'
      <3>1. faults = 0
        BY <2>1 DEF ReadReceiptFails
      <3>2. QED
        BY <2>1, <3>1, OthersKeepLogs
    <2>2. ~RequestFails(w) /\ \A i \in Sales : ~CancelLogFails(w, i)
      BY <1>0 DEF RequestFails, CancelLogFails
    <2>3. QED
      BY <1>3, <2>1, <2>2 DEF Fault
  <1>4. ASSUME NEW w \in Workers, NEW i \in Sales, Arrive(w, i)
        PROVE  LogsAgree'
    <2>1. CASE HookKnown(w, i)
      BY <1>1, <2>1 DEF HookKnown, intentVars, counters
    <2>2. CASE CreateInsert(w, i) \/ HookReceive(w, i) \/ InquiryAsk(w, i)
                 \/ CancelAsk(w, i) \/ Abandon(w, i)
      <3>1. faults = 0
        BY <2>2 DEF CreateInsert, HookReceive, InquiryAsk, CancelAsk, Abandon, counters
      <3>2. QED
        BY <2>2, <3>1, OthersKeepLogs
    <2>3. QED
      BY <1>4, <2>1, <2>2 DEF Arrive
  <1>5. ~ServerCrash
    BY <1>0 DEF ServerCrash
  <1>6. ASSUME NEW i \in Sales, GatewaySettles(i)
        PROVE  LogsAgree'
    BY <1>1, <1>6 DEF GatewaySettles, intentVars, counters
  <1>7. CASE UNCHANGED vars
    BY <1>1, <1>7 DEF vars
  <1>8. QED
    BY <1>2, <1>3, <1>4, <1>5, <1>6, <1>7 DEF Next

\* The inductive invariant of every behaviour of the service.
THEOREM Invariance == Spec => []IInv
  <1>1. Init => IInv
    BY InitHolds DEF IInv, LogsAgree, Init, Idle, CreatePoints
  <1>2. IInv /\ [Next]_vars => IInv'
    BY StepKeeps, LogsPreserved DEF IInv
  <1>3. QED
    BY <1>1, <1>2, PTL DEF Spec

\* Every variable keeps its type: the stored statuses and the claim, the log
\* entry, the requests in flight and the bounds on faults.
THEOREM TypeCorrect == Spec => []TypeOK
  <1>1. IInv => TypeOK
    BY DEF IInv, SalesInv
  <1>2. QED
    BY <1>1, Invariance, PTL

\* Goods leave only for money that came: checkout() commits a receipt only for
\* a payment the gateway completed, whatever faults and lost reads happen.
THEOREM ReceiptIsPaidAlways == Spec => []ReceiptIsPaid
  <1>1. IInv => ReceiptIsPaid
    BY DEF IInv, SalesInv
  <1>2. QED
    BY <1>1, Invariance, PTL

\* An intent is confirmed exactly when one of its receipts is stamped on it: a
\* stamped sale is never cancelled.
THEOREM ConfirmedIsStampedAlways == Spec => []ConfirmedIsStamped
  <1>1. IInv => ConfirmedIsStamped
    BY DEF IInv, SalesInv
  <1>2. QED
    BY <1>1, Invariance, PTL

\* A sale that was stamped is logged as a success, however the cashier cancelled
\* or gave up meanwhile, as long as no error or crash interferes.
THEOREM SoldAlwaysLogged == Spec => []SoldIsLogged
  <1>1. IInv => SoldIsLogged
    BY DEF IInv, LogsAgree, SoldIsLogged
  <1>2. QED
    BY <1>1, Invariance, PTL

\* "No double-checkout", as long as no checkout commits and then fails to read
\* its receipt back: the claim of phase A lets one payment make one receipt, for
\* any number of sales, requests, errors and crashes.
THEOREM ReceiptOnceAlways == Spec => []ReceiptOnceIfRead
  <1>1. ASSUME IInv PROVE ReceiptOnceIfRead
    <2>1. SUFFICES ASSUME lostReads = 0 PROVE ReceiptOnce
      BY DEF ReceiptOnceIfRead
    <2>2. \A i \in Sales : receipts[i] \in {0, 1}
      BY <1>1, <2>1 DEF IInv, SalesInv, SalesAgree
    <2>3. QED
      <3>1. \A x \in {0, 1} : x <= 1
        OBVIOUS
      <3>2. QED
        BY <2>2, <3>1 DEF ReceiptOnce
  <1>2. QED
    BY <1>1, Invariance, PTL
=============================================================================
