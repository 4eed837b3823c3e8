------------------------- MODULE TopupIntentsProofs -------------------------
(* Proofs about TopupIntents, for every value of its constants.             *)
EXTENDS TopupIntents, FiniteSetTheorems, TLAPS

USE ConstantsAssumption

\* Every record the service builds for a request has the type of a request.
LEMMA RequestType ==
  /\ Idle \in Requests
  /\ \A at \in Points, i \in Intents, via \in Channels : Request(at, i, via) \in Requests
  /\ \A by \in Sweeps, at \in Points, i \in Intents \cup {NoIntent},
        S \in SUBSET Intents :
       Sweeping(by, at, i, S) \in Requests /\ Sweeping(by, at, i, S).via = by
  BY DEF Requests, Idle, Request, Sweeping, Points, Channels, Sweeps

\* A request at its next point, and one that is done with its intent, too.
LEMMA NextPointType ==
  ASSUME TypeOK, NEW w \in Workers
  PROVE  /\ Rest(w) \in Requests
         /\ \A at \in Points : At(w, at) \in Requests
         /\ \A at \in Points : At(w, at) = [at |-> at, on |-> req[w].on,
              via |-> req[w].via, todo |-> req[w].todo, read |-> req[w].read]
  <1>1. req[w] \in Requests
    BY DEF TypeOK
  <1>2. ASSUME NEW at \in Points
        PROVE  At(w, at) \in Requests /\ At(w, at) = [at |-> at, on |-> req[w].on,
              via |-> req[w].via, todo |-> req[w].todo, read |-> req[w].read]
    BY <1>1 DEF At, Requests
  <1>3. Rest(w) \in Requests
    BY <1>1 DEF Rest, Requests, Idle, Sweeping, Points, Channels, Sweeps
  <1>4. QED
    BY <1>2, <1>3

\* What Continue does to req.
LEMMA ContinueType ==
  ASSUME TypeOK, NEW w \in Workers, NEW r \in Requests, Continue(w, r)
  PROVE  /\ req' \in [Workers -> Requests]
         /\ req'[w] = r
         /\ \A v \in Workers : v # w => req'[v] = req[v]
  BY DEF Continue, TypeOK

\* Init establishes the inductive invariant.
LEMMA InitIInv == Init => IInv
  <1> SUFFICES ASSUME Init PROVE IInv
    OBVIOUS
  <1> USE DEF Init, Idle
  <1>1. TypeOK
    BY DEF TypeOK, Requests, Points, Channels
  <1>2. LocksAgree
    BY DEF LocksAgree
  <1>3. RequestsKnowIntents
    BY DEF RequestsKnowIntents
  <1>4. CreditsMatchStatus /\ CreditedOnce
    BY DEF CreditsMatchStatus, ConfirmedIsCredited, CreditedOnce, CreditsOf
  <1>5. LedgerChains
    BY DEF LedgerChains
  <1>6. GatewayAgrees /\ AcknowledgedIsSettled
    BY DEF GatewayAgrees, AcknowledgedIsSettled
  <1>7. QED
    BY <1>1, <1>2, <1>3, <1>4, <1>5, <1>6 DEF IInv

\* Answering a webhook keeps the types of req and acked.
LEMMA ReplyType ==
  ASSUME TypeOK, NEW w \in Workers, req[w].on \in Intents, Reply(w)
  PROVE  /\ req' \in [Workers -> Requests]
         /\ req'[w] = Rest(w)
         /\ \A v \in Workers : v # w => req'[v] = req[v]
         /\ acked' \in [Intents -> BOOLEAN]
  <1>1. Continue(w, Rest(w)) /\ Rest(w) \in Requests
    BY NextPointType DEF Reply
  <1>2. acked' \in [Intents -> BOOLEAN]
    BY DEF Reply, TypeOK
  <1>3. QED
    BY <1>1, <1>2, ContinueType

\* Every step keeps the variables well typed.
LEMMA StepTypeOK ==
  ASSUME IInv, [Next]_vars
  PROVE  TypeOK'
  <1> USE DEF intentVars, walletVars, lockVars
  <1>0. TypeOK /\ RequestsKnowIntents
    BY DEF IInv
  <1>a. ASSUME NEW w \in Workers, NEW r \in Requests, Continue(w, r)
        PROVE  req' \in [Workers -> Requests]
    BY <1>0, <1>a, ContinueType
  <1>1. ASSUME NEW w \in Workers, NEW i \in Intents, Arrive(w, i)
        PROVE  TypeOK'
    <2>1. \A at \in Points, via \in Channels : Request(at, i, via) \in Requests
      BY RequestType
    <2>2. CASE HookReceive(w, i) \/ HookUnknown(w, i)
      <3>1. req' \in [Workers -> Requests]
        BY <1>0, <1>a, <2>1, <2>2 DEF HookReceive, HookUnknown, Points, Channels, TypeOK
      <3>2. QED
        BY <1>0, <2>2, <3>1 DEF HookReceive, HookUnknown, TypeOK
    <2>3. CASE CreateCheckCap(w, i) \/ InquiryAsk(w, i) \/ CancelRead(w, i)
                 \/ ParentConfirm(w, i)
      <3>1. req' \in [Workers -> Requests]
        BY <1>a, <2>1, <2>3
           DEF CreateCheckCap, InquiryAsk, CancelRead, ParentConfirm, Points, Channels
      <3>2. QED
        BY <1>0, <2>3, <3>1
           DEF CreateCheckCap, InquiryAsk, CancelRead, ParentConfirm, TypeOK
    <2>4. QED
      BY <1>1, <2>2, <2>3 DEF Arrive
  <1>2. ASSUME NEW w \in Workers, CreateStep(w)
        PROVE  TypeOK'
    <2>1. req[w].on \in Intents
      BY <1>0, <1>2 DEF CreateStep, CreateInsert, CreateAtGateway, CreateStore,
                        CreateCancel, RequestsKnowIntents
    <2>2. Cardinality({j \in Intents : status[j] # "none"}) \in Nat
      BY FS_Subset, FS_CardinalityType
    <2>3. Idle \in Requests /\ \A at \in Points : At(w, at) \in Requests
      BY <1>0, RequestType, NextPointType
    <2>4. req' \in [Workers -> Requests]
      BY <1>2, <1>a, <2>3 DEF CreateStep, CreateInsert, CreateAtGateway, CreateStore,
                              CreateCancel, Points
    <2>5. CASE CreateInsert(w)
      BY <1>0, <2>1, <2>2, <2>4, <2>5 DEF CreateInsert, TypeOK
    <2>6. CASE CreateAtGateway(w)
      <3>1. gateway' \in [Intents -> {"absent", "open", "completed", "failed", "purged"}]
        BY <1>0, <2>1, <2>6 DEF CreateAtGateway, TypeOK
      <3>2. faults' \in 0..MaxFaults
        BY <1>0, <2>6 DEF CreateAtGateway, TypeOK
      <3>3. QED
        BY <1>0, <2>4, <2>6, <3>1, <3>2 DEF CreateAtGateway, TypeOK
    <2>7. CASE CreateStore(w) \/ CreateCancel(w)
      BY <1>0, <2>1, <2>4, <2>7 DEF CreateStore, CreateCancel, TypeOK
    <2>8. QED
      BY <1>2, <2>5, <2>6, <2>7 DEF CreateStep
  <1>3. ASSUME NEW w \in Workers, GatewayAnswers(w)
        PROVE  TypeOK'
    <2>1. Idle \in Requests /\ Rest(w) \in Requests
            /\ \A at \in Points : At(w, at) \in Requests
      BY <1>0, RequestType, NextPointType
    <2>2. req' \in [Workers -> Requests]
      BY <1>3, <1>a, <2>1 DEF GatewayAnswers, InquiryAnswer, SweepAnswer, Points
    <2>3. QED
      BY <1>0, <1>3, <2>2 DEF GatewayAnswers, InquiryAnswer, SweepAnswer, TypeOK
  <1>4. ASSUME NEW w \in Workers, SweepNext(w)
        PROVE  TypeOK'
    <2>1. req[w].todo \in SUBSET Intents
      BY <1>0 DEF TypeOK, Requests
    <2>2. req' \in [Workers -> Requests]
      BY <1>4, <1>a, <2>1, RequestType DEF SweepNext, Points
    <2>3. QED
      BY <1>0, <1>4, <2>2 DEF SweepNext, TypeOK
  <1>5. ASSUME NEW w \in Workers, CancelWrite(w)
        PROVE  TypeOK'
    <2>1. req[w].on \in Intents
      BY <1>0, <1>5 DEF CancelWrite, RequestsKnowIntents
    <2>2. req' \in [Workers -> Requests] /\ acked' \in [Intents -> BOOLEAN]
      BY <1>0, <1>5, <2>1, ReplyType DEF CancelWrite
    <2>3. QED
      BY <1>0, <1>5, <2>1, <2>2 DEF CancelWrite, TypeOK
  <1>6. ASSUME NEW w \in Workers, ConfirmTopup(w)
        PROVE  TypeOK'
    <2>1. req[w].on \in Intents
      BY <1>0, <1>6 DEF ConfirmTopup, ConfirmLockIntent, ConfirmAlreadyProcessed,
           ConfirmLockWallet, ConfirmCommit, RequestsKnowIntents
    <2>2. CASE ConfirmLockIntent(w)
      <3>1. req' \in [Workers -> Requests]
        BY <1>0, <1>a, <2>2, NextPointType DEF ConfirmLockIntent, Points
      <3>2. QED
        BY <1>0, <2>1, <2>2, <3>1 DEF ConfirmLockIntent, TypeOK
    <2>3. CASE ConfirmAlreadyProcessed(w)
      <3>1. req' \in [Workers -> Requests] /\ acked' \in [Intents -> BOOLEAN]
        BY <1>0, <2>1, <2>3, ReplyType DEF ConfirmAlreadyProcessed
      <3>2. QED
        BY <1>0, <2>3, <3>1 DEF ConfirmAlreadyProcessed, TypeOK
    <2>4. CASE ConfirmLockWallet(w)
      <3>1. balance[WalletOf[req[w].on]] \in Nat
        BY <1>0, <2>1 DEF TypeOK
      <3>2. At(w, "confirm_commit") \in Requests
        BY <1>0, NextPointType DEF Points
      <3>3. [At(w, "confirm_commit") EXCEPT !.read = balance[WalletOf[req[w].on]]]
              \in Requests
        BY <3>1, <3>2 DEF Requests
      <3>4. req' \in [Workers -> Requests]
        BY <1>a, <2>4, <3>3 DEF ConfirmLockWallet
      <3>5. QED
        BY <1>0, <2>1, <2>4, <3>4 DEF ConfirmLockWallet, TypeOK
    <2>5. CASE ConfirmCommit(w)
      <3> DEFINE i == req[w].on
                 x == WalletOf[i]
                 after == req[w].read + Amount[i]
                 row == [intent |-> i, before |-> req[w].read, after |-> after]
      <3>1. after \in Nat /\ req[w].read \in Nat /\ x \in Wallets
        BY <1>0, <2>1 DEF Requests, TypeOK
      <3>2. row \in Row
        BY <2>1, <3>1 DEF Row
      <3>3. Append(ledger[x], row) \in Seq(Row)
        BY <1>0, <3>1, <3>2 DEF TypeOK
      <3>4. ledger' \in [Wallets -> Seq(Row)]
        BY <1>0, <2>5, <3>1, <3>3 DEF ConfirmCommit, TypeOK
      <3>5. req' \in [Workers -> Requests] /\ acked' \in [Intents -> BOOLEAN]
        BY <1>0, <2>1, <2>5, ReplyType DEF ConfirmCommit
      <3>6. QED
        BY <1>0, <2>1, <2>5, <3>1, <3>4, <3>5 DEF ConfirmCommit, TypeOK
    <2>6. QED
      BY <1>6, <2>2, <2>3, <2>4, <2>5 DEF ConfirmTopup
  <1>7. ASSUME NEW w \in Workers, NEW S \in SUBSET Intents, StartsSweep(w, S)
        PROVE  TypeOK'
    <2>1. req' \in [Workers -> Requests]
      BY <1>7, <1>a, RequestType
         DEF StartsSweep, ScheduledSweep, AdminSweep, SweepScan, Points, Sweeps
    <2>2. QED
      BY <1>0, <1>7, <2>1
         DEF StartsSweep, ScheduledSweep, AdminSweep, SweepScan, TypeOK
  <1>8. ASSUME NEW w \in Workers, RequestFails(w)
        PROVE  TypeOK'
    <2>1. req' \in [Workers -> Requests]
      BY <1>0, <1>8, <1>a, NextPointType, RequestType DEF RequestFails
    <2>2. QED
      BY <1>0, <1>8, <2>1 DEF RequestFails, Unlocked, TypeOK
  <1>9. CASE ServerCrash
    BY <1>0, <1>9, RequestType DEF ServerCrash, Unlocked, TypeOK
  <1>10. ASSUME NEW i \in Intents, GatewaySettles(i)
         PROVE  TypeOK'
    BY <1>0, <1>10 DEF GatewaySettles, TypeOK
  <1>11. CASE UNCHANGED vars
    BY <1>0, <1>11 DEF vars, TypeOK
  <1>12. QED
    BY <1>1, <1>2, <1>3, <1>4, <1>5, <1>6, <1>7, <1>8, <1>9, <1>10, <1>11
       DEF Next, Run

-----------------------------------------------------------------------------
(* What a step preserves when it stays away from the locks or the ledger *)

\* A step of one request that neither holds nor takes a lock, and changes the
\* status only of rows nobody holds, keeps the locks in agreement.
LEMMA LocksKept ==
  ASSUME IInv, NEW w \in Workers, NEW r \in Requests, Continue(w, r),
         req[w].at \notin {"confirm_wallet", "confirm_commit"},
         r.at \notin {"confirm_wallet", "confirm_commit"},
         UNCHANGED <<balance, rowLock, walletLock>>,
         \A i \in Intents : status'[i] = status[i] \/ rowLock[i] = NoWorker
  PROVE  LocksAgree'
  <1>0. TypeOK /\ LocksAgree /\ RequestsKnowIntents
    BY DEF IInv
  <1>1. req'[w] = r /\ \A v \in Workers : v # w => req'[v] = req[v]
    BY <1>0, ContinueType
  <1>2. ASSUME NEW v \in Workers,
               req'[v].at \in {"confirm_wallet", "confirm_commit"}
        PROVE  /\ v # w /\ req'[v] = req[v] /\ req[v].on \in Intents
               /\ rowLock'[req[v].on] = v /\ status'[req[v].on] = "pending"
    <2>1. v # w /\ req'[v] = req[v]
      BY <1>1, <1>2
    <2>2. req[v].on \in Intents /\ rowLock[req[v].on] = v /\ status[req[v].on] = "pending"
      BY <1>0, <1>2, <2>1 DEF LocksAgree, RequestsKnowIntents
    <2>3. QED
      BY <2>1, <2>2
  <1>3. \A v \in Workers : req'[v].at = "confirm_commit" =>
          walletLock'[WalletOf[req'[v].on]] = v /\ req'[v].read = balance'[WalletOf[req'[v].on]]
    BY <1>0, <1>2 DEF LocksAgree
  <1>4. ASSUME NEW i \in Intents, rowLock'[i] # NoWorker
        PROVE  /\ req'[rowLock'[i]].on = i
               /\ req'[rowLock'[i]].at \in {"confirm_wallet", "confirm_commit"}
    <2>1. rowLock[i] \in Workers /\ rowLock'[i] = rowLock[i]
      BY <1>0, <1>4 DEF TypeOK
    <2>2. /\ req[rowLock[i]].on = i
          /\ req[rowLock[i]].at \in {"confirm_wallet", "confirm_commit"}
      BY <1>0, <1>4, <2>1 DEF LocksAgree
    <2>3. QED
      BY <1>1, <2>1, <2>2
  <1>5. ASSUME NEW x \in Wallets, walletLock'[x] # NoWorker
        PROVE  /\ req'[walletLock'[x]].at = "confirm_commit"
               /\ WalletOf[req'[walletLock'[x]].on] = x
    <2>1. walletLock[x] \in Workers /\ walletLock'[x] = walletLock[x]
      BY <1>0, <1>5 DEF TypeOK
    <2>2. /\ req[walletLock[x]].at = "confirm_commit"
          /\ WalletOf[req[walletLock[x]].on] = x
      BY <1>0, <1>5, <2>1 DEF LocksAgree
    <2>3. QED
      BY <1>1, <2>1, <2>2
  <1>6. QED
    BY <1>2, <1>3, <1>4, <1>5 DEF LocksAgree

\* A step of one request that inserts no row and ends at a request about
\* inserted rows keeps what requests know.
LEMMA KnowledgeKept ==
  ASSUME IInv, NEW w \in Workers, NEW r \in Requests, Continue(w, r),
         r.at # "create_insert",
         r.at \notin {"idle", "sweep_next"} => r.on \in Intents,
         r.on \in Intents => status[r.on] # "none",
         \A i \in r.todo : status[i] # "none",
         \A i \in Intents : status'[i] = "none" <=> status[i] = "none",
         \A i \in Intents : status[i] = "none" =>
           gateway'[i] = gateway[i] /\ txnNo'[i] = txnNo[i]
  PROVE  RequestsKnowIntents'
  <1>0. TypeOK /\ RequestsKnowIntents
    BY DEF IInv
  <1>1. req'[w] = r /\ \A v \in Workers : v # w => req'[v] = req[v]
    BY <1>0, ContinueType
  <1>2. \A v \in Workers : req[v].todo \subseteq Intents /\ r.todo \subseteq Intents
    BY <1>0 DEF TypeOK, Requests
  <1>3. QED
    BY <1>0, <1>1, <1>2 DEF RequestsKnowIntents

\* A step that writes no credit and moves no status back to "none" or "pending",
\* nor forward to "confirmed", keeps the ledger facts.
LEMMA CreditsKept ==
  ASSUME IInv, UNCHANGED <<balance, ledger>>,
         \A i \in Intents :
           /\ status[i] \in {"confirmed", "cancelled"} =>
                status'[i] \in {"confirmed", "cancelled"}
           /\ status'[i] = "confirmed" => status[i] = "confirmed"
  PROVE  (CreditsMatchStatus /\ CreditedOnce /\ LedgerChains)'
  <1>0. TypeOK /\ CreditsMatchStatus /\ CreditedOnce /\ LedgerChains
    BY DEF IInv
  <1>1. \A i \in Intents : CreditsOf(i)' = CreditsOf(i)
    BY DEF CreditsOf
  <1>2. ASSUME NEW x \in Wallets, NEW k \in DOMAIN ledger[x]
        PROVE  ledger[x][k].intent \in Intents
    <2>1. ledger[x] \in Seq(Row)
      BY <1>0 DEF TypeOK
    <2>2. ledger[x][k] \in Row
      BY <2>1
    <2>3. QED
      BY <2>2 DEF Row
  <1>3. CreditsMatchStatus'
    BY <1>0, <1>1, <1>2 DEF CreditsMatchStatus, ConfirmedIsCredited, Credited
  <1>4. CreditedOnce' /\ LedgerChains'
    BY <1>0, <1>1 DEF CreditedOnce, LedgerChains
  <1>5. QED
    BY <1>3, <1>4

-----------------------------------------------------------------------------
(* Every step preserves the invariant *)

\* Appending one element.
LEMMA AppendFacts ==
  ASSUME NEW S, NEW s \in Seq(S), NEW e \in S, NEW n, n = Len(s) + 1
  PROVE  /\ n \in Nat /\ DOMAIN Append(s, e) = 1..n /\ DOMAIN s = 1..(n - 1)
         /\ Len(Append(s, e)) = n /\ Append(s, e) # <<>>
         /\ Append(s, e)[n] = e
         /\ \A k \in DOMAIN s : Append(s, e)[k] = s[k]
         /\ s = <<>> <=> n = 1
  OBVIOUS

\* A commit adds one row for a pending intent to the end of its wallet's ledger,
\* starting from the balance of the wallet.
LEMMA CommitCredits ==
  ASSUME IInv, NEW i \in Intents, NEW x, x = WalletOf[i], status[i] = "pending",
         NEW row,
         row = [intent |-> i, before |-> balance[x], after |-> balance[x] + Amount[i]],
         ledger' = [ledger EXCEPT ![x] = Append(@, row)],
         balance' = [balance EXCEPT ![x] = balance[x] + Amount[i]],
         status' = [status EXCEPT ![i] = "confirmed"],
         NEW n, n = Len(ledger[x]) + 1
  PROVE  (CreditsMatchStatus /\ CreditedOnce /\ LedgerChains)'
  <1>0. TypeOK /\ CreditsMatchStatus /\ CreditedOnce /\ LedgerChains
    BY DEF IInv
  <1>1. i \in Intents /\ x \in Wallets /\ status[i] = "pending"
    OBVIOUS
  <1>2. \A j \in Intents : status'[j] = IF j = i THEN "confirmed" ELSE status[j]
    BY <1>0 DEF TypeOK
  <1>3. /\ \A y \in Wallets : ledger[y] \in Seq(Row)
        /\ balance[x] \in Nat /\ Amount[i] \in Nat
    BY <1>0, <1>1 DEF TypeOK
  <1>4. row \in Row
    BY <1>1, <1>3 DEF Row
  <1>5. \A y \in Wallets : y # x => ledger'[y] = ledger[y] /\ balance'[y] = balance[y]
    BY <1>0 DEF TypeOK
  <1>6. /\ ledger'[x] = Append(ledger[x], row)
        /\ balance'[x] = balance[x] + Amount[i]
    BY <1>0, <1>1 DEF TypeOK
  <1>7. /\ n \in Nat /\ DOMAIN ledger'[x] = 1..n /\ DOMAIN ledger[x] = 1..(n - 1)
        /\ Len(ledger'[x]) = n /\ ledger'[x] # <<>>
        /\ ledger'[x][n] = row
        /\ \A k \in DOMAIN ledger[x] : ledger'[x][k] = ledger[x][k]
        /\ ledger[x] = <<>> <=> n = 1
    BY <1>1, <1>3, <1>4, <1>6, AppendFacts
  <1>8. ASSUME NEW y \in Wallets, NEW k \in DOMAIN ledger[y]
        PROVE  /\ ledger[y][k].intent \in Intents /\ ledger[y][k].intent # i
               /\ WalletOf[ledger[y][k].intent] = y
    <2>1. ledger[y][k] \in Row
      BY <1>3
    <2>2. ledger[y][k].intent \in Intents
      BY <2>1 DEF Row
    <2>3. /\ WalletOf[ledger[y][k].intent] = y
          /\ status[ledger[y][k].intent] \in {"confirmed", "cancelled"}
      BY <1>0 DEF CreditsMatchStatus
    <2>4. QED
      BY <1>1, <2>2, <2>3
  <1>9. CreditsMatchStatus'
    <2>1. ASSUME NEW y \in Wallets, NEW k \in DOMAIN ledger'[y]
          PROVE  /\ WalletOf[ledger'[y][k].intent] = y
                 /\ status'[ledger'[y][k].intent] \in {"confirmed", "cancelled"}
      <3>1. CASE y = x /\ k = n
        BY <1>1, <1>2, <1>7, <3>1
      <3>2. CASE ~(y = x /\ k = n)
        <4>1. k \in DOMAIN ledger[y] /\ ledger'[y][k] = ledger[y][k]
          BY <1>5, <1>7, <2>1, <3>2
        <4>2. QED
          BY <1>0, <1>2, <1>8, <4>1 DEF CreditsMatchStatus
      <3>3. QED
        BY <3>1, <3>2
    <2>2. ASSUME NEW j \in Intents, status'[j] = "confirmed"
          PROVE  CreditsOf(j)' # {}
      <3>1. CASE j = i
        <4>1. n \in CreditsOf(i)'
          BY <1>7 DEF CreditsOf
        <4>2. QED
          BY <3>1, <4>1
      <3>2. CASE j # i
        <4>1. status[j] = "confirmed"
          BY <1>2, <2>2, <3>2
        <4>2. PICK k \in DOMAIN ledger[WalletOf[j]] : ledger[WalletOf[j]][k].intent = j
          <5>1. CreditsOf(j) # {}
            BY <1>0, <4>1 DEF CreditsMatchStatus, ConfirmedIsCredited, Credited
          <5>2. QED
            BY <5>1 DEF CreditsOf
        <4>3. k \in DOMAIN ledger'[WalletOf[j]] /\ ledger'[WalletOf[j]][k].intent = j
          BY <1>5, <1>7, <4>2
        <4>4. QED
          BY <4>3 DEF CreditsOf
      <3>3. QED
        BY <3>1, <3>2
    <2>3. QED
      BY <2>1, <2>2 DEF CreditsMatchStatus, ConfirmedIsCredited, Credited
  <1>10. CreditedOnce'
    <2> SUFFICES ASSUME NEW j \in Intents, NEW k \in CreditsOf(j)', NEW l \in CreditsOf(j)'
                 PROVE  k = l
      BY DEF CreditedOnce
    <2>1. CASE j = i
      <3>1. ASSUME NEW m \in CreditsOf(j)'
            PROVE  m = n
        BY <1>7, <1>8, <2>1, <3>1, <1>1 DEF CreditsOf
      <3>2. QED
        BY <3>1
    <2>2. CASE j # i
      <3>1. ASSUME NEW m \in CreditsOf(j)'
            PROVE  m \in CreditsOf(j)
        BY <1>5, <1>7, <2>2, <3>1 DEF CreditsOf
      <3>2. QED
        BY <1>0, <3>1 DEF CreditedOnce
    <2>3. QED
      BY <2>1, <2>2
  <1>11. LedgerChains'
    <2>1. ASSUME NEW y \in Wallets, y # x
          PROVE  LET rows == ledger'[y] IN
                 /\ \A k \in DOMAIN rows :
                      /\ rows[k].before = IF k = 1 THEN Opening[y] ELSE rows[k - 1].after
                      /\ rows[k].after = rows[k].before + Amount[rows[k].intent]
                 /\ balance'[y] = IF rows = <<>> THEN Opening[y] ELSE rows[Len(rows)].after
      BY <1>0, <1>5, <2>1 DEF LedgerChains
    <2>2. balance[x] = IF n = 1 THEN Opening[x] ELSE ledger[x][n - 1].after
      <3>1. Len(ledger[x]) = n - 1
        BY <1>1, <1>3
      <3>2. QED
        BY <1>0, <1>1, <1>7, <3>1 DEF LedgerChains
    <2>3. ASSUME NEW k \in 1..n
          PROVE  /\ ledger'[x][k].before =
                      IF k = 1 THEN Opening[x] ELSE ledger'[x][k - 1].after
                 /\ ledger'[x][k].after =
                      ledger'[x][k].before + Amount[ledger'[x][k].intent]
      <3>1. CASE k = n
        BY <1>7, <2>2, <3>1
      <3>2. CASE k # n
        <4>1. k \in DOMAIN ledger[x] /\ (k # 1 => k - 1 \in DOMAIN ledger[x])
          BY <1>7, <3>2
        <4>2. QED
          BY <1>0, <1>1, <1>7, <4>1 DEF LedgerChains
      <3>3. QED
        BY <3>1, <3>2
    <2>4. balance'[x] = ledger'[x][n].after
      BY <1>6, <1>7
    <2>5. LET rows == ledger'[x] IN
          /\ \A k \in DOMAIN rows :
               /\ rows[k].before = IF k = 1 THEN Opening[x] ELSE rows[k - 1].after
               /\ rows[k].after = rows[k].before + Amount[rows[k].intent]
          /\ balance'[x] = IF rows = <<>> THEN Opening[x] ELSE rows[Len(rows)].after
      BY <1>7, <2>3, <2>4
    <2>6. SUFFICES ASSUME NEW y \in Wallets
                   PROVE  LET rows == ledger'[y] IN
                          /\ \A k \in DOMAIN rows :
                               /\ rows[k].before = IF k = 1 THEN Opening[y] ELSE rows[k - 1].after
                               /\ rows[k].after = rows[k].before + Amount[rows[k].intent]
                          /\ balance'[y] = IF rows = <<>> THEN Opening[y] ELSE rows[Len(rows)].after
      BY Zenon DEF LedgerChains
    <2>7. CASE y = x
      BY <2>5, <2>7
    <2>8. CASE y # x
      BY <2>1, <2>8
    <2>9. QED
      BY <2>7, <2>8
  <1>12. QED
    BY <1>9, <1>10, <1>11

\* Every step preserves the ledger facts.
LEMMA StepCredits ==
  ASSUME IInv, [Next]_vars
  PROVE  (CreditsMatchStatus /\ CreditedOnce /\ LedgerChains)'
  <1> USE DEF intentVars, walletVars, lockVars
  <1>0. TypeOK /\ RequestsKnowIntents /\ LocksAgree
    BY DEF IInv
  <1>1. ASSUME NEW w \in Workers, ConfirmCommit(w)
        PROVE  (CreditsMatchStatus /\ CreditedOnce /\ LedgerChains)'
    <2>1. req[w].on \in Intents
      BY <1>0, <1>1 DEF ConfirmCommit, RequestsKnowIntents
    <2>2. status[req[w].on] = "pending" /\ req[w].read = balance[WalletOf[req[w].on]]
      BY <1>0, <1>1 DEF ConfirmCommit, LocksAgree
    <2>3. QED
      BY <1>1, <2>1, <2>2, CommitCredits DEF ConfirmCommit
  <1>2. ASSUME NEW w \in Workers, CreateInsert(w)
        PROVE  (CreditsMatchStatus /\ CreditedOnce /\ LedgerChains)'
    <2>1. req[w].on \in Intents /\ status[req[w].on] = "none"
      BY <1>0, <1>2 DEF CreateInsert, RequestsKnowIntents
    <2>2. \A i \in Intents :
           /\ status[i] \in {"confirmed", "cancelled"} =>
                status'[i] \in {"confirmed", "cancelled"}
           /\ status'[i] = "confirmed" => status[i] = "confirmed"
      BY <1>0, <1>2, <2>1 DEF CreateInsert, TypeOK
    <2>3. QED
      BY <1>2, <2>2, CreditsKept DEF CreateInsert
  <1>3. ASSUME NEW w \in Workers, CreateCancel(w) \/ CancelWrite(w)
        PROVE  (CreditsMatchStatus /\ CreditedOnce /\ LedgerChains)'
    <2>1. \A i \in Intents :
           /\ status[i] \in {"confirmed", "cancelled"} =>
                status'[i] \in {"confirmed", "cancelled"}
           /\ status'[i] = "confirmed" => status[i] = "confirmed"
      BY <1>0, <1>3 DEF CreateCancel, CancelWrite, TypeOK
    <2>2. QED
      BY <1>3, <2>1, CreditsKept DEF CreateCancel, CancelWrite
  <1>4. CASE UNCHANGED <<status, balance, ledger>>
    BY <1>4, CreditsKept
  <1>5. QED
    BY <1>1, <1>2, <1>3, <1>4
       DEF Next, Run, Arrive, CreateStep, GatewayAnswers, ConfirmTopup, vars,
           CreateCheckCap, HookReceive, HookUnknown, InquiryAsk, CancelRead,
           ParentConfirm, CreateAtGateway, CreateStore, InquiryAnswer, SweepAnswer,
           SweepNext, StartsSweep, ScheduledSweep, AdminSweep, SweepScan,
           ConfirmLockIntent, ConfirmAlreadyProcessed, ConfirmLockWallet, RequestFails, ServerCrash, GatewaySettles

\* Where the next request of a worker may stand.
LEMMA PointFacts ==
  ASSUME TypeOK, NEW w \in Workers
  PROVE  /\ Idle.at = "idle" /\ Idle.on = NoIntent /\ Idle.todo = {}
         /\ Rest(w).at \in {"idle", "sweep_next"} /\ Rest(w).on = NoIntent
         /\ Rest(w).todo \subseteq req[w].todo
         /\ \A at, i, via : /\ Request(at, i, via).at = at
                            /\ Request(at, i, via).on = i
                            /\ Request(at, i, via).todo = {}
         /\ \A by, at, i, S : /\ Sweeping(by, at, i, S).at = at
                              /\ Sweeping(by, at, i, S).on = i
                              /\ Sweeping(by, at, i, S).todo = S
         /\ \A at \in Points : /\ At(w, at).at = at /\ At(w, at).on = req[w].on
                               /\ At(w, at).todo = req[w].todo
  <1>1. \A at \in Points : /\ At(w, at).at = at /\ At(w, at).on = req[w].on
                           /\ At(w, at).todo = req[w].todo
    BY NextPointType
  <1>2. req[w].todo \subseteq req[w].todo /\ {} \subseteq req[w].todo
    OBVIOUS
  <1>3. QED
    BY <1>1, <1>2 DEF Idle, Rest, Request, Sweeping

\* A request that arrives, from an idle worker.
LEMMA ArriveStep ==
  ASSUME IInv, NEW w \in Workers, NEW i \in Intents, Arrive(w, i)
  PROVE  LocksAgree' /\ RequestsKnowIntents'
  <1> USE DEF intentVars, walletVars, lockVars
  <1>0. TypeOK /\ RequestsKnowIntents /\ LocksAgree
    BY DEF IInv
  <1>1. ASSUME NEW at \in {"inquiry_wait", "cancel_write", "confirm_intent"},
               NEW via \in Channels,
               Continue(w, Request(at, i, via)), req[w].at = "idle", status[i] # "none",
               UNCHANGED <<status, txnNo, gateway, balance, rowLock, walletLock>>
        PROVE  LocksAgree' /\ RequestsKnowIntents'
    <2>1. Request(at, i, via) \in Requests
      BY RequestType DEF Points
    <2>2. /\ Request(at, i, via).at = at /\ Request(at, i, via).on = i
          /\ Request(at, i, via).todo = {}
      BY DEF Request
    <2>3. LocksAgree'
      BY <1>1, <2>1, <2>2, LocksKept
    <2>4. RequestsKnowIntents'
      BY <1>1, <2>1, <2>2, KnowledgeKept
    <2>5. QED
      BY <2>3, <2>4
  <1>2. CASE InquiryAsk(w, i) \/ CancelRead(w, i) \/ ParentConfirm(w, i)
    BY <1>1, <1>2 DEF InquiryAsk, CancelRead, ParentConfirm, Offered, Channels
  <1>3. CASE HookReceive(w, i) /\ status[i] # "confirmed"
    <2>1. status[i] # "none"
      BY <1>0, <1>3 DEF HookReceive, RequestsKnowIntents
    <2>2. QED
      BY <1>1, <1>3, <2>1 DEF HookReceive, Channels
  <1>4. CASE UNCHANGED <<status, txnNo, gateway, balance, rowLock, walletLock, req>>
    BY <1>0, <1>4 DEF LocksAgree, RequestsKnowIntents
  <1>5. CASE CreateCheckCap(w, i)
    <2> DEFINE r == Request("create_insert", i, "user")
    <2>1. r \in Requests /\ r.at = "create_insert" /\ r.on = i /\ r.todo = {}
      BY RequestType DEF Request, Points, Channels
    <2>2. Continue(w, r) /\ req[w].at = "idle" /\ status[i] = "none"
      BY <1>5 DEF CreateCheckCap
    <2> HIDE DEF r
    <2>3. LocksAgree'
      BY <1>5, <2>1, <2>2, LocksKept DEF CreateCheckCap
    <2>4. req'[w] = r /\ \A v \in Workers : v # w => req'[v] = req[v]
      BY <1>0, <2>1, <2>2, ContinueType
    <2>5. RequestsKnowIntents'
      BY <1>0, <1>5, <2>1, <2>2, <2>4 DEF CreateCheckCap, RequestsKnowIntents
    <2>6. QED
      BY <2>3, <2>5
  <1>6. QED
    BY <1>2, <1>3, <1>4, <1>5 DEF Arrive, HookReceive, HookUnknown

\* The steps of createTopupIntent after its cap check.
LEMMA CreateStepKeeps ==
  ASSUME IInv, NEW w \in Workers, CreateStep(w)
  PROVE  LocksAgree' /\ RequestsKnowIntents'
  <1> USE DEF intentVars, walletVars, lockVars
  <1>0. TypeOK /\ RequestsKnowIntents /\ LocksAgree
    BY DEF IInv
  <1> DEFINE i == req[w].on
  <1>1. i \in Intents /\ i # NoIntent
    BY DEF CreateStep, CreateInsert, CreateAtGateway, CreateStore, CreateCancel,
           IInv, RequestsKnowIntents
  <1>2. /\ Idle \in Requests /\ \A at \in Points : At(w, at) \in Requests
        /\ Idle.at = "idle" /\ Idle.on = NoIntent /\ Idle.todo = {}
        /\ \A at \in Points : /\ At(w, at).at = at /\ At(w, at).on = i
                              /\ At(w, at).todo = req[w].todo
    BY <1>0, RequestType, NextPointType, PointFacts
  <1>3. CASE CreateInsert(w)
    <2> DEFINE r == IF i \in BayIntents THEN At(w, "create_gateway") ELSE Idle
    <2>1. /\ r \in Requests /\ r.at \in {"idle", "create_gateway"}
          /\ r.on \in {i, NoIntent} /\ (r.at = "create_gateway" => r.on = i)
          /\ r.todo \subseteq req[w].todo
      BY <1>2 DEF Points
    <2>2. Continue(w, r) /\ req[w].at = "create_insert" /\ status[i] = "none"
      BY <1>0, <1>1, <1>3 DEF CreateInsert, RequestsKnowIntents
    <2> HIDE DEF r
    <2>3. \A j \in Intents : status'[j] = IF j = i THEN "pending" ELSE status[j]
      BY <1>0, <1>3 DEF CreateInsert, TypeOK
    <2>4. RowFree(i)
      <3>1. ASSUME rowLock[i] # NoWorker
            PROVE  status[i] = "pending"
        <4>1. rowLock[i] \in Workers
          BY <1>0, <1>1, <3>1 DEF TypeOK
        <4>2. req[rowLock[i]].on = i
                /\ req[rowLock[i]].at \in {"confirm_wallet", "confirm_commit"}
          BY <1>0, <1>1, <3>1 DEF LocksAgree
        <4>3. QED
          BY <1>0, <4>1, <4>2 DEF LocksAgree
      <3>2. QED
        BY <2>2, <3>1 DEF RowFree
    <2>5. LocksAgree'
      BY <1>3, <2>1, <2>2, <2>3, <2>4, LocksKept DEF CreateInsert, RowFree
    <2>6. req'[w] = r /\ \A v \in Workers : v # w => req'[v] = req[v]
      BY <1>0, <2>1, <2>2, ContinueType
    <2>7. \A v \in Workers : v # w => req[v].on # i
      BY <1>0, <1>1, <2>2 DEF RequestsKnowIntents
    <2>8. \A v \in Workers : req[v].todo \subseteq Intents
      BY <1>0 DEF TypeOK, Requests
    <2>9. UNCHANGED <<gateway, txnNo>>
      BY <1>3 DEF CreateInsert
    <2>10. RequestsKnowIntents'
      BY <1>0, <1>1, <2>1, <2>2, <2>3, <2>6, <2>7, <2>8, <2>9 DEF RequestsKnowIntents
    <2>11. QED
      BY <2>5, <2>10
  <1>4. ASSUME CreateAtGateway(w) \/ CreateStore(w) \/ CreateCancel(w)
        PROVE  LocksAgree' /\ RequestsKnowIntents'
    <2>1. status[i] # "none" /\ \A j \in req[w].todo : status[j] # "none"
      BY <1>0, <1>1, <1>4 DEF CreateAtGateway, CreateStore, CreateCancel,
                              RequestsKnowIntents
    <2>2. \A j \in Intents : j # i =>
            status'[j] = status[j] /\ gateway'[j] = gateway[j] /\ txnNo'[j] = txnNo[j]
      BY <1>0, <1>4 DEF CreateAtGateway, CreateStore, CreateCancel, TypeOK
    <2>3. status'[i] # "none" /\ (status'[i] = status[i] \/ RowFree(i))
      BY <1>0, <1>1, <1>4, <2>1 DEF CreateAtGateway, CreateStore, CreateCancel, TypeOK
    <2>4. PICK r \in {Idle, At(w, "create_store"), At(w, "create_cancel")} :
            Continue(w, r)
      BY <1>4 DEF CreateAtGateway, CreateStore, CreateCancel
    <2>5. /\ r \in Requests /\ r.on \in {i, NoIntent}
          /\ r.at \in {"idle", "create_store", "create_cancel"}
          /\ (r.at # "idle" => r.on = i) /\ r.todo \subseteq req[w].todo
      BY <1>2, <2>4 DEF Points
    <2>6. /\ req[w].at \in {"create_gateway", "create_store", "create_cancel"}
          /\ UNCHANGED <<balance, rowLock, walletLock>>
      BY <1>4 DEF CreateAtGateway, CreateStore, CreateCancel
    <2>7. LocksAgree'
      BY <2>2, <2>3, <2>4, <2>5, <2>6, LocksKept DEF RowFree
    <2>8. RequestsKnowIntents'
      BY <1>1, <2>1, <2>2, <2>3, <2>4, <2>5, KnowledgeKept
    <2>9. QED
      BY <2>7, <2>8
  <1>5. QED
    BY <1>3, <1>4 DEF CreateStep

\* The gateway's answers, the sweep's bookkeeping, the cancelling UPDATE and a
\* confirmation that finds its intent already processed.
LEMMA QuietStepKeeps ==
  ASSUME IInv, NEW w \in Workers,
         GatewayAnswers(w) \/ SweepNext(w) \/ CancelWrite(w) \/ ConfirmAlreadyProcessed(w)
  PROVE  LocksAgree' /\ RequestsKnowIntents'
  <1> USE DEF intentVars, walletVars, lockVars
  <1>0. TypeOK /\ RequestsKnowIntents /\ LocksAgree
    BY DEF IInv
  <1>1. /\ Idle \in Requests /\ Rest(w) \in Requests
        /\ \A at \in Points : At(w, at) \in Requests
        /\ Idle.at = "idle" /\ Idle.on = NoIntent /\ Idle.todo = {}
        /\ Rest(w).at \in {"idle", "sweep_next"} /\ Rest(w).on = NoIntent
        /\ Rest(w).todo \subseteq req[w].todo
        /\ \A at \in Points : /\ At(w, at).at = at /\ At(w, at).on = req[w].on
                              /\ At(w, at).todo = req[w].todo
    BY <1>0, RequestType, NextPointType, PointFacts
  <1>2. req[w].todo \subseteq Intents /\ \A j \in req[w].todo : status[j] # "none"
    BY <1>0 DEF TypeOK, Requests, RequestsKnowIntents
  <1>3. req[w].at \notin {"create_insert", "confirm_wallet", "confirm_commit", "idle"}
    BY DEF GatewayAnswers, InquiryAnswer, SweepAnswer, SweepNext, CancelWrite,
           ConfirmAlreadyProcessed
  <1>4. CASE SweepNext(w) /\ req[w].todo # {}
    <2>1. PICK i \in req[w].todo :
            Continue(w, Sweeping(req[w].via, "sweep_wait", i, req[w].todo \ {i}))
      BY <1>4 DEF SweepNext
    <2> DEFINE r == Sweeping(req[w].via, "sweep_wait", i, req[w].todo \ {i})
    <2>2. r \in Requests /\ r.at = "sweep_wait" /\ r.on = i /\ r.todo = req[w].todo \ {i}
      BY <1>2, <1>4, RequestType DEF Points, Sweeping, SweepNext
    <2> HIDE DEF r
    <2>3. Continue(w, r) /\ UNCHANGED <<status, txnNo, gateway, balance, rowLock, walletLock>>
      BY <1>4, <2>1 DEF SweepNext, r
    <2>4. LocksAgree'
      BY <1>3, <2>2, <2>3, LocksKept
    <2>5. RequestsKnowIntents'
      BY <1>2, <2>2, <2>3, KnowledgeKept
    <2>6. QED
      BY <2>4, <2>5
  <1>5. ASSUME ~(SweepNext(w) /\ req[w].todo # {})
        PROVE  LocksAgree' /\ RequestsKnowIntents'
    <2>1. PICK r \in {Idle, Rest(w), At(w, "confirm_intent"), At(w, "cancel_write")} :
            /\ Continue(w, r)
            /\ r \notin {Idle, Rest(w)} => GatewayAnswers(w)
      BY <1>5 DEF GatewayAnswers, InquiryAnswer, SweepAnswer, SweepNext, CancelWrite,
                  ConfirmAlreadyProcessed, Reply
    <2>2. GatewayAnswers(w) => req[w].on \in Intents /\ status[req[w].on] # "none"
      BY <1>0, <1>3 DEF GatewayAnswers, InquiryAnswer, SweepAnswer, RequestsKnowIntents
    <2>3. /\ r \in Requests
          /\ r.at \in {"idle", "sweep_next", "confirm_intent", "cancel_write"}
          /\ r.at \notin {"idle", "sweep_next"} => r.on \in Intents
          /\ r.on \in Intents => status[r.on] # "none"
          /\ r.todo \subseteq req[w].todo
      BY <1>1, <2>1, <2>2 DEF Points
    <2>4. UNCHANGED <<txnNo, gateway, balance, rowLock, walletLock>>
      BY <1>5 DEF GatewayAnswers, InquiryAnswer, SweepAnswer, SweepNext, CancelWrite,
                  ConfirmAlreadyProcessed
    <2>5. \A j \in Intents :
            /\ status'[j] = "none" <=> status[j] = "none"
            /\ status'[j] = status[j] \/ rowLock[j] = NoWorker
      <3>1. CASE CancelWrite(w)
        <4>1. req[w].on \in Intents /\ status[req[w].on] # "none" /\ RowFree(req[w].on)
          BY <1>0, <3>1 DEF CancelWrite, RequestsKnowIntents
        <4>2. QED
          BY <1>0, <3>1, <4>1 DEF CancelWrite, RowFree, TypeOK
      <3>2. CASE ~CancelWrite(w)
        BY <3>2 DEF GatewayAnswers, InquiryAnswer, SweepAnswer, SweepNext,
                    ConfirmAlreadyProcessed
      <3>3. QED
        BY <3>1, <3>2
    <2>6. LocksAgree'
      BY <1>3, <2>1, <2>3, <2>4, <2>5, LocksKept
    <2>7. RequestsKnowIntents'
      BY <1>2, <2>1, <2>3, <2>4, <2>5, KnowledgeKept
    <2>8. QED
      BY <2>6, <2>7
  <1>6. QED
    BY <1>4, <1>5

\* confirmTopup takes the intent row, then the wallet row.
LEMMA ConfirmLockKeeps ==
  ASSUME IInv, NEW w \in Workers, ConfirmLockIntent(w) \/ ConfirmLockWallet(w)
  PROVE  LocksAgree' /\ RequestsKnowIntents'
  <1> USE DEF intentVars, walletVars, lockVars
  <1>0. TypeOK /\ RequestsKnowIntents /\ LocksAgree
    BY DEF IInv
  <1> DEFINE i == req[w].on
             x == WalletOf[i]
  <1>1. i \in Intents /\ x \in Wallets /\ status[i] = "pending"
    BY <1>0 DEF ConfirmLockIntent, ConfirmLockWallet, RequestsKnowIntents, LocksAgree
  <1>2. PICK r \in Requests :
          /\ Continue(w, r)
          /\ r.at = IF ConfirmLockIntent(w) THEN "confirm_wallet" ELSE "confirm_commit"
          /\ r.on = i /\ r.todo = req[w].todo
          /\ ~ConfirmLockIntent(w) => r.read = balance[x]
    <2>1. CASE ConfirmLockIntent(w)
      BY <1>0, <2>1, NextPointType, PointFacts DEF ConfirmLockIntent, Points
    <2>2. CASE ~ConfirmLockIntent(w)
      <3> DEFINE a == At(w, "confirm_commit")
                 r == [a EXCEPT !.read = balance[x]]
      <3>1. a \in Requests /\ a.at = "confirm_commit" /\ a.on = i /\ a.todo = req[w].todo
        BY <1>0, NextPointType, PointFacts DEF Points
      <3>2. Continue(w, r)
        BY <2>2 DEF ConfirmLockWallet
      <3> HIDE DEF a
      <3>3. balance[x] \in Nat
        BY <1>0, <1>1 DEF TypeOK
      <3>4. r \in Requests /\ r.at = a.at /\ r.on = a.on /\ r.todo = a.todo
              /\ r.read = balance[x]
        BY <3>1, <3>3 DEF Requests
      <3>5. QED
        BY <2>2, <3>1, <3>2, <3>4
    <2>3. QED
      BY <2>1, <2>2
  <1>3. req'[w] = r /\ \A v \in Workers : v # w => req'[v] = req[v]
    BY <1>0, <1>2, ContinueType
  <1>4. UNCHANGED <<status, balance, txnNo, gateway>>
    BY DEF ConfirmLockIntent, ConfirmLockWallet
  <1>5. RequestsKnowIntents'
    <2>1. \A j \in r.todo : status[j] # "none"
      BY <1>0, <1>2 DEF RequestsKnowIntents
    <2>2. QED
      BY <1>1, <1>2, <1>4, <2>1, KnowledgeKept
  <1>6. CASE ConfirmLockIntent(w)
    <2>1. /\ rowLock[i] = NoWorker /\ walletLock' = walletLock
          /\ \A j \in Intents : rowLock'[j] = IF j = i THEN w ELSE rowLock[j]
          /\ req[w].at = "confirm_intent"
      BY <1>0, <1>1, <1>6 DEF ConfirmLockIntent, RowFree, TypeOK
    <2>2. ASSUME NEW v \in Workers, req'[v].at \in {"confirm_wallet", "confirm_commit"}
          PROVE  rowLock'[req'[v].on] = v /\ status'[req'[v].on] = "pending"
      <3>1. CASE v = w
        BY <1>1, <1>2, <1>3, <1>4, <2>1, <3>1
      <3>2. CASE v # w
        <4>1. req[v].on \in Intents /\ rowLock[req[v].on] = v /\ status[req[v].on] = "pending"
          BY <1>0, <1>3, <2>2, <3>2 DEF LocksAgree, RequestsKnowIntents
        <4>2. QED
          BY <1>3, <1>4, <2>1, <3>2, <4>1
      <3>3. QED
        BY <3>1, <3>2
    <2>3. ASSUME NEW v \in Workers, req'[v].at = "confirm_commit"
          PROVE  /\ walletLock'[WalletOf[req'[v].on]] = v
                 /\ req'[v].read = balance'[WalletOf[req'[v].on]]
      BY <1>0, <1>2, <1>3, <1>4, <1>6, <2>1, <2>3 DEF LocksAgree
    <2>4. ASSUME NEW j \in Intents, rowLock'[j] # NoWorker
          PROVE  /\ req'[rowLock'[j]].on = j
                 /\ req'[rowLock'[j]].at \in {"confirm_wallet", "confirm_commit"}
      <3>1. CASE j = i
        BY <1>2, <1>3, <1>6, <2>1, <3>1
      <3>2. CASE j # i
        <4>1. rowLock'[j] = rowLock[j] /\ rowLock[j] \in Workers
          BY <1>0, <2>1, <2>4, <3>2 DEF TypeOK
        <4>2. req[rowLock[j]].on = j
                /\ req[rowLock[j]].at \in {"confirm_wallet", "confirm_commit"}
          BY <1>0, <2>4, <4>1 DEF LocksAgree
        <4>3. QED
          BY <1>3, <2>1, <4>1, <4>2
      <3>3. QED
        BY <3>1, <3>2
    <2>5. ASSUME NEW y \in Wallets, walletLock'[y] # NoWorker
          PROVE  /\ req'[walletLock'[y]].at = "confirm_commit"
                 /\ WalletOf[req'[walletLock'[y]].on] = y
      <3>1. walletLock[y] \in Workers
        BY <1>0, <2>1, <2>5 DEF TypeOK
      <3>2. req[walletLock[y]].at = "confirm_commit" /\ WalletOf[req[walletLock[y]].on] = y
        BY <1>0, <2>1, <2>5 DEF LocksAgree
      <3>3. QED
        BY <1>3, <2>1, <3>1, <3>2
    <2>6. QED
      BY <1>5, <2>2, <2>3, <2>4, <2>5 DEF LocksAgree
  <1>7. CASE ~ConfirmLockIntent(w)
    <2>1. /\ rowLock' = rowLock /\ walletLock[x] = NoWorker
          /\ \A y \in Wallets : walletLock'[y] = IF y = x THEN w ELSE walletLock[y]
          /\ req[w].at = "confirm_wallet"
      BY <1>0, <1>1, <1>7 DEF ConfirmLockWallet, TypeOK
    <2>2. ASSUME NEW v \in Workers, req'[v].at \in {"confirm_wallet", "confirm_commit"}
          PROVE  rowLock'[req'[v].on] = v /\ status'[req'[v].on] = "pending"
      <3>1. req'[v].on = req[v].on /\ req[v].at \in {"confirm_wallet", "confirm_commit"}
        BY <1>2, <1>3, <2>1, <2>2
      <3>2. QED
        BY <1>0, <1>4, <2>1, <3>1 DEF LocksAgree
    <2>3. ASSUME NEW v \in Workers, req'[v].at = "confirm_commit"
          PROVE  /\ walletLock'[WalletOf[req'[v].on]] = v
                 /\ req'[v].read = balance'[WalletOf[req'[v].on]]
      <3>1. CASE v = w
        BY <1>1, <1>2, <1>3, <1>4, <1>7, <2>1, <3>1
      <3>2. CASE v # w
        <4>1. /\ req[v].on \in Intents /\ walletLock[WalletOf[req[v].on]] = v
              /\ req[v].read = balance[WalletOf[req[v].on]]
          BY <1>0, <1>3, <2>3, <3>2 DEF LocksAgree, RequestsKnowIntents
        <4>2. WalletOf[req[v].on] \in Wallets /\ WalletOf[req[v].on] # x
          BY <2>1, <4>1
        <4>3. QED
          BY <1>3, <1>4, <2>1, <3>2, <4>1, <4>2
      <3>3. QED
        BY <3>1, <3>2
    <2>4. ASSUME NEW j \in Intents, rowLock'[j] # NoWorker
          PROVE  /\ req'[rowLock'[j]].on = j
                 /\ req'[rowLock'[j]].at \in {"confirm_wallet", "confirm_commit"}
      <3>1. rowLock[j] \in Workers
        BY <1>0, <2>1, <2>4 DEF TypeOK
      <3>2. req[rowLock[j]].on = j
              /\ req[rowLock[j]].at \in {"confirm_wallet", "confirm_commit"}
        BY <1>0, <2>1, <2>4 DEF LocksAgree
      <3>3. QED
        BY <1>2, <1>3, <1>7, <2>1, <3>1, <3>2
    <2>5. ASSUME NEW y \in Wallets, walletLock'[y] # NoWorker
          PROVE  /\ req'[walletLock'[y]].at = "confirm_commit"
                 /\ WalletOf[req'[walletLock'[y]].on] = y
      <3>1. CASE y = x
        BY <1>2, <1>3, <1>7, <2>1, <3>1
      <3>2. CASE y # x
        <4>1. walletLock[y] \in Workers /\ walletLock'[y] = walletLock[y]
          BY <1>0, <2>1, <2>5, <3>2 DEF TypeOK
        <4>2. req[walletLock[y]].at = "confirm_commit" /\ WalletOf[req[walletLock[y]].on] = y
          BY <1>0, <2>5, <4>1 DEF LocksAgree
        <4>3. QED
          BY <1>3, <2>1, <4>1, <4>2
      <3>3. QED
        BY <3>1, <3>2
    <2>6. QED
      BY <1>5, <2>2, <2>3, <2>4, <2>5 DEF LocksAgree
  <1>8. QED
    BY <1>6, <1>7

\* Requests that end give back their locks; rows and wallets they did not hold
\* stay as they are.
LEMMA LocksReleased ==
  ASSUME IInv, NEW D \in SUBSET Workers,
         \A v \in Workers \ D : req'[v] = req[v],
         \A v \in D : req'[v].at \notin {"confirm_wallet", "confirm_commit"},
         \A i \in Intents :
           rowLock'[i] = IF rowLock[i] \in D THEN NoWorker ELSE rowLock[i],
         \A x \in Wallets :
           walletLock'[x] = IF walletLock[x] \in D THEN NoWorker ELSE walletLock[x],
         \A i \in Intents : status'[i] = status[i] \/ rowLock[i] \in D,
         \A x \in Wallets : balance'[x] = balance[x] \/ walletLock[x] \in D
  PROVE  LocksAgree'
  <1>0. TypeOK /\ LocksAgree /\ RequestsKnowIntents
    BY DEF IInv
  <1>1. ASSUME NEW v \in Workers,
               req'[v].at \in {"confirm_wallet", "confirm_commit"}
        PROVE  /\ v \notin D /\ req'[v] = req[v] /\ req[v].on \in Intents
               /\ rowLock'[req[v].on] = v /\ status'[req[v].on] = "pending"
    <2>1. v \notin D /\ req'[v] = req[v]
      BY <1>1
    <2>2. req[v].on \in Intents /\ rowLock[req[v].on] = v /\ status[req[v].on] = "pending"
      BY <1>0, <1>1, <2>1 DEF LocksAgree, RequestsKnowIntents
    <2>3. QED
      BY <2>1, <2>2
  <1>2. ASSUME NEW v \in Workers, req'[v].at = "confirm_commit"
        PROVE  /\ walletLock'[WalletOf[req'[v].on]] = v
               /\ req'[v].read = balance'[WalletOf[req'[v].on]]
    <2>1. v \notin D /\ req'[v] = req[v] /\ req[v].on \in Intents
      BY <1>1, <1>2
    <2>2. PICK x \in Wallets : x = WalletOf[req[v].on]
      BY <2>1
    <2>3. walletLock[x] = v /\ req[v].read = balance[x]
      BY <1>0, <1>2, <2>1, <2>2 DEF LocksAgree
    <2>4. walletLock'[x] = v /\ balance'[x] = balance[x]
      BY <2>1, <2>3
    <2>5. QED
      BY <2>1, <2>2, <2>3, <2>4
  <1>3. ASSUME NEW i \in Intents, rowLock'[i] # NoWorker
        PROVE  /\ req'[rowLock'[i]].on = i
               /\ req'[rowLock'[i]].at \in {"confirm_wallet", "confirm_commit"}
    <2>1. rowLock[i] \in Workers \ D /\ rowLock'[i] = rowLock[i]
      BY <1>0, <1>3 DEF TypeOK
    <2>2. /\ req[rowLock[i]].on = i
          /\ req[rowLock[i]].at \in {"confirm_wallet", "confirm_commit"}
      BY <1>0, <1>3, <2>1 DEF LocksAgree
    <2>3. QED
      BY <2>1, <2>2
  <1>4. ASSUME NEW x \in Wallets, walletLock'[x] # NoWorker
        PROVE  /\ req'[walletLock'[x]].at = "confirm_commit"
               /\ WalletOf[req'[walletLock'[x]].on] = x
    <2>1. walletLock[x] \in Workers \ D /\ walletLock'[x] = walletLock[x]
      BY <1>0, <1>4 DEF TypeOK
    <2>2. /\ req[walletLock[x]].at = "confirm_commit"
          /\ WalletOf[req[walletLock[x]].on] = x
      BY <1>0, <1>4, <2>1 DEF LocksAgree
    <2>3. QED
      BY <2>1, <2>2
  <1>5. QED
    BY <1>1, <1>2, <1>3, <1>4 DEF LocksAgree

\* Requests that end, or go on to the next intent of their sweep, know nothing
\* that they did not know before.
LEMMA KnowledgeReleased ==
  ASSUME IInv, NEW D \in SUBSET Workers,
         \A v \in Workers \ D : req'[v] = req[v],
         \A v \in D : /\ req'[v].at \in {"idle", "sweep_next"}
                      /\ req'[v].on = NoIntent
                      /\ req'[v].todo \subseteq req[v].todo,
         \A i \in Intents : status'[i] = "none" <=> status[i] = "none",
         UNCHANGED <<gateway, txnNo>>
  PROVE  RequestsKnowIntents'
  <1>0. TypeOK /\ RequestsKnowIntents
    BY DEF IInv
  <1>1. \A v \in Workers : req[v].todo \subseteq Intents
    BY <1>0 DEF TypeOK, Requests
  <1>2. ASSUME NEW v \in Workers
        PROVE  /\ req'[v].at \notin {"idle", "sweep_next"} => req'[v].on \in Intents
               /\ req'[v].on \in Intents =>
                    (status'[req'[v].on] = "none" <=> req'[v].at = "create_insert")
               /\ \A i \in req'[v].todo : status'[i] # "none"
    <2>1. CASE v \in D
      <3>1. \A i \in req[v].todo : i \in Intents /\ status[i] # "none"
        BY <1>0, <1>1 DEF RequestsKnowIntents
      <3>2. QED
        BY <2>1, <3>1
    <2>2. CASE v \notin D
      <3>1. /\ req[v].at \notin {"idle", "sweep_next"} => req[v].on \in Intents
            /\ req[v].on \in Intents => (status[req[v].on] = "none" <=> req[v].at = "create_insert")
            /\ \A i \in req[v].todo : i \in Intents /\ status[i] # "none"
        BY <1>0, <1>1 DEF RequestsKnowIntents
      <3>2. QED
        BY <2>2, <3>1
    <2>3. QED
      BY <2>1, <2>2
  <1>3. ASSUME NEW v \in Workers, req'[v].at = "create_insert",
               NEW u \in Workers, req'[u].on = req'[v].on
        PROVE  u = v
    BY <1>0, <1>3 DEF RequestsKnowIntents
  <1>4. \A i \in Intents : status'[i] = "none" => gateway'[i] = "absent" /\ ~txnNo'[i]
    BY <1>0 DEF RequestsKnowIntents
  <1>5. QED
    BY <1>2, <1>3, <1>4 DEF RequestsKnowIntents

\* The commit of confirmTopup gives back both locks.
LEMMA CommitKeeps ==
  ASSUME IInv, NEW w \in Workers, ConfirmCommit(w)
  PROVE  LocksAgree' /\ RequestsKnowIntents'
  <1>0. TypeOK /\ RequestsKnowIntents /\ LocksAgree
    BY DEF IInv
  <1> DEFINE i == req[w].on
             x == WalletOf[i]
  <1>1. /\ req[w].at = "confirm_commit" /\ i \in Intents /\ x \in Wallets
        /\ rowLock[i] = w /\ walletLock[x] = w /\ status[i] = "pending"
    BY <1>0 DEF ConfirmCommit, RequestsKnowIntents, LocksAgree
  <1>2. Reply(w) /\ UNCHANGED <<txnNo, gateway>>
    BY DEF ConfirmCommit
  <1>3. req'[w] = Rest(w) /\ \A v \in Workers \ {w} : req'[v] = req[v]
    BY <1>0, <1>1, <1>2, ReplyType
  <1>4. /\ Rest(w).at \in {"idle", "sweep_next"} /\ Rest(w).on = NoIntent
        /\ Rest(w).todo \subseteq req[w].todo
    BY <1>0, PointFacts
  <1>5. \A j \in Intents : rowLock[j] = w => j = i
    BY <1>0 DEF LocksAgree
  <1>6. \A y \in Wallets : walletLock[y] = w => y = x
    BY <1>0 DEF LocksAgree
  <1>7. \A j \in Intents :
          /\ rowLock'[j] = IF j = i THEN NoWorker ELSE rowLock[j]
          /\ status'[j] = IF j = i THEN "confirmed" ELSE status[j]
    BY <1>0, <1>1 DEF ConfirmCommit, TypeOK
  <1>8. \A y \in Wallets :
          /\ walletLock'[y] = IF y = x THEN NoWorker ELSE walletLock[y]
          /\ y # x => balance'[y] = balance[y]
    BY <1>0, <1>1 DEF ConfirmCommit, TypeOK
  <1>9. \A j \in Intents :
          /\ rowLock'[j] = IF rowLock[j] \in {w} THEN NoWorker ELSE rowLock[j]
          /\ status'[j] = status[j] \/ rowLock[j] \in {w}
          /\ status'[j] = "none" <=> status[j] = "none"
    BY <1>1, <1>5, <1>7
  <1>10. \A y \in Wallets :
          /\ walletLock'[y] = IF walletLock[y] \in {w} THEN NoWorker ELSE walletLock[y]
          /\ balance'[y] = balance[y] \/ walletLock[y] \in {w}
    BY <1>1, <1>6, <1>8
  <1>11. LocksAgree'
    BY <1>3, <1>4, <1>9, <1>10, LocksReleased
  <1>12. RequestsKnowIntents'
    <2>1. \A v \in {w} : /\ req'[v].at \in {"idle", "sweep_next"}
                         /\ req'[v].on = NoIntent
                         /\ req'[v].todo \subseteq req[v].todo
      BY <1>3, <1>4
    <2>2. \A j \in Intents : status'[j] = "none" <=> status[j] = "none"
      BY <1>9
    <2>3. {w} \in SUBSET Workers /\ UNCHANGED <<gateway, txnNo>>
      BY <1>2
    <2>4. QED
      BY <1>3, <2>1, <2>2, <2>3, KnowledgeReleased
  <1>13. QED
    BY <1>11, <1>12

\* An error, a crash, a sweep's scan and the gateway's own steps.
LEMMA OtherStepKeeps ==
  ASSUME IInv,
         \/ \E w \in Workers, S \in SUBSET Intents : StartsSweep(w, S)
         \/ \E w \in Workers : RequestFails(w)
         \/ ServerCrash
         \/ \E i \in Intents : GatewaySettles(i)
         \/ UNCHANGED vars
  PROVE  LocksAgree' /\ RequestsKnowIntents'
  <1> USE DEF intentVars, walletVars, lockVars
  <1>0. TypeOK /\ RequestsKnowIntents /\ LocksAgree
    BY DEF IInv
  <1>1. ASSUME NEW w \in Workers, NEW S \in SUBSET Intents, StartsSweep(w, S)
        PROVE  LocksAgree' /\ RequestsKnowIntents'
    <2>0. PICK by \in Sweeps : SweepScan(w, by, S)
      BY <1>1 DEF StartsSweep, ScheduledSweep, AdminSweep, Sweeps
    <2> DEFINE r == Sweeping(by, "sweep_next", NoIntent, S)
    <2>1. r \in Requests /\ r.at = "sweep_next" /\ r.on = NoIntent /\ r.todo = S
      BY RequestType DEF Points, Sweeping
    <2>2. \A i \in S : status[i] # "none"
      BY <2>0 DEF SweepScan, IsScan, SweepCandidates
    <2>3. /\ Continue(w, r) /\ req[w].at = "idle"
          /\ UNCHANGED <<status, txnNo, gateway, balance, rowLock, walletLock>>
      BY <2>0 DEF SweepScan
    <2> HIDE DEF r
    <2>4. LocksAgree'
      BY <2>1, <2>3, LocksKept
    <2>5. RequestsKnowIntents'
      BY <2>1, <2>2, <2>3, KnowledgeKept
    <2>6. QED
      BY <2>4, <2>5
  <1>2. ASSUME NEW w \in Workers, RequestFails(w)
        PROVE  LocksAgree' /\ RequestsKnowIntents'
    <2>1. PICK r \in {Idle, Rest(w)} : Continue(w, r)
      BY <1>2 DEF RequestFails
    <2>2. /\ r \in Requests /\ r.at \in {"idle", "sweep_next"} /\ r.on = NoIntent
          /\ r.todo \subseteq req[w].todo
      BY <1>0, <2>1, RequestType, NextPointType, PointFacts
    <2>3. req'[w] = r /\ \A v \in Workers \ {w} : req'[v] = req[v]
      BY <1>0, <2>1, <2>2, ContinueType
    <2>4. UNCHANGED <<status, txnNo, gateway, balance>>
      BY <1>2 DEF RequestFails
    <2>5. \A j \in Intents :
            rowLock'[j] = IF rowLock[j] \in {w} THEN NoWorker ELSE rowLock[j]
      BY <1>0, <1>2 DEF RequestFails, Unlocked, TypeOK
    <2>6. \A y \in Wallets :
            walletLock'[y] = IF walletLock[y] \in {w} THEN NoWorker ELSE walletLock[y]
      BY <1>0, <1>2 DEF RequestFails, Unlocked, TypeOK
    <2>7. LocksAgree'
      BY <2>2, <2>3, <2>4, <2>5, <2>6, LocksReleased
    <2>8. RequestsKnowIntents'
      <3>1. \A v \in {w} : /\ req'[v].at \in {"idle", "sweep_next"}
                           /\ req'[v].on = NoIntent
                           /\ req'[v].todo \subseteq req[v].todo
        BY <2>2, <2>3
      <3>2. {w} \in SUBSET Workers
        OBVIOUS
      <3>3. QED
        BY <2>3, <2>4, <3>1, <3>2, KnowledgeReleased
    <2>9. QED
      BY <2>7, <2>8
  <1>3. CASE ServerCrash
    <2>1. \A v \in Workers : req'[v] = Idle
      BY <1>3 DEF ServerCrash
    <2>2. Idle.at = "idle" /\ Idle.on = NoIntent /\ Idle.todo = {}
      BY DEF Idle
    <2>3. UNCHANGED <<status, txnNo, gateway, balance>>
      BY <1>3 DEF ServerCrash
    <2>4. \A j \in Intents :
            rowLock'[j] = IF rowLock[j] \in Workers THEN NoWorker ELSE rowLock[j]
      BY <1>0, <1>3 DEF ServerCrash, Unlocked, TypeOK
    <2>5. \A y \in Wallets :
            walletLock'[y] = IF walletLock[y] \in Workers THEN NoWorker ELSE walletLock[y]
      BY <1>0, <1>3 DEF ServerCrash, Unlocked, TypeOK
    <2>6. LocksAgree'
      BY <2>1, <2>2, <2>3, <2>4, <2>5, LocksReleased
    <2>7. RequestsKnowIntents'
      BY <2>1, <2>2, <2>3, KnowledgeReleased
    <2>8. QED
      BY <2>6, <2>7
  <1>4. ASSUME NEW i \in Intents, GatewaySettles(i)
        PROVE  LocksAgree' /\ RequestsKnowIntents'
    <2>1. /\ UNCHANGED <<status, txnNo, balance, rowLock, walletLock, req>>
          /\ gateway[i] = "open" /\ \A j \in Intents : j # i => gateway'[j] = gateway[j]
      BY <1>0, <1>4 DEF GatewaySettles, TypeOK
    <2>2. LocksAgree'
      BY <1>0, <2>1 DEF LocksAgree
    <2>3. RequestsKnowIntents'
      BY <1>0, <2>1 DEF RequestsKnowIntents
    <2>4. QED
      BY <2>2, <2>3
  <1>5. CASE UNCHANGED vars
    BY <1>0, <1>5 DEF vars, LocksAgree, RequestsKnowIntents
  <1>6. QED
    BY <1>1, <1>2, <1>3, <1>4, <1>5

-----------------------------------------------------------------------------
(* What the gateway settled and what was acknowledged *)

\* What a request at its next point carries on.
LEMMA ViaFacts ==
  ASSUME TypeOK, NEW w \in Workers
  PROVE  /\ Idle \in Requests /\ Idle.at = "idle" /\ Idle.via # "webhook"
         /\ Rest(w) \in Requests /\ Rest(w).via # "webhook"
         /\ Rest(w).at \in {"idle", "sweep_next"}
         /\ \A at \in Points : /\ At(w, at) \in Requests /\ At(w, at).at = at
                               /\ At(w, at).on = req[w].on /\ At(w, at).via = req[w].via
  <1>1. /\ Idle \in Requests /\ Rest(w) \in Requests
        /\ \A at \in Points : /\ At(w, at) \in Requests /\ At(w, at).at = at
                              /\ At(w, at).on = req[w].on /\ At(w, at).via = req[w].via
    BY RequestType, NextPointType
  <1>2. Idle.at = "idle" /\ Idle.via # "webhook"
    BY DEF Idle
  <1>3. Rest(w).via # "webhook" /\ Rest(w).at \in {"idle", "sweep_next"}
    BY DEF Rest, Idle, Sweeping, Sweeps
  <1>4. QED
    BY <1>1, <1>2, <1>3

\* A step that changes nothing the gateway settled, pays only what has its txn_no
\* stored and acknowledges only what is settled.
Settles ==
  \A i \in Intents :
    /\ gateway[i] \in {"completed", "failed"} => gateway'[i] = gateway[i]
    /\ gateway'[i] = "completed" => txnNo'[i]
    /\ acked'[i] => gateway'[i] \in {"completed", "failed"}

\* Such a step of one request that registers no intent somebody else registers.
LEMMA GatewayKept ==
  ASSUME IInv, NEW w \in Workers, NEW r \in Requests, Continue(w, r), Settles,
         r.at # "create_gateway",
         r.via = "webhook" => r.on \in Intents /\ gateway'[r.on] \in {"completed", "failed"},
         \A v \in Workers : v # w /\ req[v].at = "create_gateway" =>
           gateway'[req[v].on] = gateway[req[v].on]
  PROVE  GatewayAgrees'
  <1>0. TypeOK /\ GatewayAgrees
    BY DEF IInv
  <1>1. req'[w] = r /\ \A v \in Workers : v # w => req'[v] = req[v]
    BY <1>0, ContinueType
  <1>2. ASSUME NEW v \in Workers, req'[v].at = "create_gateway"
        PROVE  /\ v # w /\ req'[v] = req[v] /\ gateway'[req'[v].on] = "absent"
               /\ \A u \in Workers :
                    req'[u].at = "create_gateway" /\ req'[u].on = req'[v].on => u = v
    BY <1>0, <1>1, <1>2 DEF GatewayAgrees
  <1>3. ASSUME NEW v \in Workers, req'[v].via = "webhook"
        PROVE  req'[v].on \in Intents /\ gateway'[req'[v].on] \in {"completed", "failed"}
    <2>1. CASE v = w
      BY <1>1, <1>3, <2>1
    <2>2. CASE v # w
      <3>1. req'[v] = req[v] /\ req[v].on \in Intents
              /\ gateway[req[v].on] \in {"completed", "failed"}
        BY <1>0, <1>1, <1>3, <2>2 DEF GatewayAgrees
      <3>2. gateway'[req[v].on] = gateway[req[v].on]
        BY <3>1 DEF Settles
      <3>3. QED
        BY <3>1, <3>2
    <2>3. QED
      BY <2>1, <2>2
  <1>4. QED
    BY <1>2, <1>3 DEF GatewayAgrees, Settles

\* A step that leaves the gateway, the stored txn_nos and the answers alone.
LEMMA NothingSettles ==
  ASSUME IInv, UNCHANGED <<gateway, txnNo, acked>>
  PROVE  Settles
  BY DEF IInv, GatewayAgrees, Settles

\* A request that ends and is answered leaves the gateway alone.
LEMMA ReplySettles ==
  ASSUME IInv, NEW w \in Workers, req[w].at # "idle", req[w].on \in Intents, Reply(w),
         UNCHANGED <<gateway, txnNo>>
  PROVE  /\ GatewayAgrees'
         /\ \A i \in Intents : acked'[i] => acked[i] \/ i = req[w].on
  <1>0. TypeOK /\ GatewayAgrees
    BY DEF IInv
  <1>1. Rest(w) \in Requests /\ Rest(w).via # "webhook" /\ Rest(w).at # "create_gateway"
    BY <1>0, ViaFacts
  <1>2. \A i \in Intents : acked'[i] => acked[i] \/ (i = req[w].on /\ req[w].via = "webhook")
    BY <1>0 DEF Reply, TypeOK
  <1>3. Settles
    BY <1>0, <1>2 DEF Settles, GatewayAgrees
  <1>4. GatewayAgrees'
    BY <1>1, <1>3, GatewayKept DEF Reply
  <1>5. QED
    BY <1>2, <1>4

\* What has left "pending" stays away from it.
LEMMA SettledStays ==
  ASSUME IInv, [Next]_vars, NEW i \in Intents, status[i] \in {"confirmed", "cancelled"}
  PROVE  status'[i] \in {"confirmed", "cancelled"}
  <1> USE DEF intentVars, walletVars, lockVars
  <1>0. TypeOK /\ RequestsKnowIntents
    BY DEF IInv
  <1>1. ASSUME NEW w \in Workers, CreateInsert(w)
        PROVE  status'[i] \in {"confirmed", "cancelled"}
    <2>1. req[w].on \in Intents /\ status[req[w].on] = "none"
      BY <1>0, <1>1 DEF CreateInsert, RequestsKnowIntents
    <2>2. QED
      BY <1>0, <1>1, <2>1 DEF CreateInsert, TypeOK
  <1>2. ASSUME NEW w \in Workers, CreateCancel(w) \/ CancelWrite(w) \/ ConfirmCommit(w)
        PROVE  status'[i] \in {"confirmed", "cancelled"}
    BY <1>0, <1>2 DEF CreateCancel, CancelWrite, ConfirmCommit, TypeOK
  <1>3. CASE UNCHANGED status
    BY <1>3
  <1>4. QED
    BY <1>1, <1>2, <1>3
       DEF Next, Run, Arrive, CreateStep, GatewayAnswers, ConfirmTopup, vars,
           CreateCheckCap, HookReceive, HookUnknown, InquiryAsk, CancelRead,
           ParentConfirm, CreateAtGateway, CreateStore, InquiryAnswer, SweepAnswer,
           SweepNext, StartsSweep, ScheduledSweep, AdminSweep, SweepScan,
           ConfirmLockIntent, ConfirmAlreadyProcessed, ConfirmLockWallet, RequestFails, ServerCrash, GatewaySettles

\* The steps of createTopupIntent: only the creator registers its intent.
LEMMA CreateSettles ==
  ASSUME IInv, NEW w \in Workers, CreateStep(w)
  PROVE  GatewayAgrees'
  <1> USE DEF intentVars, walletVars, lockVars
  <1>0. TypeOK /\ RequestsKnowIntents /\ GatewayAgrees
    BY DEF IInv
  <1>1. PICK i \in Intents : i = req[w].on
    BY <1>0 DEF CreateStep, CreateInsert, CreateAtGateway, CreateStore, CreateCancel,
           RequestsKnowIntents
  <1>2. /\ Idle \in Requests /\ Idle.at = "idle" /\ Idle.via # "webhook"
        /\ \A at \in Points : /\ At(w, at) \in Requests /\ At(w, at).at = at
                              /\ At(w, at).on = i /\ At(w, at).via = req[w].via
    BY <1>0, <1>1, ViaFacts
  <1>3. CASE CreateInsert(w) /\ i \in BayIntents
    <2> DEFINE r == At(w, "create_gateway")
    <2>1. /\ r \in Requests /\ r.at = "create_gateway" /\ r.on = i /\ r.via = req[w].via
          /\ Continue(w, r) /\ req[w].at = "create_insert"
          /\ UNCHANGED <<gateway, txnNo, acked>>
      BY <1>1, <1>2, <1>3 DEF CreateInsert, Points
    <2> HIDE DEF r
    <2>2. req'[w] = r /\ \A v \in Workers : v # w => req'[v] = req[v]
      BY <1>0, <2>1, ContinueType
    <2>3. \A v \in Workers : v # w => req[v].on # i
      BY <1>0, <1>1, <2>1 DEF RequestsKnowIntents
    <2>4. gateway[i] = "absent"
      BY <1>0, <1>1, <2>1 DEF RequestsKnowIntents
    <2>5. req[w].via # "webhook"
      BY <1>0, <1>1, <2>4 DEF GatewayAgrees
    <2>6. QED
      BY <1>0, <2>1, <2>2, <2>3, <2>4, <2>5 DEF GatewayAgrees
  <1>4. CASE CreateInsert(w) /\ i \notin BayIntents
    <2>1. Continue(w, Idle) /\ UNCHANGED <<gateway, txnNo, acked>>
      BY <1>1, <1>4 DEF CreateInsert
    <2>2. QED
      BY <1>2, <2>1, NothingSettles, GatewayKept
  <1>5. CASE CreateAtGateway(w)
    <2>1. /\ gateway[i] = "absent" /\ req[w].via # "webhook"
          /\ \A v \in Workers : v # w /\ req[v].at = "create_gateway" => req[v].on # i
      BY <1>0, <1>1, <1>5 DEF CreateAtGateway, GatewayAgrees
    <2>2. /\ gateway' \in {gateway, [gateway EXCEPT ![i] = "open"]}
          /\ UNCHANGED <<txnNo, acked>>
      BY <1>1, <1>5 DEF CreateAtGateway
    <2>3. \A j \in Intents : j # i => gateway'[j] = gateway[j]
      BY <1>0, <2>2 DEF TypeOK
    <2>4. gateway'[i] \in {"absent", "open"}
      BY <1>0, <2>1, <2>2 DEF TypeOK
    <2>5. Settles
      BY <1>0, <2>1, <2>2, <2>3, <2>4 DEF Settles, GatewayAgrees
    <2>6. PICK r \in {At(w, "create_store"), At(w, "create_cancel")} : Continue(w, r)
      BY <1>5 DEF CreateAtGateway
    <2>7. r \in Requests /\ r.at # "create_gateway" /\ r.via # "webhook"
      BY <1>2, <2>1, <2>6 DEF Points
    <2>8. \A v \in Workers : v # w /\ req[v].at = "create_gateway" =>
            gateway'[req[v].on] = gateway[req[v].on]
      <3> SUFFICES ASSUME NEW v \in Workers, v # w, req[v].at = "create_gateway"
                   PROVE  gateway'[req[v].on] = gateway[req[v].on]
        OBVIOUS
      <3>1. req[v].on \in Intents /\ req[v].on # i
        BY <1>0, <2>1 DEF RequestsKnowIntents
      <3>2. QED
        BY <2>3, <3>1
    <2>9. QED
      BY <2>5, <2>6, <2>7, <2>8, GatewayKept
  <1>6. CASE CreateStore(w) \/ CreateCancel(w)
    <2>1. Continue(w, Idle) /\ UNCHANGED <<gateway, acked>>
      BY <1>6 DEF CreateStore, CreateCancel
    <2>2. \A j \in Intents : txnNo[j] => txnNo'[j]
      BY <1>0, <1>6 DEF CreateStore, CreateCancel, TypeOK
    <2>3. Settles
      BY <1>0, <2>1, <2>2 DEF Settles, GatewayAgrees
    <2>4. QED
      BY <1>2, <2>1, <2>3, GatewayKept
  <1>7. QED
    BY <1>3, <1>4, <1>5, <1>6 DEF CreateStep

\* A request that arrives is about what its channel knows: the gateway calls back
\* about what it settled.
LEMMA ArriveSettles ==
  ASSUME IInv, NEW w \in Workers, NEW i \in Intents, Arrive(w, i)
  PROVE  /\ GatewayAgrees'
         /\ acked' = acked
              \/ (/\ acked' = [acked EXCEPT ![i] = TRUE]
                  /\ gateway[i] = "completed" => status[i] = "confirmed")
  <1> USE DEF intentVars, walletVars, lockVars
  <1>0. TypeOK /\ GatewayAgrees
    BY DEF IInv
  <1>1. ASSUME NEW at \in Points \ {"create_gateway"}, NEW via \in Channels,
               Continue(w, Request(at, i, via)), UNCHANGED <<gateway, txnNo, acked>>,
               via = "webhook" => gateway[i] \in {"completed", "failed"}
        PROVE  GatewayAgrees'
    <2>1. /\ Request(at, i, via) \in Requests /\ Request(at, i, via).at = at
          /\ Request(at, i, via).on = i /\ Request(at, i, via).via = via
      BY RequestType DEF Request
    <2>2. QED
      BY <1>1, <2>1, NothingSettles, GatewayKept
  <1>2. CASE CreateCheckCap(w, i) \/ InquiryAsk(w, i) \/ CancelRead(w, i)
               \/ ParentConfirm(w, i)
    BY <1>1, <1>2 DEF CreateCheckCap, InquiryAsk, CancelRead, ParentConfirm, Points,
                      Channels
  <1>3. CASE HookReceive(w, i) /\ status[i] # "confirmed"
    BY <1>1, <1>3 DEF HookReceive, Points, Channels
  <1>4. CASE (HookReceive(w, i) /\ status[i] = "confirmed") \/ HookUnknown(w, i)
    <2>1. /\ acked' = [acked EXCEPT ![i] = TRUE]
          /\ gateway[i] \in {"completed", "failed"}
          /\ UNCHANGED <<gateway, txnNo, req>>
          /\ status[i] = "confirmed" \/ ~txnNo[i]
      BY <1>4 DEF HookReceive, HookUnknown
    <2>2. gateway[i] = "completed" => status[i] = "confirmed"
      BY <1>0, <2>1 DEF GatewayAgrees
    <2>3. \A j \in Intents : acked'[j] => acked[j] \/ j = i
      BY <1>0, <2>1 DEF TypeOK
    <2>4. GatewayAgrees'
      BY <1>0, <2>1, <2>3 DEF GatewayAgrees
    <2>5. QED
      BY <2>1, <2>2, <2>4
  <1>5. QED
    BY <1>2, <1>3, <1>4 DEF Arrive, CreateCheckCap, InquiryAsk, CancelRead,
                            ParentConfirm, HookReceive

\* The steps of a request that answer nobody, but for the creation's.
LEMMA MoveSettles ==
  ASSUME IInv, NEW w \in Workers,
         GatewayAnswers(w) \/ SweepNext(w) \/ ConfirmLockIntent(w) \/ ConfirmLockWallet(w)
           \/ RequestFails(w) \/ (\E S \in SUBSET Intents : StartsSweep(w, S))
  PROVE  GatewayAgrees' /\ acked' = acked
  <1> USE DEF intentVars, walletVars, lockVars
  <1>0. TypeOK /\ GatewayAgrees /\ RequestsKnowIntents
    BY DEF IInv
  <1>1. UNCHANGED <<gateway, txnNo, acked>>
    BY DEF GatewayAnswers, InquiryAnswer, SweepAnswer, SweepNext, ConfirmLockIntent,
           ConfirmLockWallet, RequestFails, StartsSweep,
           ScheduledSweep, AdminSweep, SweepScan
  <1>2. /\ Idle \in Requests /\ Idle.at = "idle" /\ Idle.via # "webhook"
        /\ Rest(w) \in Requests /\ Rest(w).via # "webhook"
        /\ Rest(w).at \in {"idle", "sweep_next"}
        /\ \A at \in Points : /\ At(w, at) \in Requests /\ At(w, at).at = at
                              /\ At(w, at).on = req[w].on /\ At(w, at).via = req[w].via
    BY <1>0, ViaFacts
  <1>3. req[w].via = "webhook" =>
          req[w].on \in Intents /\ gateway[req[w].on] \in {"completed", "failed"}
    BY <1>0 DEF GatewayAgrees
  <1>4. ASSUME NEW r \in Requests, Continue(w, r), r.at # "create_gateway",
               r.via = "webhook" => r.on = req[w].on /\ req[w].via = "webhook"
        PROVE  GatewayAgrees'
    BY <1>1, <1>3, <1>4, NothingSettles, GatewayKept
  <1>5. CASE GatewayAnswers(w) \/ ConfirmLockIntent(w) \/ RequestFails(w)
               \/ (SweepNext(w) /\ req[w].todo = {})
    <2>1. PICK r \in {Idle, Rest(w), At(w, "confirm_intent"), At(w, "cancel_write"),
                      At(w, "confirm_wallet")} : Continue(w, r)
      BY <1>5 DEF GatewayAnswers, InquiryAnswer, SweepAnswer, ConfirmLockIntent,
                  RequestFails, SweepNext
    <2>2. /\ r \in Requests /\ r.at # "create_gateway"
          /\ r.via = "webhook" => r.on = req[w].on /\ req[w].via = "webhook"
      BY <1>2, <2>1 DEF Points
    <2>3. QED
      BY <1>1, <1>4, <2>1, <2>2
  <1>6. CASE ConfirmLockWallet(w)
    <2>1. PICK x \in Wallets : x = WalletOf[req[w].on]
      BY <1>0, <1>6 DEF ConfirmLockWallet, RequestsKnowIntents
    <2> DEFINE r == [At(w, "confirm_commit") EXCEPT !.read = balance[x]]
    <2>2. Continue(w, r)
      BY <1>6, <2>1 DEF ConfirmLockWallet
    <2>3. At(w, "confirm_commit") \in Requests /\ balance[x] \in Nat
      BY <1>0, <1>2, <2>1 DEF Points, TypeOK
    <2>4. /\ r \in Requests /\ r.at = "confirm_commit"
          /\ r.on = req[w].on /\ r.via = req[w].via
      BY <1>2, <2>3 DEF Requests, Points
    <2> HIDE DEF r
    <2>5. QED
      BY <1>1, <1>4, <2>2, <2>4
  <1>7. ASSUME NEW by \in Sweeps, NEW at \in Points, NEW i \in Intents \cup {NoIntent},
               NEW S \in SUBSET Intents,
               Continue(w, Sweeping(by, at, i, S)), at # "create_gateway"
        PROVE  GatewayAgrees'
    <2>1. /\ Sweeping(by, at, i, S) \in Requests /\ Sweeping(by, at, i, S).at = at
          /\ Sweeping(by, at, i, S).via # "webhook"
      BY RequestType DEF Sweeping, Sweeps
    <2>2. QED
      BY <1>4, <1>7, <2>1
  <1>8. CASE SweepNext(w) /\ req[w].todo # {}
    <2>1. req[w].todo \in SUBSET Intents
      BY <1>0 DEF TypeOK, Requests
    <2>2. PICK i \in req[w].todo :
            Continue(w, Sweeping(req[w].via, "sweep_wait", i, req[w].todo \ {i}))
      BY <1>8 DEF SweepNext
    <2>3. QED
      BY <1>1, <1>7, <1>8, <2>1, <2>2 DEF Points, SweepNext
  <1>9. CASE \E S \in SUBSET Intents : StartsSweep(w, S)
    <2>1. PICK S \in SUBSET Intents, by \in Sweeps : SweepScan(w, by, S)
      BY <1>9 DEF StartsSweep, ScheduledSweep, AdminSweep, Sweeps
    <2>2. QED
      BY <1>1, <1>7, <2>1 DEF SweepScan, Points
  <1>10. QED
    BY <1>5, <1>6, <1>8, <1>9

\* Every step keeps what the gateway settled, and acknowledges a completed payment
\* only when its intent is confirmed or cancelled.
LEMMA StepGateway ==
  ASSUME IInv, [Next]_vars
  PROVE  GatewayAgrees' /\ AcknowledgedIsSettled'
  <1> USE DEF intentVars, walletVars, lockVars
  <1>0. TypeOK /\ TypeOK' /\ GatewayAgrees /\ AcknowledgedIsSettled /\ RequestsKnowIntents
    BY StepTypeOK DEF IInv
  <1>1. \A i \in Intents : status[i] \in {"confirmed", "cancelled"} =>
          status'[i] \in {"confirmed", "cancelled"}
    BY SettledStays
  <1>2. ASSUME UNCHANGED <<acked, gateway>>
        PROVE  AcknowledgedIsSettled'
    BY <1>0, <1>1, <1>2 DEF AcknowledgedIsSettled
  <1>3. ASSUME NEW i \in Intents, UNCHANGED gateway,
               \A j \in Intents : acked'[j] => acked[j] \/ j = i,
               gateway[i] = "completed" => status'[i] \in {"confirmed", "cancelled"}
        PROVE  AcknowledgedIsSettled'
    BY <1>0, <1>1, <1>3 DEF AcknowledgedIsSettled
  <1>4. ASSUME NEW w \in Workers, CreateStep(w)
        PROVE  GatewayAgrees' /\ AcknowledgedIsSettled'
    <2>1. GatewayAgrees' /\ acked' = acked
      BY <1>4, CreateSettles
         DEF CreateStep, CreateInsert, CreateAtGateway, CreateStore, CreateCancel
    <2>2. \A i \in Intents : acked[i] => gateway[i] \in {"completed", "failed"}
      BY <1>0 DEF GatewayAgrees
    <2>3. \A i \in Intents : gateway'[i] = gateway[i] \/ gateway'[i] = "open"
      BY <1>0, <1>4
         DEF CreateStep, CreateInsert, CreateAtGateway, CreateStore, CreateCancel, TypeOK
    <2>4. QED
      BY <1>0, <1>1, <2>1, <2>2, <2>3 DEF AcknowledgedIsSettled
  <1>5. ASSUME NEW w \in Workers, NEW i \in Intents, Arrive(w, i)
        PROVE  GatewayAgrees' /\ AcknowledgedIsSettled'
    <2>1. /\ GatewayAgrees'
          /\ acked' = acked
               \/ (/\ acked' = [acked EXCEPT ![i] = TRUE]
                   /\ gateway[i] = "completed" => status[i] = "confirmed")
      BY <1>5, ArriveSettles
    <2>2. UNCHANGED gateway
      BY <1>5 DEF Arrive, CreateCheckCap, InquiryAsk, CancelRead, ParentConfirm,
                  HookReceive, HookUnknown
    <2>3. \A j \in Intents : acked'[j] => acked[j] \/ (j = i /\ acked' # acked)
      BY <1>0, <2>1 DEF TypeOK
    <2>4. CASE acked' = acked
      BY <1>2, <2>1, <2>2, <2>4
    <2>5. CASE acked' # acked
      BY <1>1, <1>3, <2>1, <2>2, <2>3, <2>5
    <2>6. QED
      BY <2>4, <2>5
  <1>6. ASSUME NEW w \in Workers,
               CancelWrite(w) \/ ConfirmAlreadyProcessed(w) \/ ConfirmCommit(w)
        PROVE  GatewayAgrees' /\ AcknowledgedIsSettled'
    <2>1. PICK i \in Intents : i = req[w].on
      BY <1>0, <1>6 DEF CancelWrite, ConfirmAlreadyProcessed, ConfirmCommit,
                        RequestsKnowIntents
    <2>2. req[w].at # "idle" /\ Reply(w) /\ UNCHANGED <<gateway, txnNo>>
      BY <1>6 DEF CancelWrite, ConfirmAlreadyProcessed, ConfirmCommit
    <2>3. /\ GatewayAgrees'
          /\ \A j \in Intents : acked'[j] => acked[j] \/ j = i
      BY <2>1, <2>2, ReplySettles
    <2>4. status'[i] \in {"confirmed", "cancelled"}
      <3>1. CASE CancelWrite(w) \/ ConfirmCommit(w)
        BY <1>0, <2>1, <3>1 DEF CancelWrite, ConfirmCommit, TypeOK
      <3>2. CASE ConfirmAlreadyProcessed(w)
        <4>1. status[i] # "none" /\ status[i] # "pending"
          BY <1>0, <2>1, <3>2 DEF ConfirmAlreadyProcessed, RequestsKnowIntents
        <4>2. status[i] \in {"none", "pending", "confirmed", "cancelled"}
          BY <1>0 DEF TypeOK
        <4>3. QED
          BY <1>1, <4>1, <4>2
      <3>3. QED
        BY <1>6, <3>1, <3>2
    <2>5. QED
      BY <1>3, <2>2, <2>3, <2>4
  <1>7. ASSUME NEW w \in Workers,
               GatewayAnswers(w) \/ SweepNext(w) \/ ConfirmLockIntent(w)
                 \/ ConfirmLockWallet(w) \/ RequestFails(w)
                 \/ (\E S \in SUBSET Intents : StartsSweep(w, S))
        PROVE  GatewayAgrees' /\ AcknowledgedIsSettled'
    <2>1. GatewayAgrees' /\ acked' = acked
      BY <1>7, MoveSettles
    <2>2. UNCHANGED gateway
      BY <1>7 DEF GatewayAnswers, InquiryAnswer, SweepAnswer, SweepNext,
           ConfirmLockIntent, ConfirmLockWallet, RequestFails, StartsSweep,
           ScheduledSweep, AdminSweep, SweepScan
    <2>3. QED
      BY <1>2, <2>1, <2>2
  <1>8. CASE ServerCrash
    <2>1. /\ \A w \in Workers : req'[w] = Idle
          /\ UNCHANGED <<gateway, txnNo, acked>>
      BY <1>8 DEF ServerCrash
    <2>2. GatewayAgrees'
      BY <1>0, <2>1 DEF GatewayAgrees, Idle
    <2>3. QED
      BY <1>2, <2>1, <2>2
  <1>9. ASSUME NEW i \in Intents, GatewaySettles(i)
        PROVE  GatewayAgrees' /\ AcknowledgedIsSettled'
    <2>1. /\ gateway[i] = "open" /\ UNCHANGED <<status, txnNo, acked, req>>
          /\ \A j \in Intents : j # i => gateway'[j] = gateway[j]
          /\ gateway'[i] = "completed" => txnNo[i]
      BY <1>0, <1>9 DEF GatewaySettles, TypeOK
    <2>2. ~acked[i] /\ \A w \in Workers : req[w].on = i =>
                             req[w].via # "webhook" /\ req[w].at # "create_gateway"
      BY <1>0, <2>1 DEF GatewayAgrees
    <2>3. GatewayAgrees'
      <3>1. ASSUME NEW w \in Workers, req[w].at = "create_gateway"
            PROVE  gateway'[req[w].on] = "absent"
        <4>1. req[w].on \in Intents /\ req[w].on # i /\ gateway[req[w].on] = "absent"
          BY <1>0, <2>2, <3>1 DEF GatewayAgrees, RequestsKnowIntents
        <4>2. QED
          BY <2>1, <4>1
      <3>2. ASSUME NEW w \in Workers, req[w].via = "webhook"
            PROVE  req[w].on \in Intents /\ gateway'[req[w].on] \in {"completed", "failed"}
        BY <1>0, <2>1, <2>2, <3>2 DEF GatewayAgrees
      <3>3. \A j \in Intents : /\ gateway'[j] = "completed" => txnNo'[j]
                               /\ acked'[j] => gateway'[j] \in {"completed", "failed"}
        BY <1>0, <2>1, <2>2 DEF GatewayAgrees
      <3>4. \A w, v \in Workers :
              req[w].at = "create_gateway" /\ req[v].at = "create_gateway"
                /\ req[v].on = req[w].on => v = w
        BY <1>0 DEF GatewayAgrees
      <3>5. QED
        BY <2>1, <3>1, <3>2, <3>3, <3>4 DEF GatewayAgrees
    <2>4. AcknowledgedIsSettled'
      BY <1>0, <2>1, <2>2 DEF AcknowledgedIsSettled
    <2>5. QED
      BY <2>3, <2>4
  <1>10. CASE UNCHANGED vars
    BY <1>0, <1>10 DEF vars, GatewayAgrees, AcknowledgedIsSettled
  <1>11. QED
    BY <1>4, <1>5, <1>6, <1>7, <1>8, <1>9, <1>10 DEF Next, Run, ConfirmTopup

\* Every step preserves the inductive invariant.
LEMMA StepIInv == IInv /\ [Next]_vars => IInv'
  <1> SUFFICES ASSUME IInv, [Next]_vars PROVE IInv'
    OBVIOUS
  <1>1. TypeOK' /\ (CreditsMatchStatus /\ CreditedOnce /\ LedgerChains)'
    BY StepTypeOK, StepCredits
  <1>2. LocksAgree' /\ RequestsKnowIntents'
    <2>1. ASSUME NEW w \in Workers, Run(w)
          PROVE  LocksAgree' /\ RequestsKnowIntents'
      BY <2>1, CreateStepKeeps, QuietStepKeeps, ConfirmLockKeeps, CommitKeeps
         DEF Run, ConfirmTopup
    <2>2. ASSUME NEW w \in Workers, NEW i \in Intents, Arrive(w, i)
          PROVE  LocksAgree' /\ RequestsKnowIntents'
      BY <2>2, ArriveStep
    <2>3. QED
      BY <2>1, <2>2, OtherStepKeeps DEF Next
  <1>3. QED
    BY <1>1, <1>2, StepGateway DEF IInv

-----------------------------------------------------------------------------
(* Theorems *)

\* IInv holds in every reachable state: locks and requests agree, an intent has
\* a credit iff confirmTopup committed it, and the ledger of a wallet chains.
THEOREM InductiveInvariant == Spec => []IInv
  BY InitIInv, StepIInv, PTL DEF Spec

\* The variables keep their types in every behaviour of the service.
THEOREM TypeCorrect == Spec => []TypeOK
  <1>1. IInv => TypeOK
    BY DEF IInv
  <1>2. QED
    BY <1>1, InductiveInvariant, PTL

\* No payment is credited twice, whatever races in confirmTopup.
THEOREM NoDoubleCredit == Spec => []CreditedOnce
  <1>1. IInv => CreditedOnce
    BY DEF IInv
  <1>2. QED
    BY <1>1, InductiveInvariant, PTL

\* No concurrent confirmation loses an update of a wallet's balance.
THEOREM NoLostCredit == Spec => []LedgerChains
  <1>1. IInv => LedgerChains
    BY DEF IInv
  <1>2. QED
    BY <1>1, InductiveInvariant, PTL

\* A callback of a completed payment is answered with 200 only when its intent is
\* settled, so that nothing the gateway stops delivering stays pending.
THEOREM AcknowledgedAlwaysSettled == Spec => []AcknowledgedIsSettled
  <1>1. IInv => AcknowledgedIsSettled
    BY DEF IInv
  <1>2. QED
    BY <1>1, InductiveInvariant, PTL

\* A confirmed intent has its credit.
THEOREM ConfirmedHasCredit == Spec => []ConfirmedIsCredited
  <1>1. IInv => ConfirmedIsCredited
    BY DEF IInv, CreditsMatchStatus
  <1>2. QED
    BY <1>1, InductiveInvariant, PTL

-----------------------------------------------------------------------------
(* What one step does to statuses and credits *)

\* The credits of an intent before and after a commit.
LEMMA CommitEffect ==
  ASSUME IInv, NEW w \in Workers, ConfirmCommit(w)
  PROVE  \E i \in Intents :
           /\ status[i] = "pending" /\ status' = [status EXCEPT ![i] = "confirmed"]
           /\ balance' = [balance EXCEPT ![WalletOf[i]] = @ + Amount[i]]
           /\ ~Credited(i) /\ Credited(i)'
           /\ \A j \in Intents : j # i => CreditsOf(j)' = CreditsOf(j)
  <1>0. TypeOK /\ RequestsKnowIntents /\ LocksAgree /\ CreditsMatchStatus
    BY DEF IInv
  <1>a. PICK i \in Intents : i = req[w].on
    BY <1>0 DEF ConfirmCommit, RequestsKnowIntents
  <1>b. PICK x \in Wallets : x = WalletOf[i]
    OBVIOUS
  <1>c. PICK n : n = Len(ledger[x]) + 1
    OBVIOUS
  <1>d. PICK row : row = [intent |-> i, before |-> req[w].read,
                          after |-> req[w].read + Amount[i]]
    OBVIOUS
  <1>1. status[i] = "pending" /\ req[w].read = balance[x]
    BY <1>0, <1>a, <1>b DEF ConfirmCommit, LocksAgree
  <1>2. /\ balance' = [balance EXCEPT ![x] = req[w].read + Amount[i]]
        /\ status' = [status EXCEPT ![i] = "confirmed"]
        /\ ledger' = [ledger EXCEPT ![x] = Append(@, row)]
    BY <1>a, <1>b, <1>d DEF ConfirmCommit
  <1>3. ledger[x] \in Seq(Row) /\ req[w].read \in Nat /\ Amount[i] \in Nat
    BY <1>0, <1>1 DEF TypeOK
  <1>4. row \in Row
    BY <1>3, <1>d DEF Row
  <1>5. row.intent = i
    BY <1>d
  <1>6. ledger'[x] = Append(ledger[x], row)
          /\ \A y \in Wallets : y # x => ledger'[y] = ledger[y]
    BY <1>0, <1>1, <1>2 DEF TypeOK
  <1>7. /\ DOMAIN ledger'[x] = 1..n /\ DOMAIN ledger[x] = 1..(n - 1) /\ n \in Nat
        /\ ledger'[x][n] = row /\ \A k \in DOMAIN ledger[x] : ledger'[x][k] = ledger[x][k]
    BY <1>3, <1>4, <1>6, <1>c, AppendFacts
  <1>8. ~Credited(i)
    BY <1>0, <1>1, <1>b DEF Credited, CreditsOf, CreditsMatchStatus
  <1>9. Credited(i)'
    <2>1. n \in CreditsOf(i)'
      <3>1. n >= 1 /\ n \in 1..n
        BY <1>3, <1>7, <1>c
      <3>2. QED
        BY <1>5, <1>7, <1>b, <3>1 DEF CreditsOf
    <2>2. QED
      BY <2>1 DEF Credited
  <1>10. ASSUME NEW j \in Intents, j # i
         PROVE  CreditsOf(j)' = CreditsOf(j)
    <2>1. CASE WalletOf[j] = x
      <3>1. \A k \in 1..n : k # n => k \in 1..(n - 1)
        BY <1>7
      <3>2. \A k \in 1..(n - 1) : k \in 1..n /\ k # n
        BY <1>7
      <3>3. \A k : /\ k \in DOMAIN ledger[x] /\ ledger[x][k].intent = j
                      => k \in DOMAIN ledger'[x] /\ ledger'[x][k].intent = j
                   /\ k \in DOMAIN ledger'[x] /\ ledger'[x][k].intent = j
                      => k \in DOMAIN ledger[x] /\ ledger[x][k].intent = j
        BY <1>5, <1>7, <1>10, <3>1, <3>2
      <3>4. QED
        BY <2>1, <3>3 DEF CreditsOf
    <2>2. CASE WalletOf[j] # x
      BY <1>6, <2>2 DEF CreditsOf
    <2>3. QED
      BY <2>1, <2>2
  <1>11. QED
    BY <1>1, <1>2, <1>b, <1>8, <1>9, <1>10

\* Any step credits one pending intent, cancels one, inserts one, or leaves
\* statuses, balances and ledgers alone.
LEMMA StepEffect ==
  ASSUME IInv, [Next]_vars
  PROVE  \/ \E i \in Intents :
              /\ status[i] = "pending" /\ status' = [status EXCEPT ![i] = "confirmed"]
              /\ balance' = [balance EXCEPT ![WalletOf[i]] = @ + Amount[i]]
              /\ ~Credited(i) /\ Credited(i)'
              /\ \A j \in Intents : j # i => CreditsOf(j)' = CreditsOf(j)
         \/ /\ UNCHANGED <<balance, ledger>>
            /\ \/ UNCHANGED status
               \/ \E i \in Intents : status' = [status EXCEPT ![i] = "cancelled"]
               \/ \E i \in Intents :
                    status[i] = "none" /\ status' = [status EXCEPT ![i] = "pending"]
  <1> USE DEF intentVars, walletVars, lockVars
  <1>0. TypeOK /\ RequestsKnowIntents
    BY DEF IInv
  <1>1. CASE \E w \in Workers : ConfirmCommit(w)
    BY <1>1, CommitEffect
  <1>2. ASSUME NEW w \in Workers, CreateInsert(w) \/ CreateCancel(w) \/ CancelWrite(w)
        PROVE  /\ UNCHANGED <<balance, ledger>>
               /\ \/ \E i \in Intents : status' = [status EXCEPT ![i] = "cancelled"]
                  \/ \E i \in Intents :
                       status[i] = "none" /\ status' = [status EXCEPT ![i] = "pending"]
    <2>1. req[w].on \in Intents /\ (CreateInsert(w) => status[req[w].on] = "none")
      BY <1>0, <1>2 DEF CreateInsert, CreateCancel, CancelWrite, RequestsKnowIntents
    <2>2. QED
      BY <1>2, <2>1 DEF CreateInsert, CreateCancel, CancelWrite
  <1>3. CASE UNCHANGED <<status, balance, ledger>>
    BY <1>3
  <1>4. QED
    BY <1>1, <1>2, <1>3
       DEF Next, Run, Arrive, CreateStep, GatewayAnswers, ConfirmTopup, vars,
           CreateCheckCap, HookReceive, HookUnknown, InquiryAsk, CancelRead,
           ParentConfirm, CreateAtGateway, CreateStore, InquiryAnswer, SweepAnswer,
           SweepNext, StartsSweep, ScheduledSweep, AdminSweep, SweepScan,
           ConfirmLockIntent, ConfirmAlreadyProcessed, ConfirmLockWallet, RequestFails, ServerCrash, GatewaySettles

\* A credit flips its intent from pending to confirmed in the same commit.
THEOREM CreditsFlipPending == Spec => CreditFlipsPending
  <1>1. ASSUME IInv, [Next]_vars
        PROVE  \A i \in Intents : CreditsOf(i)' # CreditsOf(i) =>
                 status[i] = "pending" /\ status'[i] = "confirmed"
    <2>1. CASE \E i \in Intents :
              /\ status[i] = "pending" /\ status' = [status EXCEPT ![i] = "confirmed"]
              /\ \A j \in Intents : j # i => CreditsOf(j)' = CreditsOf(j)
      BY <1>1, <2>1 DEF IInv, TypeOK
    <2>2. CASE UNCHANGED ledger
      BY <2>2 DEF CreditsOf
    <2>3. QED
      BY <1>1, <2>1, <2>2, StepEffect
  <1>2. IInv /\ [Next]_vars =>
          [\A i \in Intents : CreditsOf(i)' # CreditsOf(i) =>
             status[i] = "pending" /\ status'[i] = "confirmed"]_vars
    BY <1>1
  <1>3. QED
    BY <1>2, InductiveInvariant, PTL DEF Spec, CreditFlipsPending

\* A cancelled intent stays cancelled and is never credited afterwards, not even
\* by a confirmTopup that read it before it was cancelled.
THEOREM CancelledStaysFinal == Spec => CancelledIsFinal
  <1>1. ASSUME IInv, [Next]_vars, NEW i \in Intents, status[i] = "cancelled"
        PROVE  status'[i] = "cancelled" /\ CreditsOf(i)' = CreditsOf(i)
    <2>1. ASSUME NEW j \in Intents, status[j] = "pending",
                 status' = [status EXCEPT ![j] = "confirmed"],
                 \A k \in Intents : k # j => CreditsOf(k)' = CreditsOf(k)
          PROVE  status'[i] = "cancelled" /\ CreditsOf(i)' = CreditsOf(i)
      BY <1>1, <2>1 DEF IInv, TypeOK
    <2>2. ASSUME UNCHANGED ledger
          PROVE  CreditsOf(i)' = CreditsOf(i)
      BY <2>2 DEF CreditsOf
    <2>3. ASSUME \/ UNCHANGED status
                 \/ \E j \in Intents : status' = [status EXCEPT ![j] = "cancelled"]
                 \/ \E j \in Intents :
                      status[j] = "none" /\ status' = [status EXCEPT ![j] = "pending"]
          PROVE  status'[i] = "cancelled"
      BY <1>1, <2>3 DEF IInv, TypeOK
    <2>4. QED
      BY <1>1, <2>1, <2>2, <2>3, StepEffect
  <1>2. IInv /\ [Next]_vars =>
          [\A i \in Intents : status[i] = "cancelled" =>
             status'[i] = "cancelled" /\ CreditsOf(i)' = CreditsOf(i)]_vars
    BY <1>1
  <1>3. QED
    BY <1>2, InductiveInvariant, PTL DEF Spec, CancelledIsFinal

\* The service implements TopupCredit: a commit is one Credit, a cancelling
\* UPDATE one Close (or a stutter), and every other step a stutter.
THEOREM TopupCreditImplemented == Spec => ImplementsTopupCredit
  <1>1. Init => Promise!Init
    BY DEF Init, Promise!Init, Credited, CreditsOf
  <1>2. ASSUME IInv, [Next]_vars
        PROVE  [Promise!Next]_<<{i \in Intents : Credited(i)},
                                {i \in Intents : status[i] = "cancelled"}, balance>>
    <2> DEFINE credited == {i \in Intents : Credited(i)}
               closed == {i \in Intents : status[i] = "cancelled"}
    <2>1. ASSUME NEW i \in Intents,
                 status[i] = "pending", status' = [status EXCEPT ![i] = "confirmed"],
                 balance' = [balance EXCEPT ![WalletOf[i]] = @ + Amount[i]],
                 ~Credited(i), Credited(i)',
                 \A j \in Intents : j # i => CreditsOf(j)' = CreditsOf(j)
          PROVE  Promise!Credit(i)
      <3>1. \A j \in Intents : j # i => (Credited(j)' <=> Credited(j))
        BY <2>1 DEF Credited
      <3>2. credited' = credited \cup {i}
        BY <2>1, <3>1
      <3>3. closed' = closed
        BY <1>2, <2>1 DEF IInv, TypeOK
      <3>4. i \notin credited \cup closed
        BY <2>1
      <3>5. QED
        BY <2>1, <3>2, <3>3, <3>4 DEF Promise!Credit
    <2>2. ASSUME UNCHANGED ledger
          PROVE  credited' = credited
      BY <2>2 DEF Credited, CreditsOf
    <2>3. ASSUME NEW i \in Intents, UNCHANGED <<balance, ledger>>,
                 status' = [status EXCEPT ![i] = "cancelled"]
          PROVE  Promise!Close(i)
      <3>1. closed' = closed \cup {i}
        BY <1>2, <2>3 DEF IInv, TypeOK
      <3>2. QED
        BY <2>2, <2>3, <3>1 DEF Promise!Close
    <2>4. ASSUME NEW i \in Intents, status[i] = "none",
                 status' = [status EXCEPT ![i] = "pending"]
          PROVE  closed' = closed
      BY <1>2, <2>4 DEF IInv, TypeOK
    <2>5. ASSUME UNCHANGED status
          PROVE  closed' = closed
      BY <2>5
    <2>6. CASE \E i \in Intents :
              /\ status[i] = "pending" /\ status' = [status EXCEPT ![i] = "confirmed"]
              /\ balance' = [balance EXCEPT ![WalletOf[i]] = @ + Amount[i]]
              /\ ~Credited(i) /\ Credited(i)'
              /\ \A j \in Intents : j # i => CreditsOf(j)' = CreditsOf(j)
      BY <2>1, <2>6 DEF Promise!Next
    <2>7. CASE /\ UNCHANGED <<balance, ledger>>
               /\ \E i \in Intents : status' = [status EXCEPT ![i] = "cancelled"]
      BY <2>3, <2>7 DEF Promise!Next
    <2>8. CASE /\ UNCHANGED <<balance, ledger>>
               /\ \/ UNCHANGED status
                  \/ \E i \in Intents :
                       status[i] = "none" /\ status' = [status EXCEPT ![i] = "pending"]
      BY <2>2, <2>4, <2>5, <2>8
    <2>9. QED
      BY <1>2, <2>6, <2>7, <2>8, StepEffect
  <1>3. QED
    BY <1>1, <1>2, InductiveInvariant, PTL DEF Spec, ImplementsTopupCredit, Promise!Spec
=============================================================================
