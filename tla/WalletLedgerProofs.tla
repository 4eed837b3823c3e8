------------------------- MODULE WalletLedgerProofs -------------------------
(* Proofs about WalletLedger, for every value of its constants.             *)
EXTENDS WalletLedger, FiniteSetTheorems, TLAPS

USE ConstantsAssumption

-----------------------------------------------------------------------------
(* What requests and rows are *)

\* A request in flight is a full record, and so is each of its next points.
LEMMA InFlight ==
  ASSUME TypeOK, NEW w \in Workers, req[w].at # "idle"
  PROVE  /\ req[w] \in Requests
         /\ \A at \in Points :
              /\ At(w, at) \in Requests
              /\ At(w, at) = [at |-> at, kind |-> req[w].kind, wallet |-> req[w].wallet,
                              peer |-> req[w].peer, change |-> req[w].change,
                              key |-> req[w].key, read |-> req[w].read,
                              peerRead |-> req[w].peerRead]
  <1>1. req[w] \in Requests \cup {Idle}
    BY DEF TypeOK
  <1>2. req[w] \in Requests
    BY <1>1 DEF Idle
  <1>3. QED
    BY <1>2 DEF At, Requests

\* A step of one request leaves the others alone.
LEMMA StepOfOne ==
  ASSUME TypeOK, NEW w \in Workers, NEW r \in Requests \cup {Idle}, Step(w, r)
  PROVE  /\ req' \in [Workers -> Requests \cup {Idle}]
         /\ req'[w] = r
         /\ \A v \in Workers : v # w => req'[v] = req[v]
  BY DEF Step, TypeOK

\* The signed amounts are integers, closed under change of sign.
LEMMA ChangeFacts ==
  /\ Changes \subseteq Int
  /\ Amounts \subseteq Changes
  /\ \A a \in Amounts : a \in Int /\ a > 0 /\ -a \in Changes /\ -a < 0
  <1>1. \A a \in Amounts : a \in Nat /\ a # 0
    OBVIOUS
  <1>2. \A a \in Amounts : a \in Int /\ -a \in Int /\ a > 0 /\ -a < 0
    BY <1>1
  <1>3. \A a \in Amounts : a \in Changes /\ -a \in Changes
    BY DEF Changes
  <1>4. \A d \in Changes : d \in Int
    BY <1>2 DEF Changes
  <1>5. QED
    BY <1>2, <1>3, <1>4

\* The rows of the ledgers, by wallet and position.
LEMMA EntryFacts ==
  /\ \A e \in Entries : /\ e = <<e[1], e[2]>> /\ e[1] \in Wallets
                        /\ e[2] \in DOMAIN ledger[e[1]]
  /\ \A x \in Wallets : \A n \in DOMAIN ledger[x] :
       <<x, n>> \in Entries /\ RowAt(<<x, n>>) = ledger[x][n]
  BY DEF Entries, RowAt

\* Every row has the type of a row.
LEMMA RowType ==
  ASSUME TypeOK, NEW e \in Entries
  PROVE  RowAt(e) \in Rows /\ e[1] \in Wallets /\ e[2] \in Nat
  <1>1. e[1] \in Wallets /\ e[2] \in DOMAIN ledger[e[1]]
    BY EntryFacts
  <1>2. ledger[e[1]] \in Seq(Rows)
    BY <1>1 DEF TypeOK
  <1>3. QED
    BY <1>1, <1>2 DEF RowAt

\* Init establishes the inductive invariant.
LEMMA InitIInv == Init => IInv
  <1> SUFFICES ASSUME Init PROVE IInv
    OBVIOUS
  <1> USE DEF Init
  <1>1. TypeOK
    BY DEF TypeOK
  <1>2. \A w \in Workers : req[w].at = "idle" /\ Held(w) = {}
    BY DEF Idle, Held
  <1>3. LocksAgree /\ RequestsFit
    BY <1>2 DEF LocksAgree, RequestsFit
  <1>4. Entries = {}
    BY DEF Entries
  <1>5. LedgerChains
    BY DEF LedgerChains
  <1>6. TicketOnce /\ AnswersAgree /\ LimitsHold
    BY <1>4 DEF TicketOnce, AnswersAgree, LimitsHold, Posted
  <1>7. QED
    BY <1>1, <1>3, <1>5, <1>6 DEF IInv

-----------------------------------------------------------------------------
(* What a step does to the requests *)

\* A request that arrives starts with a record that fits.
LEMMA ArriveFacts ==
  ASSUME TypeOK, NEW w \in Workers, Arrive(w)
  PROVE  /\ req[w].at = "idle"
         /\ started' \in 0..MaxRequests
         /\ UNCHANGED <<balance, ledger, walletLock, answers, faults>>
         /\ \E r \in Requests :
              /\ Step(w, r)
              /\ r.at \in {"lookup", "cap", "duplicate", "lock", "lock_first"}
              /\ Fits(r)
  <1> DEFINE Starts(r) == /\ r \in Requests /\ Begin(w, r)
                          /\ r.at \in {"lookup", "cap", "duplicate", "lock", "lock_first"}
                          /\ Fits(r)
  <1> HIDE DEF Starts
  <1>1. ASSUME NEW at \in Points, NEW kind \in Endpoints, NEW x \in Wallets,
               NEW y \in Wallets, NEW d \in Changes, NEW k \in Keys \cup {NoKey}
        PROVE  /\ Request(at, kind, x, y, d, k) \in Requests
               /\ Request(at, kind, x, y, d, k).at = at
               /\ Request(at, kind, x, y, d, k).kind = kind
               /\ Request(at, kind, x, y, d, k).wallet = x
               /\ Request(at, kind, x, y, d, k).peer = y
               /\ Request(at, kind, x, y, d, k).change = d
               /\ Request(at, kind, x, y, d, k).key = k
    BY DEF Request, Requests
  <1>2. ASSUME AdjustBalance(w) PROVE \E r : Starts(r)
    <2>1. PICK x \in Wallets, d \in Changes :
            Begin(w, Request("lock", "adjust", x, x, d, NoKey))
      BY <1>2 DEF AdjustBalance
    <2>2. Starts(Request("lock", "adjust", x, x, d, NoKey))
      BY <2>1, <1>1 DEF Starts, Points, Endpoints, Fits
    <2>3. QED
      BY <2>2
  <1>3. ASSUME CashierTopup(w) PROVE \E r : Starts(r)
    <2>1. PICK x \in Wallets, a \in Amounts :
            \/ \E k \in Keys : Begin(w, Request("lookup", "cashier", x, x, a, k))
            \/ Begin(w, Request("cap", "cashier", x, x, a, NoKey))
      BY <1>3 DEF CashierTopup
    <2>2. ASSUME NEW k \in Keys, Begin(w, Request("lookup", "cashier", x, x, a, k))
          PROVE  Starts(Request("lookup", "cashier", x, x, a, k))
      BY <2>2, <1>1, ChangeFacts DEF Starts, Points, Endpoints, Fits, Ticketed
    <2>3. ASSUME Begin(w, Request("cap", "cashier", x, x, a, NoKey))
          PROVE  Starts(Request("cap", "cashier", x, x, a, NoKey))
      BY <2>3, <1>1, ChangeFacts DEF Starts, Points, Endpoints, Fits
    <2>4. QED
      BY <2>1, <2>2, <2>3
  <1>4. ASSUME VendorAdjustBalance(w) PROVE \E r : Starts(r)
    <2>1. PICK x \in People, d \in Changes, k \in Keys :
            Begin(w, Request("lookup", "vendor", x, x, d, k))
      BY <1>4 DEF VendorAdjustBalance
    <2>2. Starts(Request("lookup", "vendor", x, x, d, k))
      BY <2>1, <1>1 DEF Starts, Points, Endpoints, Fits, Ticketed, People
    <2>3. QED
      BY <2>2
  <1>5. ASSUME CreateGraduationRefund(w) PROVE \E r : Starts(r)
    <2>1. PICK x \in People, a \in Amounts :
            \/ \E k \in Keys : Begin(w, Request("lookup", "refund", x, x, -a, k))
            \/ Begin(w, Request("lock", "refund", x, x, -a, NoKey))
      BY <1>5 DEF CreateGraduationRefund
    <2>2. -a \in Changes /\ -a < 0 /\ x \in Wallets
      BY ChangeFacts DEF People
    <2>3. ASSUME NEW k \in Keys, Begin(w, Request("lookup", "refund", x, x, -a, k))
          PROVE  Starts(Request("lookup", "refund", x, x, -a, k))
      BY <2>2, <2>3, <1>1 DEF Starts, Points, Endpoints, Fits, Ticketed
    <2>4. ASSUME Begin(w, Request("lock", "refund", x, x, -a, NoKey))
          PROVE  Starts(Request("lock", "refund", x, x, -a, NoKey))
      BY <2>2, <2>4, <1>1 DEF Starts, Points, Endpoints, Fits
    <2>5. QED
      BY <2>1, <2>3, <2>4
  <1>6. ASSUME EdcTopup(w) PROVE \E r : Starts(r)
    <2>1. PICK x \in Wallets, a \in Amounts, k \in Keys, point \in {"duplicate", "lock"} :
            Begin(w, Request(point, "edc", x, x, a, k))
      BY <1>6 DEF EdcTopup
    <2>2. CASE point = "duplicate"
      <3>1. Starts(Request("duplicate", "edc", x, x, a, k))
        BY <2>1, <2>2, <1>1, ChangeFacts DEF Starts, Points, Endpoints, Fits
      <3>2. QED
        BY <3>1
    <2>3. CASE point = "lock"
      <3>1. Starts(Request("lock", "edc", x, x, a, k))
        BY <2>1, <2>3, <1>1, ChangeFacts DEF Starts, Points, Endpoints, Fits
      <3>2. QED
        BY <3>1
    <2>4. QED
      BY <2>1, <2>2, <2>3
  <1>7. ASSUME TransferWithinFamily(w) PROVE \E r : Starts(r)
    <2>1. PICK x \in Wallets, y \in Wallets, a \in Amounts :
            x # y /\ Begin(w, Request("lock_first", "transfer", x, y, a, NoKey))
      BY <1>7 DEF TransferWithinFamily
    <2> DEFINE r == Request("lock_first", "transfer", x, y, a, NoKey)
    <2>2. "lock_first" \in Points /\ "transfer" \in Endpoints /\ a \in Changes
      BY ChangeFacts DEF Points, Endpoints
    <2>3. /\ r \in Requests /\ r.at = "lock_first" /\ r.kind = "transfer"
          /\ r.wallet = x /\ r.peer = y /\ r.change = a
      BY <2>2, <1>1
    <2> HIDE DEF r
    <2>4. Fits(r)
      BY <2>1, <2>3 DEF Fits
    <2>5. Starts(r)
      BY <2>1, <2>3, <2>4 DEF Starts, r
    <2>6. QED
      BY <2>5
  <1>8. PICK r : Starts(r)
    BY <1>2, <1>3, <1>4, <1>5, <1>6, <1>7 DEF Arrive
  <1>9. started \in Nat /\ started' = started + 1 /\ started < MaxRequests
    BY <1>8 DEF Starts, Begin, TypeOK
  <1>10. started' \in 0..MaxRequests
    BY <1>9
  <1>11. Step(w, r) /\ req[w].at = "idle"
           /\ UNCHANGED <<balance, ledger, walletLock, answers, faults>>
    BY <1>8 DEF Starts, Begin, Step
  <1>12. QED
    BY <1>8, <1>10, <1>11 DEF Starts

\* Idle is no request in flight, and a request that goes on keeps what it is about.
LEMMA GoesOnFits ==
  ASSUME TypeOK, RequestsFit, NEW w \in Workers, req[w].at # "idle",
         NEW r \in Requests, NEW at \in Points, r.at = at,
         r.kind = req[w].kind, r.wallet = req[w].wallet, r.peer = req[w].peer,
         r.change = req[w].change, r.key = req[w].key,
         at \in {"lookup", "replay"} => r.kind \in Ticketed /\ r.key \in Keys,
         at = "cap" => r.kind = "cashier",
         at # "duplicate",
         at # "credit",
         r.kind = "transfer" <=> at \in {"lock_first", "lock_second", "write_both"}
  PROVE  Fits(r)
  BY DEF Fits, RequestsFit

\* A step of a request in flight ends it or takes it to a point that fits.
LEMMA RunFacts ==
  ASSUME TypeOK, RequestsFit, NEW w \in Workers, Run(w) \/ RequestFails(w)
  PROVE  /\ req[w].at # "idle"
         /\ \E r \in Requests \cup {Idle} :
              Step(w, r) /\ (r.at # "idle" => Fits(r))
  <1>1. req[w].at # "idle"
    BY DEF Run, RequestFails, LookupFinds, LookupMisses, CheckCap, CheckEdcDuplicate,
           LockWallet, WriteRefused, WriteRejected, Write, LockFirst, LockSecond,
           WriteBothRefused, WriteDebit, WriteBoth
  <1>2. req[w] \in Requests /\ Fits(req[w])
    BY <1>1, InFlight DEF RequestsFit
  <1> DEFINE GoesOn == \E r \in Requests \cup {Idle} :
                         Step(w, r) /\ (r.at # "idle" => Fits(r))
  <1> HIDE DEF GoesOn
  <1>3. ASSUME End(w) PROVE GoesOn
    <2>1. Step(w, Idle) /\ Idle.at = "idle"
      BY <1>3 DEF End, Idle
    <2>2. QED
      BY <2>1 DEF GoesOn
  <1>4. ASSUME NEW at \in {"cap", "lock", "replay", "lock_second"}, Step(w, At(w, at)),
               at = "cap" => req[w].kind = "cashier",
               at = "replay" => req[w].kind \in Ticketed /\ req[w].key \in Keys,
               req[w].kind = "transfer" <=> at = "lock_second"
        PROVE  GoesOn
    <2>1. at \in Points
      BY DEF Points
    <2>2. /\ At(w, at) \in Requests /\ At(w, at).at = at
          /\ At(w, at).kind = req[w].kind /\ At(w, at).wallet = req[w].wallet
          /\ At(w, at).peer = req[w].peer /\ At(w, at).change = req[w].change
          /\ At(w, at).key = req[w].key
      BY <1>1, <2>1, InFlight
    <2>3. Fits(At(w, at))
      BY <1>1, <1>4, <2>1, <2>2, GoesOnFits
    <2>4. QED
      BY <1>4, <2>2, <2>3 DEF GoesOn
  <1>5. CASE LookupFinds(w) \/ Write(w) \/ WriteBoth(w) \/ WriteRefused(w)
               \/ WriteBothRefused(w) \/ RequestFails(w)
    <2>1. End(w)
      BY <1>5 DEF LookupFinds, Write, WriteBoth, WriteRefused, WriteBothRefused,
                  RequestFails, Rollback, End
    <2>2. QED
      BY <1>1, <1>3, <2>1 DEF GoesOn
  <1>6. CASE LookupMisses(w)
    <2>1. req[w].kind \in Ticketed /\ req[w].kind # "transfer"
      BY <1>2, <1>6 DEF LookupMisses, Fits, Ticketed
    <2>2. CASE req[w].at = "replay"
      BY <1>1, <1>3, <1>6, <2>2 DEF LookupMisses, End, GoesOn
    <2>3. CASE req[w].at # "replay" /\ req[w].kind = "cashier"
      BY <1>1, <1>4, <1>6, <2>1, <2>3 DEF LookupMisses, GoesOn
    <2>4. CASE req[w].at # "replay" /\ req[w].kind # "cashier"
      BY <1>1, <1>4, <1>6, <2>1, <2>4 DEF LookupMisses, GoesOn
    <2>5. QED
      BY <2>2, <2>3, <2>4
  <1>7. CASE CheckCap(w) \/ CheckEdcDuplicate(w)
    <2>1. req[w].kind # "transfer"
      BY <1>2, <1>7 DEF CheckCap, CheckEdcDuplicate, Fits
    <2>2. End(w) \/ Step(w, At(w, "lock"))
      BY <1>7 DEF CheckCap, CheckEdcDuplicate, End
    <2>3. QED
      BY <1>1, <1>3, <1>4, <2>1, <2>2 DEF GoesOn
  <1>8. CASE WriteRejected(w)
    <2>1. /\ req[w].kind \in Ticketed /\ req[w].key # NoKey
          /\ Step(w, At(w, "replay"))
      BY <1>8 DEF WriteRejected, TicketTaken, Rollback
    <2>2. req[w].key \in Keys /\ req[w].kind # "transfer"
      BY <1>2, <2>1 DEF Requests, Ticketed
    <2>3. QED
      BY <1>1, <1>4, <2>1, <2>2 DEF GoesOn
  <1>9. CASE LockFirst(w)
    <2>1. req[w].kind = "transfer" /\ Step(w, At(w, "lock_second"))
      BY <1>2, <1>9 DEF LockFirst, Fits
    <2>2. QED
      BY <1>1, <1>4, <2>1 DEF GoesOn
  <1>10. CASE LockWallet(w)
    <2> DEFINE r == [At(w, "write") EXCEPT !.read = balance[req[w].wallet]]
    <2>1. Step(w, r) /\ req[w].kind # "transfer"
      BY <1>2, <1>10 DEF LockWallet, Fits
    <2>2. balance[req[w].wallet] \in Int /\ "write" \in Points
      BY <1>2 DEF TypeOK, Requests, Points
    <2>3. /\ r \in Requests /\ r.at = "write" /\ r.kind = req[w].kind
          /\ r.wallet = req[w].wallet /\ r.peer = req[w].peer
          /\ r.change = req[w].change /\ r.key = req[w].key
      BY <1>1, <1>2, <2>2, InFlight DEF Requests
    <2> HIDE DEF r
    <2>4. Fits(r)
      BY <1>1, <2>1, <2>2, <2>3, GoesOnFits
    <2>5. QED
      BY <1>1, <2>1, <2>3, <2>4
  <1>11. CASE LockSecond(w)
    <2> DEFINE r == [At(w, "write_both") EXCEPT !.read = balance[req[w].wallet],
                                                !.peerRead = balance[req[w].peer]]
    <2>1. Step(w, r) /\ req[w].kind = "transfer"
      BY <1>2, <1>11 DEF LockSecond, Fits
    <2>2. /\ balance[req[w].wallet] \in Int /\ balance[req[w].peer] \in Int
          /\ "write_both" \in Points
      BY <1>2 DEF TypeOK, Requests, Points
    <2>3. /\ r \in Requests /\ r.at = "write_both" /\ r.kind = req[w].kind
          /\ r.wallet = req[w].wallet /\ r.peer = req[w].peer
          /\ r.change = req[w].change /\ r.key = req[w].key
      <3> DEFINE q == [At(w, "write_both") EXCEPT !.read = balance[req[w].wallet]]
      <3>1. /\ q \in Requests /\ q.at = "write_both" /\ q.kind = req[w].kind
            /\ q.wallet = req[w].wallet /\ q.peer = req[w].peer
            /\ q.change = req[w].change /\ q.key = req[w].key
        BY <1>1, <1>2, <2>2, InFlight DEF Requests
      <3>2. r = [q EXCEPT !.peerRead = balance[req[w].peer]]
        BY <1>1, <2>2, InFlight DEF Requests
      <3> HIDE DEF q, r
      <3>3. QED
        BY <2>2, <3>1, <3>2 DEF Requests
    <2> HIDE DEF r
    <2>4. Fits(r)
      BY <1>1, <2>1, <2>2, <2>3, GoesOnFits
    <2>5. QED
      BY <1>1, <2>1, <2>3, <2>4
  <1>12. CASE WriteDebit(w)
    <2> DEFINE r == At(w, "credit")
    <2>1. req[w].at = "write_both" /\ ~TransferRefused(w) /\ Step(w, r)
      BY <1>12 DEF WriteDebit
    <2>2. /\ r \in Requests /\ r.at = "credit" /\ r.kind = req[w].kind
          /\ r.wallet = req[w].wallet /\ r.peer = req[w].peer
          /\ r.change = req[w].change /\ r.key = req[w].key
          /\ r.read = req[w].read /\ r.peerRead = req[w].peerRead
      BY <1>1, InFlight DEF Points
    <2>3. r.read \in Int /\ r.peerRead \in Int /\ r.change \in Int
      BY <2>2, ChangeFacts DEF Requests
    <2>4. ~(r.read < r.change) /\ ~(r.peerRead + r.change > MAX_WALLET_BALANCE)
      BY <2>1, <2>2 DEF TransferRefused
    <2>5. r.change <= r.read /\ r.peerRead + r.change <= MAX_WALLET_BALANCE
      BY <2>3, <2>4, ConstantsAssumption
    <2> HIDE DEF r
    <2>6. Fits(r)
      BY <1>2, <2>1, <2>2, <2>5 DEF Fits
    <2>7. QED
      BY <2>1, <2>2, <2>6
  <1>13. QED
    BY <1>5, <1>6, <1>7, <1>8, <1>9, <1>10, <1>11, <1>12 DEF Run

\* Every step keeps req well typed and its requests fitting.
LEMMA StepRequests ==
  ASSUME TypeOK, RequestsFit, [Next]_vars
  PROVE  req' \in [Workers -> Requests \cup {Idle}] /\ RequestsFit'
  <1>1. ASSUME NEW w \in Workers, Arrive(w) \/ Run(w) \/ RequestFails(w)
        PROVE  req' \in [Workers -> Requests \cup {Idle}] /\ RequestsFit'
    <2>1. PICK r \in Requests \cup {Idle} : Step(w, r) /\ (r.at # "idle" => Fits(r))
      BY <1>1, ArriveFacts, RunFacts
    <2>2. /\ req' \in [Workers -> Requests \cup {Idle}]
          /\ req'[w] = r
          /\ \A v \in Workers : v # w => req'[v] = req[v]
      BY <2>1, StepOfOne
    <2>3. QED
      BY <2>1, <2>2 DEF RequestsFit
  <1>2. CASE ServerCrash
    <2>1. \A w \in Workers : req'[w] = Idle
      BY <1>2 DEF ServerCrash
    <2>2. req' \in [Workers -> Requests \cup {Idle}]
      BY <1>2 DEF ServerCrash
    <2>3. QED
      BY <2>1, <2>2 DEF RequestsFit, Idle
  <1>3. CASE UNCHANGED vars
    BY <1>3 DEF vars, TypeOK, RequestsFit
  <1>4. QED
    BY <1>1, <1>2, <1>3 DEF Next

-----------------------------------------------------------------------------
(* The locks *)

\* One request moves: it takes free wallets, lets go of those it no longer
\* needs, and changes the balance of a wallet only while it holds it.
LEMMA LocksMove ==
  ASSUME TypeOK, LocksAgree, NEW w \in Workers,
         \A v \in Workers : v # w => req'[v] = req[v],
         \A x \in Wallets :
           /\ walletLock'[x] = IF x \in Held(w)' THEN w
                               ELSE IF walletLock[x] = w THEN NoWorker ELSE walletLock[x]
           /\ x \in Held(w)' => walletLock[x] \in {w, NoWorker}
           /\ balance'[x] = balance[x] \/ walletLock[x] = w,
         req'[w].at \in {"write", "write_both", "credit"} =>
           req'[w].read = balance'[req'[w].wallet],
         req'[w].at \in {"write_both", "credit"} => req'[w].peerRead = balance'[req'[w].peer]
  PROVE  LocksAgree'
  <1>1. ASSUME NEW v \in Workers, v # w
        PROVE  Held(v)' = Held(v)
    BY <1>1 DEF Held, First, Lower
  <1>2. ASSUME NEW x \in Wallets, NEW v \in Workers
        PROVE  (walletLock'[x] = v) <=> (x \in Held(v)')
    <2>1. CASE v = w
      BY <2>1
    <2>2. CASE v # w
      <3>1. Held(v)' = Held(v) /\ (walletLock[x] = v <=> x \in Held(v)) /\ v # NoWorker
        BY <1>1, <2>2, ConstantsAssumption DEF LocksAgree
      <3>2. CASE walletLock'[x] = walletLock[x]
        BY <3>1, <3>2
      <3>3. CASE walletLock'[x] # walletLock[x]
        BY <2>2, <3>1, <3>3
      <3>4. QED
        BY <3>2, <3>3
    <2>3. QED
      BY <2>1, <2>2
  <1>3. ASSUME NEW v \in Workers, req'[v].at \in {"write", "write_both", "credit"}
        PROVE  /\ req'[v].read = balance'[req'[v].wallet]
               /\ req'[v].at \in {"write_both", "credit"} =>
                    req'[v].peerRead = balance'[req'[v].peer]
    <2>1. CASE v = w
      BY <1>3, <2>1
    <2>2. CASE v # w
      <3>1. req'[v] = req[v] /\ req[v] \in Requests
        BY <1>3, <2>2, InFlight
      <3>2. req[v].wallet \in Wallets /\ req[v].peer \in Wallets
        BY <3>1 DEF Requests
      <3>3. req[v].wallet \in Held(v) /\ (req[v].at \in {"write_both", "credit"} => req[v].peer \in Held(v))
        BY <1>3, <3>1 DEF Held
      <3>4. /\ balance'[req[v].wallet] = balance[req[v].wallet]
            /\ req[v].at \in {"write_both", "credit"} => balance'[req[v].peer] = balance[req[v].peer]
        <4>1. /\ walletLock[req[v].wallet] = v
              /\ req[v].at \in {"write_both", "credit"} => walletLock[req[v].peer] = v
          BY <3>2, <3>3 DEF LocksAgree
        <4>2. QED
          BY <2>2, <3>2, <4>1
      <3>5. QED
        BY <1>3, <3>1, <3>4 DEF LocksAgree
    <2>3. QED
      BY <2>1, <2>2
  <1>4. QED
    BY <1>2, <1>3 DEF LocksAgree

\* A request that ends, or goes on to a point without locks, lets go of its
\* wallets.
LEMMA LocksReleased ==
  ASSUME TypeOK, LocksAgree, NEW w \in Workers, NEW r \in Requests \cup {Idle},
         Step(w, r), r.at \notin {"write", "lock_second", "write_both", "credit"},
         walletLock' = Unlocked(w),
         \A x \in Wallets : balance'[x] = balance[x] \/ walletLock[x] = w
  PROVE  LocksAgree'
  <1>1. req'[w] = r /\ \A v \in Workers : v # w => req'[v] = req[v]
    BY StepOfOne
  <1>2. Held(w)' = {}
    BY <1>1 DEF Held
  <1>3. \A x \in Wallets :
          walletLock'[x] = IF walletLock[x] = w THEN NoWorker ELSE walletLock[x]
    BY DEF Unlocked
  <1>4. QED
    BY <1>1, <1>2, <1>3, LocksMove

\* A request away from the locks, before and after, holds nothing.
LEMMA LocksUntouched ==
  ASSUME TypeOK, LocksAgree, NEW w \in Workers, NEW r \in Requests \cup {Idle},
         Step(w, r), r.at \notin {"write", "lock_second", "write_both", "credit"},
         req[w].at \notin {"write", "lock_second", "write_both", "credit"},
         UNCHANGED <<walletLock, balance>>
  PROVE  LocksAgree'
  <1>1. Held(w) = {}
    BY DEF Held
  <1>2. \A x \in Wallets : walletLock[x] # w
    BY <1>1 DEF LocksAgree
  <1>3. req'[w] = r /\ \A v \in Workers : v # w => req'[v] = req[v]
    BY StepOfOne
  <1>4. Held(w)' = {}
    BY <1>3 DEF Held
  <1>5. QED
    BY <1>2, <1>3, <1>4, LocksMove

\* A transaction writes what it holds, and reads what it holds.
LEMMA HeldFacts ==
  ASSUME TypeOK, LocksAgree, RequestsFit, NEW w \in Workers
  PROVE  /\ req[w].at = "write" =>
              /\ req[w].wallet \in Wallets /\ walletLock[req[w].wallet] = w
              /\ req[w].read = balance[req[w].wallet]
              /\ req[w].kind # "transfer"
         /\ req[w].at \in {"lock_first", "lock_second", "write_both", "credit"} =>
              /\ req[w].wallet \in Wallets /\ req[w].peer \in Wallets
              /\ req[w].wallet # req[w].peer
              /\ req[w].change \in Amounts
              /\ {First(w), Second(w)} = {req[w].wallet, req[w].peer}
              /\ First(w) # Second(w)
         /\ req[w].at \in {"write_both", "credit"} =>
              /\ walletLock[req[w].wallet] = w /\ walletLock[req[w].peer] = w
              /\ req[w].read = balance[req[w].wallet]
              /\ req[w].peerRead = balance[req[w].peer]
  <1>1. CASE req[w].at = "write"
    <2>1. req[w] \in Requests /\ Fits(req[w])
      BY <1>1, InFlight DEF RequestsFit
    <2>2. req[w].wallet \in Wallets /\ req[w].kind # "transfer"
      BY <1>1, <2>1 DEF Requests, Fits
    <2>3. req[w].wallet \in Held(w)
      BY <1>1 DEF Held
    <2>4. walletLock[req[w].wallet] = w /\ req[w].read = balance[req[w].wallet]
      BY <1>1, <2>2, <2>3 DEF LocksAgree
    <2>5. QED
      BY <1>1, <2>2, <2>4
  <1>2. CASE req[w].at \in {"lock_first", "lock_second", "write_both", "credit"}
    <2>1. req[w] \in Requests /\ Fits(req[w])
      BY <1>2, InFlight DEF RequestsFit
    <2>2. req[w].wallet \in Wallets /\ req[w].peer \in Wallets
      BY <2>1 DEF Requests
    <2>3. req[w].wallet # req[w].peer /\ req[w].change \in Amounts
      BY <1>2, <2>1 DEF Fits
    <2>4. {First(w), Second(w)} = {req[w].wallet, req[w].peer} /\ First(w) # Second(w)
      BY <2>2, <2>3 DEF First, Second, Lower
    <2>5. ASSUME req[w].at \in {"write_both", "credit"}
          PROVE  /\ walletLock[req[w].wallet] = w /\ walletLock[req[w].peer] = w
                 /\ req[w].read = balance[req[w].wallet]
                 /\ req[w].peerRead = balance[req[w].peer]
      <3>1. req[w].wallet \in Held(w) /\ req[w].peer \in Held(w)
        BY <2>5 DEF Held
      <3>2. walletLock[req[w].wallet] = w /\ walletLock[req[w].peer] = w
        BY <2>2, <3>1 DEF LocksAgree
      <3>3. QED
        BY <2>5, <3>2 DEF LocksAgree
    <2>6. QED
      BY <1>2, <2>2, <2>3, <2>4, <2>5
  <1>3. QED
    BY <1>1, <1>2

\* Every step keeps the locks and the requests in agreement.
LEMMA StepLocks ==
  ASSUME TypeOK, LocksAgree, RequestsFit, [Next]_vars
  PROVE  LocksAgree'
  <1>1. ASSUME NEW w \in Workers, Arrive(w)
        PROVE  LocksAgree'
    <2>1. PICK r \in Requests :
            Step(w, r) /\ r.at \in {"lookup", "cap", "duplicate", "lock", "lock_first"}
      BY <1>1, ArriveFacts
    <2>2. req[w].at = "idle" /\ UNCHANGED <<walletLock, balance>>
      BY <1>1, ArriveFacts
    <2>3. QED
      BY <2>1, <2>2, LocksUntouched
  <1>2. ASSUME NEW w \in Workers,
               LookupFinds(w) \/ LookupMisses(w) \/ CheckCap(w) \/ CheckEdcDuplicate(w)
        PROVE  LocksAgree'
    <2>1. /\ req[w].at \in {"lookup", "replay", "cap", "duplicate"}
          /\ UNCHANGED <<walletLock, balance>>
      BY <1>2 DEF LookupFinds, LookupMisses, CheckCap, CheckEdcDuplicate
    <2>2. Step(w, Idle) \/ Step(w, At(w, "cap")) \/ Step(w, At(w, "lock"))
      BY <1>2 DEF LookupFinds, LookupMisses, CheckCap, CheckEdcDuplicate, End
    <2>3. /\ At(w, "cap") \in Requests /\ At(w, "cap").at = "cap"
          /\ At(w, "lock") \in Requests /\ At(w, "lock").at = "lock"
      BY <2>1, InFlight DEF Points
    <2>4. PICK r \in Requests \cup {Idle} : Step(w, r) /\ r.at \in {"idle", "cap", "lock"}
      BY <2>2, <2>3 DEF Idle
    <2>5. QED
      BY <2>1, <2>4, LocksUntouched
  <1>3. ASSUME NEW w \in Workers,
               WriteRefused(w) \/ WriteBothRefused(w) \/ WriteRejected(w) \/ RequestFails(w)
        PROVE  LocksAgree'
    <2>1. /\ req[w].at # "idle" /\ walletLock' = Unlocked(w) /\ UNCHANGED balance
          /\ Step(w, Idle) \/ Step(w, At(w, "replay"))
      BY <1>3 DEF WriteRefused, WriteBothRefused, WriteRejected, RequestFails, Rollback, End
    <2>2. At(w, "replay") \in Requests /\ At(w, "replay").at = "replay"
      BY <2>1, InFlight DEF Points
    <2>3. PICK r \in Requests \cup {Idle} : Step(w, r) /\ r.at \in {"idle", "replay"}
      BY <2>1, <2>2 DEF Idle
    <2>4. QED
      BY <2>1, <2>3, LocksReleased
  <1>4. ASSUME NEW w \in Workers, Write(w) \/ WriteBoth(w)
        PROVE  LocksAgree'
    <2>1. \A x \in Wallets : balance'[x] = balance[x] \/ walletLock[x] = w
      <3>1. CASE Write(w)
        <4>1. /\ req[w].at = "write"
              /\ balance' = [balance EXCEPT ![req[w].wallet] = req[w].read + req[w].change]
          BY <3>1 DEF Write
        <4>2. QED
          BY <4>1, HeldFacts DEF TypeOK
      <3>2. CASE WriteBoth(w)
        <4>1. /\ req[w].at = "credit"
              /\ balance' = [balance EXCEPT ![req[w].wallet] = req[w].read - req[w].change,
                                            ![req[w].peer] = req[w].peerRead + req[w].change]
          BY <3>2 DEF WriteBoth
        <4>2. walletLock[req[w].wallet] = w /\ walletLock[req[w].peer] = w
          BY <4>1, HeldFacts
        <4>3. QED
          BY <4>1, <4>2 DEF TypeOK
      <3>3. QED
        BY <1>4, <3>1, <3>2
    <2>2. Step(w, Idle) /\ walletLock' = Unlocked(w) /\ Idle.at = "idle"
      BY <1>4 DEF Write, WriteBoth, End, Idle
    <2>3. QED
      BY <2>1, <2>2, LocksReleased
  <1>5. ASSUME NEW w \in Workers, LockWallet(w)
        PROVE  LocksAgree'
    <2> DEFINE x == req[w].wallet
               r == [At(w, "write") EXCEPT !.read = balance[x]]
    <2>1. req[w].at = "lock" /\ walletLock[x] = NoWorker /\ Step(w, r)
            /\ walletLock' = [walletLock EXCEPT ![x] = w] /\ UNCHANGED balance
      BY <1>5 DEF LockWallet
    <2>2. x \in Wallets /\ balance[x] \in Int /\ "write" \in Points
      BY <2>1, InFlight DEF Requests, TypeOK, Points
    <2>3. r \in Requests /\ r.at = "write" /\ r.wallet = x /\ r.read = balance[x]
      BY <2>1, <2>2, InFlight DEF Requests
    <2> HIDE DEF r
    <2>4. req'[w] = r /\ \A v \in Workers : v # w => req'[v] = req[v]
      BY <2>1, <2>3, StepOfOne
    <2>5. Held(w)' = {x} /\ Held(w) = {}
      BY <2>1, <2>3, <2>4 DEF Held
    <2>6. \A y \in Wallets : walletLock[y] # w
      BY <2>5 DEF LocksAgree
    <2>7. \A y \in Wallets : walletLock'[y] = IF y = x THEN w ELSE walletLock[y]
      BY <2>1 DEF TypeOK
    <2>8. QED
      BY <2>1, <2>3, <2>4, <2>5, <2>6, <2>7, LocksMove
  <1>6. ASSUME NEW w \in Workers, LockFirst(w)
        PROVE  LocksAgree'
    <2>1. req[w].at = "lock_first" /\ walletLock[First(w)] = NoWorker
            /\ walletLock' = [walletLock EXCEPT ![First(w)] = w]
            /\ Step(w, At(w, "lock_second")) /\ UNCHANGED balance
      BY <1>6 DEF LockFirst
    <2>2. /\ At(w, "lock_second") \in Requests
          /\ At(w, "lock_second").at = "lock_second"
          /\ At(w, "lock_second").wallet = req[w].wallet
          /\ At(w, "lock_second").peer = req[w].peer
      BY <2>1, InFlight DEF Points
    <2>3. req'[w] = At(w, "lock_second") /\ \A v \in Workers : v # w => req'[v] = req[v]
      BY <2>1, <2>2, StepOfOne
    <2>4. Held(w)' = {First(w)} /\ Held(w) = {}
      BY <2>1, <2>2, <2>3 DEF Held, First
    <2>5. \A y \in Wallets : walletLock[y] # w
      BY <2>4 DEF LocksAgree
    <2>6. \A y \in Wallets : walletLock'[y] = IF y = First(w) THEN w ELSE walletLock[y]
      BY <2>1 DEF TypeOK
    <2>7. QED
      BY <2>1, <2>2, <2>3, <2>4, <2>5, <2>6, LocksMove
  <1>7. ASSUME NEW w \in Workers, LockSecond(w)
        PROVE  LocksAgree'
    <2> DEFINE x == req[w].wallet
               y == req[w].peer
               q == [At(w, "write_both") EXCEPT !.read = balance[x]]
               r == [At(w, "write_both") EXCEPT !.read = balance[x],
                                                !.peerRead = balance[y]]
    <2>1. req[w].at = "lock_second" /\ walletLock[Second(w)] = NoWorker
            /\ walletLock' = [walletLock EXCEPT ![Second(w)] = w]
            /\ Step(w, r) /\ UNCHANGED balance
      BY <1>7 DEF LockSecond
    <2>2. /\ x \in Wallets /\ y \in Wallets /\ balance[x] \in Int /\ balance[y] \in Int
          /\ "write_both" \in Points
      BY <2>1, InFlight DEF Requests, TypeOK, Points
    <2>3. /\ q \in Requests /\ q.at = "write_both" /\ q.wallet = x /\ q.peer = y
          /\ q.read = balance[x]
      BY <2>1, <2>2, InFlight DEF Requests
    <2>4. r = [q EXCEPT !.peerRead = balance[y]]
      BY <2>1, <2>2, InFlight DEF Requests
    <2> HIDE DEF q, r
    <2>5. /\ r \in Requests /\ r.at = "write_both" /\ r.wallet = x /\ r.peer = y
          /\ r.read = balance[x] /\ r.peerRead = balance[y]
      BY <2>2, <2>3, <2>4 DEF Requests
    <2>6. req'[w] = r /\ \A v \in Workers : v # w => req'[v] = req[v]
      BY <2>1, <2>5, StepOfOne
    <2>7. Held(w)' = {x, y} /\ Held(w) = {First(w)}
      BY <2>1, <2>5, <2>6 DEF Held
    <2>8. {First(w), Second(w)} = {x, y} /\ First(w) # Second(w)
      BY <2>1, HeldFacts
    <2>9. \A z \in Wallets : walletLock[z] = w <=> z = First(w)
      BY <2>7 DEF LocksAgree
    <2>10. \A z \in Wallets : walletLock'[z] = IF z = Second(w) THEN w ELSE walletLock[z]
      BY <2>1 DEF TypeOK
    <2>11. \A z \in Wallets :
             /\ walletLock'[z] = IF z \in Held(w)' THEN w
                                 ELSE IF walletLock[z] = w THEN NoWorker ELSE walletLock[z]
             /\ z \in Held(w)' => walletLock[z] \in {w, NoWorker}
      BY <2>1, <2>7, <2>8, <2>9, <2>10
    <2>12. QED
      BY <2>1, <2>5, <2>6, <2>11, LocksMove
  <1>8. ASSUME NEW w \in Workers, WriteDebit(w)
        PROVE  LocksAgree'
    <2>1. /\ req[w].at = "write_both" /\ Step(w, At(w, "credit"))
          /\ UNCHANGED <<walletLock, balance>>
      BY <1>8 DEF WriteDebit
    <2>2. /\ req[w] \in Requests /\ At(w, "credit") \in Requests
          /\ At(w, "credit").at = "credit"
          /\ At(w, "credit").wallet = req[w].wallet
          /\ At(w, "credit").peer = req[w].peer
          /\ At(w, "credit").read = req[w].read
          /\ At(w, "credit").peerRead = req[w].peerRead
      BY <2>1, InFlight DEF Points
    <2>3. req'[w] = At(w, "credit") /\ \A v \in Workers : v # w => req'[v] = req[v]
      BY <2>1, <2>2, StepOfOne
    <2>4. Held(w)' = {req[w].wallet, req[w].peer} /\ Held(w) = {req[w].wallet, req[w].peer}
      BY <2>1, <2>2, <2>3 DEF Held
    <2>5. \A z \in Wallets : walletLock[z] = w <=> z \in {req[w].wallet, req[w].peer}
      BY <2>4 DEF LocksAgree
    <2>6. req[w].read = balance[req[w].wallet] /\ req[w].peerRead = balance[req[w].peer]
      BY <2>1 DEF LocksAgree
    <2>7. QED
      BY <2>1, <2>2, <2>3, <2>4, <2>5, <2>6, LocksMove
  <1>9. CASE ServerCrash
    <2>1. /\ \A w \in Workers : req'[w] = Idle
          /\ \A x \in Wallets : walletLock'[x] = NoWorker
      BY <1>9 DEF ServerCrash
    <2>2. \A w \in Workers : Held(w)' = {} /\ req'[w].at = "idle"
      BY <2>1 DEF Held, Idle
    <2>3. QED
      BY <2>1, <2>2 DEF LocksAgree
  <1>10. CASE UNCHANGED vars
    <2>1. \A w \in Workers : Held(w)' = Held(w)
      BY <1>10 DEF vars, Held, First, Lower
    <2>2. QED
      BY <1>10, <2>1 DEF vars, LocksAgree
  <1>11. QED
    BY <1>1, <1>2, <1>3, <1>4, <1>5, <1>6, <1>7, <1>8, <1>9, <1>10 DEF Next, Run

-----------------------------------------------------------------------------
(* The books *)

\* The wallets of X get the rows of row, each from the wallet's balance.
Posts(X, row) ==
  /\ X \subseteq Wallets
  /\ \A x \in X : /\ row[x] \in Rows
                  /\ row[x].before = balance[x]
                  /\ row[x].after = row[x].before + row[x].change
  /\ \A x \in Wallets :
       /\ balance'[x] = IF x \in X THEN row[x].after ELSE balance[x]
       /\ ledger'[x] = IF x \in X THEN Append(ledger[x], row[x]) ELSE ledger[x]

NewEntry(x) == <<x, Len(ledger[x]) + 1>>

\* Appending one row.
LEMMA AppendFacts ==
  ASSUME NEW S, NEW s \in Seq(S), NEW e \in S, NEW n, n = Len(s) + 1
  PROVE  /\ n \in Nat /\ DOMAIN Append(s, e) = 1..n /\ DOMAIN s = 1..(n - 1)
         /\ Len(Append(s, e)) = n /\ Append(s, e) # <<>>
         /\ Append(s, e)[n] = e
         /\ \A k \in DOMAIN s : Append(s, e)[k] = s[k]
         /\ s = <<>> <=> n = 1
         /\ Append(s, e) \in Seq(S)
  OBVIOUS

\* The entries after posting: the old ones, as they were, and one new per wallet.
LEMMA PostedEntries ==
  ASSUME TypeOK, NEW X, NEW row, Posts(X, row)
  PROVE  /\ \A e \in Entries : e \in Entries' /\ RowAt(e)' = RowAt(e)
         /\ \A x \in X : \A e : e = NewEntry(x) =>
              e \in Entries' /\ e \notin Entries /\ RowAt(e)' = row[x] /\ e[1] = x
         /\ \A e \in Entries' : e \in Entries \/ \E x \in X : e = NewEntry(x)
  <1>1. ASSUME NEW x \in Wallets
        PROVE  /\ ledger[x] \in Seq(Rows)
               /\ x \notin X => ledger'[x] = ledger[x]
               /\ x \in X => /\ DOMAIN ledger'[x] = DOMAIN ledger[x] \cup {Len(ledger[x]) + 1}
                             /\ Len(ledger[x]) + 1 \notin DOMAIN ledger[x]
                             /\ ledger'[x][Len(ledger[x]) + 1] = row[x]
                             /\ \A n \in DOMAIN ledger[x] : ledger'[x][n] = ledger[x][n]
    <2>1. ledger[x] \in Seq(Rows) /\ (x \notin X => ledger'[x] = ledger[x])
      BY DEF TypeOK, Posts
    <2>2. ASSUME x \in X
          PROVE  /\ DOMAIN ledger'[x] = DOMAIN ledger[x] \cup {Len(ledger[x]) + 1}
                 /\ Len(ledger[x]) + 1 \notin DOMAIN ledger[x]
                 /\ ledger'[x][Len(ledger[x]) + 1] = row[x]
                 /\ \A n \in DOMAIN ledger[x] : ledger'[x][n] = ledger[x][n]
      <3> DEFINE n == Len(ledger[x]) + 1
      <3>1. ledger'[x] = Append(ledger[x], row[x]) /\ row[x] \in Rows
        BY <2>2 DEF Posts
      <3>2. /\ n \in Nat /\ DOMAIN ledger'[x] = 1..n /\ DOMAIN ledger[x] = 1..(n - 1)
            /\ ledger'[x][n] = row[x]
            /\ \A k \in DOMAIN ledger[x] : ledger'[x][k] = ledger[x][k]
            /\ n # 0
        BY <2>1, <3>1, AppendFacts
      <3>3. QED
        BY <3>2
    <2>3. QED
      BY <2>1, <2>2
  <1>2. ASSUME NEW e \in Entries
        PROVE  e \in Entries' /\ RowAt(e)' = RowAt(e)
    <2>1. e = <<e[1], e[2]>> /\ e[1] \in Wallets /\ e[2] \in DOMAIN ledger[e[1]]
      BY EntryFacts
    <2>2. e[2] \in DOMAIN ledger'[e[1]] /\ ledger'[e[1]][e[2]] = ledger[e[1]][e[2]]
      BY <1>1, <2>1
    <2>3. QED
      BY <2>1, <2>2 DEF Entries, RowAt
  <1>3. ASSUME NEW x \in X, NEW e, e = NewEntry(x)
        PROVE  e \in Entries' /\ e \notin Entries /\ RowAt(e)' = row[x] /\ e[1] = x
    <2>1. x \in Wallets /\ e = <<x, Len(ledger[x]) + 1>>
      BY <1>3 DEF Posts, NewEntry
    <2>2. e \in Entries'
      BY <1>1, <2>1 DEF Entries
    <2>3. e[1] = x /\ e[2] = Len(ledger[x]) + 1
      BY <2>1
    <2>4. e \notin Entries
      BY <1>1, <2>1, <2>3, EntryFacts
    <2>5. RowAt(e)' = row[x]
      BY <1>1, <2>1, <2>3 DEF RowAt
    <2>6. QED
      BY <2>2, <2>3, <2>4, <2>5
  <1>4. ASSUME NEW e \in Entries'
        PROVE  e \in Entries \/ \E x \in X : e = NewEntry(x)
    <2>0. PICK x \in Wallets : e \in {x} \X DOMAIN ledger'[x]
      BY DEF Entries
    <2>1. PICK n \in DOMAIN ledger'[x] : e = <<x, n>>
      BY <2>0
    <2>2. CASE n \in DOMAIN ledger[x]
      BY <2>1, <2>2, EntryFacts
    <2>3. CASE n \notin DOMAIN ledger[x]
      BY <1>1, <2>1, <2>3 DEF NewEntry
    <2>4. QED
      BY <2>2, <2>3
  <1>5. QED
    BY <1>2, <1>3, <1>4

\* The ledgers chain on after posting.
LEMMA PostedChains ==
  ASSUME TypeOK, LedgerChains, NEW X, NEW row, Posts(X, row)
  PROVE  LedgerChains'
  <1> DEFINE Chain(rows, left, held) ==
        /\ \A n \in DOMAIN rows :
             /\ rows[n].before = IF n = 1 THEN left ELSE rows[n - 1].after
             /\ rows[n].after = rows[n].before + rows[n].change
        /\ held = IF rows = <<>> THEN left ELSE rows[Len(rows)].after
  <1>1. \A x \in Wallets : Chain(ledger[x], Opening[x], balance[x])
    BY DEF LedgerChains
  <1>2. ASSUME NEW x \in Wallets
        PROVE  Chain(ledger'[x], Opening[x], balance'[x])
    <2>1. CASE x \notin X
      <3>1. ledger'[x] = ledger[x] /\ balance'[x] = balance[x]
        BY <2>1 DEF Posts
      <3> HIDE DEF Chain
      <3>2. QED
        BY <1>1, <3>1
    <2>2. CASE x \in X
      <3> DEFINE s == ledger[x]
                 t == ledger'[x]
                 n == Len(s) + 1
      <3>1. /\ t = Append(s, row[x]) /\ row[x] \in Rows /\ balance'[x] = row[x].after
            /\ row[x].before = balance[x] /\ row[x].after = row[x].before + row[x].change
        BY <2>2 DEF Posts
      <3>2. s \in Seq(Rows)
        BY DEF TypeOK
      <3>3. /\ n \in Nat /\ DOMAIN t = 1..n /\ DOMAIN s = 1..(n - 1)
            /\ Len(t) = n /\ Len(s) = n - 1 /\ t # <<>> /\ t[n] = row[x]
            /\ \A k \in DOMAIN s : t[k] = s[k]
            /\ s = <<>> <=> n = 1
        BY <3>1, <3>2, AppendFacts
      <3>4. Chain(s, Opening[x], balance[x])
        BY <1>1
      <3> HIDE DEF s, t, n
      <3>5. ASSUME NEW k \in 1..n
            PROVE  /\ t[k].before = IF k = 1 THEN Opening[x] ELSE t[k - 1].after
                   /\ t[k].after = t[k].before + t[k].change
        <4>1. CASE k = n
          <5>1. balance[x] = IF n = 1 THEN Opening[x] ELSE s[n - 1].after
            BY <3>3, <3>4
          <5>2. n # 1 => n - 1 \in DOMAIN s /\ t[n - 1] = s[n - 1]
            BY <3>3
          <5>3. QED
            BY <3>1, <3>3, <4>1, <5>1, <5>2
        <4>2. CASE k # n
          <5>1. /\ k \in DOMAIN s /\ t[k] = s[k]
                /\ k # 1 => k - 1 \in DOMAIN s /\ t[k - 1] = s[k - 1]
            BY <3>3, <4>2
          <5>2. QED
            BY <3>4, <5>1
        <4>3. QED
          BY <4>1, <4>2
      <3>6. Chain(t, Opening[x], balance'[x])
        BY <3>1, <3>3, <3>5
      <3>7. QED
        BY <3>6 DEF t
    <2>3. QED
      BY <2>1, <2>2
  <1>3. QED
    BY <1>2 DEF LedgerChains

\* The row a ticketed or unticketed write posts, and the two of a transfer.
WriteRow(w) ==
  [x \in {req[w].wallet} |-> Row(req[w].kind, req[w].key, req[w].change, req[w].read)]
BothRows(w) ==
  [x \in {req[w].wallet, req[w].peer} |->
     IF x = req[w].wallet THEN Row("transfer", NoKey, -req[w].change, req[w].read)
     ELSE Row("transfer", NoKey, req[w].change, req[w].peerRead)]

\* Write posts one row.
LEMMA WritePosts ==
  ASSUME TypeOK, LocksAgree, RequestsFit, NEW w \in Workers, Write(w)
  PROVE  /\ req[w] \in Requests /\ Fits(req[w]) /\ req[w].kind # "transfer"
         /\ req[w].wallet \in Wallets /\ req[w].change \in Int
         /\ req[w].read = balance[req[w].wallet] /\ req[w].read \in Int
         /\ Posts({req[w].wallet}, WriteRow(w))
  <1> DEFINE r == req[w]
             x == r.wallet
             new == Row(r.kind, r.key, r.change, r.read)
  <1>1. /\ r.at = "write"
        /\ balance' = [balance EXCEPT ![x] = r.read + r.change]
        /\ ledger' = [ledger EXCEPT ![x] = Append(@, new)]
    BY DEF Write
  <1>2. r \in Requests /\ Fits(r)
    BY <1>1, InFlight DEF RequestsFit
  <1>3. x \in Wallets /\ r.read = balance[x] /\ r.kind # "transfer"
    BY <1>1, HeldFacts
  <1>4. /\ r.kind \in Endpoints /\ r.key \in Keys \cup {NoKey} /\ r.change \in Changes
        /\ r.read \in Int /\ r.change \in Int
    BY <1>2, ChangeFacts DEF Requests
  <1>5. /\ new \in Rows /\ new.before = r.read /\ new.change = r.change
        /\ new.after = r.read + r.change
    BY <1>4 DEF Row, Rows
  <1>6. /\ \A y \in Wallets : balance'[y] = IF y = x THEN new.after ELSE balance[y]
        /\ \A y \in Wallets : ledger'[y] = IF y = x THEN Append(ledger[y], new) ELSE ledger[y]
    BY <1>1, <1>5 DEF TypeOK
  <1>7. WriteRow(w)[x] = new
    BY DEF WriteRow
  <1> HIDE DEF new
  <1>8. Posts({x}, WriteRow(w))
    BY <1>3, <1>5, <1>6, <1>7 DEF Posts
  <1>9. QED
    BY <1>2, <1>3, <1>4, <1>8

\* WriteBoth posts two.
LEMMA WriteBothPosts ==
  ASSUME TypeOK, LocksAgree, RequestsFit, NEW w \in Workers, WriteBoth(w)
  PROVE  /\ req[w].wallet \in Wallets /\ req[w].peer \in Wallets
         /\ req[w].wallet # req[w].peer /\ req[w].change \in Amounts
         /\ req[w].read = balance[req[w].wallet] /\ req[w].peerRead = balance[req[w].peer]
         /\ req[w].read \in Int /\ req[w].peerRead \in Int
         /\ Posts({req[w].wallet, req[w].peer}, BothRows(w))
  <1> DEFINE r == req[w]
             x == r.wallet
             y == r.peer
             out == Row("transfer", NoKey, -r.change, r.read)
             in == Row("transfer", NoKey, r.change, r.peerRead)
  <1>1. /\ r.at = "credit"
        /\ balance' = [balance EXCEPT ![x] = r.read - r.change, ![y] = r.peerRead + r.change]
        /\ ledger' = [ledger EXCEPT ![x] = Append(@, out), ![y] = Append(@, in)]
    BY DEF WriteBoth, Debit, Credit
  <1>2. /\ x \in Wallets /\ y \in Wallets /\ x # y /\ r.change \in Amounts
        /\ r.read = balance[x] /\ r.peerRead = balance[y]
    BY <1>1, HeldFacts
  <1>3. /\ balance[x] \in Int /\ balance[y] \in Int
        /\ r.change \in Int /\ r.change \in Changes /\ -r.change \in Changes
    BY <1>2, ChangeFacts DEF TypeOK
  <1>4. /\ out \in Rows /\ out.before = r.read /\ out.change = -r.change
        /\ out.after = r.read + (-r.change)
        /\ in \in Rows /\ in.before = r.peerRead /\ in.change = r.change
        /\ in.after = r.peerRead + r.change
    BY <1>2, <1>3 DEF Row, Rows, Endpoints
  <1>5. out.after = r.read - r.change
    BY <1>2, <1>3, <1>4
  <1> HIDE DEF out, in
  <1>6. \A z \in Wallets :
          balance'[z] = IF z = x THEN out.after ELSE IF z = y THEN in.after ELSE balance[z]
    BY <1>1, <1>2, <1>4, <1>5 DEF TypeOK
  <1>7. \A z \in Wallets :
          ledger'[z] = IF z = x THEN Append(ledger[z], out)
                       ELSE IF z = y THEN Append(ledger[z], in) ELSE ledger[z]
    BY <1>1, <1>2 DEF TypeOK
  <1>8. BothRows(w)[x] = out /\ BothRows(w)[y] = in
    BY <1>2 DEF BothRows, out, in
  <1>9. Posts({x, y}, BothRows(w))
    BY <1>2, <1>4, <1>6, <1>7, <1>8 DEF Posts
  <1>10. QED
    BY <1>2, <1>3, <1>9

\* The conjuncts about rows and answers.
Books == LedgerChains /\ TicketOnce /\ AnswersAgree /\ LimitsHold

\* A step that posts nothing keeps the books, if it gives no answer.
LEMMA BooksKept ==
  ASSUME Books, UNCHANGED <<balance, ledger>>
  PROVE  /\ (LedgerChains /\ TicketOnce /\ LimitsHold)'
         /\ UNCHANGED answers => AnswersAgree'
  <1>1. Entries' = Entries /\ \A e : RowAt(e)' = RowAt(e) /\ Answer(e)' = Answer(e)
    BY DEF Entries, RowAt, Answer
  <1>2. \A kind, k : Posted(kind, k)' = Posted(kind, k)
    BY <1>1 DEF Posted
  <1>3. QED
    BY <1>1, <1>2 DEF Books, LedgerChains, TicketOnce, LimitsHold, AnswersAgree

\* The row a search finds carries the ticket it looked for.
LEMMA FoundFacts ==
  ASSUME TypeOK, RequestsFit, NEW w \in Workers, req[w].at \in {"lookup", "replay"},
         NEW e \in Found(w)
  PROVE  /\ e \in Entries /\ RowAt(e).kind = req[w].kind /\ RowAt(e).key = req[w].key
         /\ req[w].kind \in Ticketed /\ req[w].key \in Keys
         /\ Answer(e) \in [kind : Ticketed, key : Keys, wallet : Wallets,
                           change : Changes, row : Nat]
  <1>1. /\ e \in Entries /\ RowAt(e).kind = req[w].kind /\ RowAt(e).key = req[w].key
    BY DEF Found, Posted
  <1>2. req[w].kind \in Ticketed /\ req[w].key \in Keys
    BY DEF RequestsFit, Fits
  <1>3. RowAt(e).change \in Changes /\ e[1] \in Wallets /\ e[2] \in Nat
    BY <1>1, RowType DEF Rows
  <1>4. QED
    BY <1>1, <1>2, <1>3 DEF Answer

\* An answer from a row found agrees with the answers before it.
LEMMA LookupAnswers ==
  ASSUME TypeOK, RequestsFit, Books, NEW w \in Workers, LookupFinds(w)
  PROVE  AnswersAgree'
  <1>1. /\ req[w].at \in {"lookup", "replay"} /\ UNCHANGED <<balance, ledger>>
    BY DEF LookupFinds
  <1>2. PICK e \in Found(w) : answers' = answers \/ answers' = answers \cup {Answer(e)}
    BY DEF LookupFinds
  <1>3. /\ Entries' = Entries /\ \A f : Answer(f)' = Answer(f) /\ RowAt(f)' = RowAt(f)
    BY <1>1 DEF Entries, RowAt, Answer
  <1>4. /\ e \in Entries /\ RowAt(e).kind = req[w].kind /\ RowAt(e).key = req[w].key
        /\ req[w].kind \in Ticketed /\ req[w].key \in Keys
    BY <1>1, FoundFacts
  <1>5. Answer(e).kind = req[w].kind /\ Answer(e).key = req[w].key
    BY <1>4 DEF Answer
  <1>6. ASSUME NEW a \in answers, a.kind = req[w].kind, a.key = req[w].key
        PROVE  a = Answer(e)
    <2>1. PICK f \in Entries : a = Answer(f)
      BY DEF Books, AnswersAgree
    <2>2. RowAt(f).kind = req[w].kind /\ RowAt(f).key = req[w].key
      BY <1>6, <2>1 DEF Answer
    <2>3. e \in Posted(req[w].kind, req[w].key) /\ f \in Posted(req[w].kind, req[w].key)
      BY <1>4, <2>2 DEF Posted
    <2>4. e = f
      BY <1>4, <2>3 DEF Books, TicketOnce
    <2>5. QED
      BY <2>1, <2>4
  <1>7. \A a \in answers' : \E f \in Entries' : a = Answer(f)'
    BY <1>2, <1>3, <1>4 DEF Books, AnswersAgree
  <1>8. \A a, b \in answers' : a.kind = b.kind /\ a.key = b.key => a = b
    BY <1>2, <1>5, <1>6 DEF Books, AnswersAgree
  <1>9. QED
    BY <1>7, <1>8 DEF AnswersAgree

\* A write posts no ticket a second time.
LEMMA WriteTickets ==
  ASSUME TypeOK, LocksAgree, RequestsFit, Books, NEW w \in Workers, Write(w)
  PROVE  TicketOnce' /\ AnswersAgree' /\ LimitsHold'
  <1> DEFINE r == req[w]
             x == r.wallet
  <1>1. /\ r \in Requests /\ Fits(r) /\ r.kind # "transfer" /\ x \in Wallets
        /\ r.read \in Int /\ r.change \in Int /\ Posts({x}, WriteRow(w))
    BY WritePosts
  <1>2. PICK new : new = NewEntry(x)
    OBVIOUS
  <1>3. /\ \A e \in Entries : e \in Entries' /\ RowAt(e)' = RowAt(e)
        /\ new \in Entries' /\ new \notin Entries /\ RowAt(new)' = WriteRow(w)[x]
        /\ new[1] = x /\ new[2] = Len(ledger[x]) + 1
        /\ \A e \in Entries' : e \in Entries \/ e = new
    BY <1>1, <1>2, PostedEntries DEF NewEntry
  <1>4. /\ WriteRow(w)[x].kind = r.kind /\ WriteRow(w)[x].key = r.key
        /\ WriteRow(w)[x].change = r.change /\ WriteRow(w)[x].after = r.read + r.change
    BY DEF WriteRow, Row
  <1>5. ~Refused(w) /\ ~TicketTaken(w)
        /\ answers' = IF r.kind \in Ticketed /\ r.key # NoKey
                      THEN answers \cup {[kind |-> r.kind, key |-> r.key, wallet |-> x,
                                          change |-> r.change, row |-> Len(ledger[x]) + 1]}
                      ELSE answers
    BY DEF Write
  <1>6. TicketOnce'
    <2> SUFFICES ASSUME NEW kind \in Ticketed, NEW k \in Keys,
                        NEW e \in Posted(kind, k)', NEW f \in Posted(kind, k)'
                 PROVE  e = f
      BY DEF TicketOnce
    <2>1. ASSUME NEW g \in Posted(kind, k)', g # new
          PROVE  g \in Posted(kind, k)
      BY <1>3, <2>1 DEF Posted
    <2>2. CASE r.kind = kind /\ r.key = k
      <3>1. Posted(kind, k) = {}
        BY <1>5, <2>2 DEF TicketTaken
      <3>2. QED
        BY <2>1, <3>1
    <2>3. CASE ~(r.kind = kind /\ r.key = k)
      <3>1. new \notin Posted(kind, k)'
        BY <1>3, <1>4, <2>3 DEF Posted
      <3>2. QED
        BY <2>1, <3>1 DEF Books, TicketOnce
    <2>4. QED
      BY <2>2, <2>3
  <1>7. AnswersAgree'
    <2>1. ASSUME NEW e, e \in Entries \/ e = new
          PROVE  Answer(e)' = [kind |-> RowAt(e)'.kind, key |-> RowAt(e)'.key,
                               wallet |-> e[1], change |-> RowAt(e)'.change, row |-> e[2]]
      BY DEF Answer
    <2>2. \A e \in Entries : Answer(e)' = Answer(e)
      BY <1>3, <2>1 DEF Answer
    <2>3. Answer(new)' = [kind |-> r.kind, key |-> r.key, wallet |-> x,
                          change |-> r.change, row |-> Len(ledger[x]) + 1]
      BY <1>3, <1>4, <2>1
    <2>4. \A a \in answers' :
            \/ a \in answers
            \/ r.kind \in Ticketed /\ r.key # NoKey /\ a = Answer(new)'
      BY <1>5, <2>3
    <2>5. \A a \in answers' : \E e \in Entries' : a = Answer(e)'
      BY <1>3, <2>2, <2>4 DEF Books, AnswersAgree
    <2>6. ASSUME NEW a \in answers, r.kind \in Ticketed, r.key # NoKey
          PROVE  ~(a.kind = r.kind /\ a.key = r.key)
      <3>1. PICK e \in Entries : a = Answer(e)
        BY DEF Books, AnswersAgree
      <3>2. a.kind = RowAt(e).kind /\ a.key = RowAt(e).key
        BY <3>1 DEF Answer
      <3>3. Posted(r.kind, r.key) = {}
        BY <1>5, <2>6 DEF TicketTaken
      <3>4. QED
        BY <3>2, <3>3 DEF Posted
    <2>7. \A a, b \in answers' : a.kind = b.kind /\ a.key = b.key => a = b
      <3>1. (Answer(new)').kind = r.kind /\ (Answer(new)').key = r.key
        BY <2>3
      <3>2. \A a, b \in answers : a.kind = b.kind /\ a.key = b.key => a = b
        BY DEF Books, AnswersAgree
      <3>3. QED
        BY <2>4, <2>6, <3>1, <3>2
    <2>8. QED
      BY <2>5, <2>7 DEF AnswersAgree
  <1>8. LimitsHold'
    <2>2. r.change < 0 /\ r.read + r.change < 0 => r.kind = "adjust"
      <3>1. r.kind \in {"cashier", "edc"} => r.change > 0
        BY <1>1, ChangeFacts DEF Fits
      <3>2. r.kind \in {"adjust", "cashier", "vendor", "refund", "edc"}
        BY <1>1 DEF Requests, Endpoints
      <3>3. QED
        BY <1>1, <1>5, <3>1, <3>2 DEF Refused
    <2>3. r.change > 0 /\ r.read + r.change > MAX_WALLET_BALANCE =>
            r.kind \in {"adjust", "cashier", "vendor"}
      <3>1. r.kind = "refund" => r.change < 0
        BY <1>1 DEF Fits
      <3>2. r.kind \in {"adjust", "cashier", "vendor", "refund", "edc"}
        BY <1>1 DEF Requests, Endpoints
      <3>3. QED
        BY <1>1, <1>5, <3>1, <3>2 DEF Refused
    <2>4. SUFFICES ASSUME NEW e \in Entries'
                   PROVE  /\ RowAt(e)'.change < 0 /\ RowAt(e)'.after < 0 =>
                               RowAt(e)'.kind = "adjust"
                          /\ RowAt(e)'.change > 0 /\ RowAt(e)'.after > MAX_WALLET_BALANCE =>
                               RowAt(e)'.kind \in {"adjust", "cashier", "vendor"}
      BY DEF LimitsHold
    <2>5. CASE e \in Entries
      BY <1>3, <2>5 DEF Books, LimitsHold
    <2>6. CASE e = new
      BY <1>3, <1>4, <2>2, <2>3, <2>6
    <2>7. QED
      BY <1>3, <2>5, <2>6
  <1>9. QED
    BY <1>6, <1>7, <1>8

\* What a transfer writes was allowed when it began to write.
LEMMA CreditAllowed ==
  ASSUME TypeOK, RequestsFit, NEW w \in Workers, WriteBoth(w)
  PROVE  /\ ~(req[w].read < req[w].change)
         /\ ~(req[w].peerRead + req[w].change > MAX_WALLET_BALANCE)
  <1>1. req[w].at = "credit"
    BY DEF WriteBoth
  <1>2. req[w] \in Requests /\ Fits(req[w])
    BY <1>1, InFlight DEF RequestsFit
  <1>3. req[w].read \in Int /\ req[w].peerRead \in Int /\ req[w].change \in Int
    BY <1>2, ChangeFacts DEF Requests
  <1>4. req[w].change <= req[w].read /\ req[w].peerRead + req[w].change <= MAX_WALLET_BALANCE
    BY <1>1, <1>2 DEF Fits
  <1>5. QED
    BY <1>3, <1>4, ConstantsAssumption

\* A transfer carries no ticket and checks both wallets.
LEMMA TransferTickets ==
  ASSUME TypeOK, LocksAgree, RequestsFit, Books, NEW w \in Workers, WriteBoth(w)
  PROVE  /\ TicketOnce' /\ AnswersAgree' /\ LimitsHold'
         /\ \A kind \in Ticketed, k \in Keys : Posted(kind, k)' = Posted(kind, k)
  <1> DEFINE r == req[w]
             X == {r.wallet, r.peer}
  <1>1. /\ r.wallet # r.peer /\ r.change \in Amounts /\ r.read \in Int /\ r.peerRead \in Int
        /\ Posts(X, BothRows(w))
    BY WriteBothPosts
  <1>2. r.change \in Int /\ r.change > 0
    BY <1>1, ChangeFacts
  <1>3. /\ \A e \in Entries : e \in Entries' /\ RowAt(e)' = RowAt(e)
        /\ \A e \in Entries' : e \in Entries \/ \E x \in X : RowAt(e)' = BothRows(w)[x]
    BY <1>1, PostedEntries
  <1>4. answers' = answers
    BY DEF WriteBoth
  <1>5. ASSUME NEW x \in X
        PROVE  /\ BothRows(w)[x].kind = "transfer"
               /\ BothRows(w)[x].change < 0 => BothRows(w)[x].after >= 0
               /\ BothRows(w)[x].change > 0 => BothRows(w)[x].after <= MAX_WALLET_BALANCE
    <2>1. ~(r.read < r.change) /\ ~(r.peerRead + r.change > MAX_WALLET_BALANCE)
      BY <1>1, <1>2, CreditAllowed
    <2>2. CASE x = r.wallet
      <3>1. BothRows(w)[x] = Row("transfer", NoKey, -r.change, r.read)
        BY <2>2 DEF BothRows
      <3>2. QED
        BY <1>1, <1>2, <2>1, <3>1 DEF Row
    <2>3. CASE x = r.peer
      <3>1. BothRows(w)[x] = Row("transfer", NoKey, r.change, r.peerRead)
        BY <1>1, <2>3 DEF BothRows
      <3>2. QED
        BY <1>1, <1>2, <2>1, <3>1 DEF Row
    <2>4. QED
      BY <2>2, <2>3
  <1>6. ASSUME NEW e \in Entries', e \notin Entries
        PROVE  /\ RowAt(e)'.kind = "transfer"
               /\ RowAt(e)'.change < 0 => RowAt(e)'.after >= 0
               /\ RowAt(e)'.change > 0 => RowAt(e)'.after <= MAX_WALLET_BALANCE
    BY <1>3, <1>5, <1>6
  <1>7. ASSUME NEW kind \in Ticketed, NEW k \in Keys
        PROVE  Posted(kind, k)' = Posted(kind, k)
    BY <1>3, <1>6 DEF Posted, Ticketed
  <1>8. TicketOnce'
    BY <1>7 DEF Books, TicketOnce
  <1>9. AnswersAgree'
    <2>1. \A e \in Entries : Answer(e)' = Answer(e)
      BY <1>3 DEF Answer
    <2>2. QED
      BY <1>3, <1>4, <2>1 DEF Books, AnswersAgree
  <1>10. LimitsHold'
    <2> SUFFICES ASSUME NEW e \in Entries'
                 PROVE  /\ RowAt(e)'.change < 0 /\ RowAt(e)'.after < 0 =>
                             RowAt(e)'.kind = "adjust"
                        /\ RowAt(e)'.change > 0 /\ RowAt(e)'.after > MAX_WALLET_BALANCE =>
                             RowAt(e)'.kind \in {"adjust", "cashier", "vendor"}
      BY DEF LimitsHold
    <2>1. CASE e \in Entries
      BY <1>3, <2>1 DEF Books, LimitsHold
    <2>2. CASE e \notin Entries
      <3>1. PICK x \in X : RowAt(e)' = BothRows(w)[x]
        BY <1>3, <2>2
      <3>2. BothRows(w)[x].after \in Int
        BY <1>1 DEF Posts, Rows
      <3>3. QED
        BY <1>6, <2>2, <3>1, <3>2
    <2>3. QED
      BY <2>1, <2>2
  <1>11. QED
    BY <1>7, <1>8, <1>9, <1>10

-----------------------------------------------------------------------------
(* The inductive invariant *)

\* Posting keeps wallets and ledgers well typed.
LEMMA PostedType ==
  ASSUME TypeOK, NEW X, NEW row, Posts(X, row),
         balance' = [x \in Wallets |-> balance'[x]],
         ledger' = [x \in Wallets |-> ledger'[x]]
  PROVE  balance' \in [Wallets -> Int] /\ ledger' \in [Wallets -> Seq(Rows)]
  <1>1. ASSUME NEW x \in Wallets
        PROVE  balance'[x] \in Int /\ ledger'[x] \in Seq(Rows)
    <2>1. balance[x] \in Int /\ ledger[x] \in Seq(Rows)
      BY DEF TypeOK
    <2>2. CASE x \notin X
      BY <2>1, <2>2 DEF Posts
    <2>3. CASE x \in X
      <3>1. /\ balance'[x] = row[x].after /\ ledger'[x] = Append(ledger[x], row[x])
            /\ row[x] \in Rows
        BY <2>3 DEF Posts
      <3>2. row[x].after \in Int
        BY <3>1 DEF Rows
      <3>3. QED
        BY <2>1, <3>1, <3>2, AppendFacts
    <2>4. QED
      BY <2>2, <2>3
  <1>2. QED
    BY <1>1

\* Every step keeps the variables well typed.
LEMMA StepTypeOK ==
  ASSUME TypeOK, LocksAgree, RequestsFit, [Next]_vars
  PROVE  TypeOK'
  <1>0. req' \in [Workers -> Requests \cup {Idle}]
    BY StepRequests
  <1>1. ASSUME NEW w \in Workers, Arrive(w)
        PROVE  TypeOK'
    BY <1>0, <1>1, ArriveFacts DEF TypeOK
  <1>2. ASSUME NEW w \in Workers, Write(w)
        PROVE  TypeOK'
    <2> DEFINE r == req[w]
    <2>1. /\ r \in Requests /\ r.wallet \in Wallets /\ Posts({r.wallet}, WriteRow(w))
      BY <1>2, WritePosts
    <2>2. balance' \in [Wallets -> Int] /\ ledger' \in [Wallets -> Seq(Rows)]
      BY <1>2, <2>1, PostedType DEF Write, TypeOK
    <2>3. Len(ledger[r.wallet]) + 1 \in Nat
      <3>1. ledger[r.wallet] \in Seq(Rows)
        BY <2>1 DEF TypeOK
      <3>2. QED
        BY <3>1
    <2>4. answers' \subseteq [kind : Ticketed, key : Keys, wallet : Wallets,
                             change : Changes, row : Nat]
      <3>1. CASE r.kind \in Ticketed /\ r.key # NoKey
        <4>1. r.key \in Keys /\ r.change \in Changes
          BY <2>1, <3>1 DEF Requests
        <4>2. QED
          BY <1>2, <2>1, <2>3, <3>1, <4>1 DEF Write, TypeOK
      <3>2. CASE ~(r.kind \in Ticketed /\ r.key # NoKey)
        BY <1>2, <3>2 DEF Write, TypeOK
      <3>3. QED
        BY <3>1, <3>2
    <2>5. walletLock' \in [Wallets -> Workers \cup {NoWorker}]
      BY <1>2 DEF Write, Unlocked, TypeOK
    <2>6. QED
      BY <1>0, <1>2, <2>2, <2>4, <2>5 DEF Write, TypeOK
  <1>3. ASSUME NEW w \in Workers, WriteBoth(w)
        PROVE  TypeOK'
    <2>1. Posts({req[w].wallet, req[w].peer}, BothRows(w))
      BY <1>3, WriteBothPosts
    <2>2. balance' \in [Wallets -> Int] /\ ledger' \in [Wallets -> Seq(Rows)]
      BY <1>3, <2>1, PostedType DEF WriteBoth, TypeOK
    <2>3. walletLock' \in [Wallets -> Workers \cup {NoWorker}]
      BY <1>3 DEF WriteBoth, Unlocked, TypeOK
    <2>4. QED
      BY <1>0, <1>3, <2>2, <2>3 DEF WriteBoth, TypeOK
  <1>4. ASSUME NEW w \in Workers, LookupFinds(w)
        PROVE  TypeOK'
    <2>1. answers' \subseteq [kind : Ticketed, key : Keys, wallet : Wallets,
                             change : Changes, row : Nat]
      BY <1>4, FoundFacts DEF LookupFinds, TypeOK
    <2>2. QED
      BY <1>0, <1>4, <2>1 DEF LookupFinds, TypeOK
  <1>5. ASSUME NEW w \in Workers,
               LookupMisses(w) \/ CheckCap(w) \/ CheckEdcDuplicate(w)
        PROVE  TypeOK'
    BY <1>0, <1>5 DEF LookupMisses, CheckCap, CheckEdcDuplicate, TypeOK
  <1>6. ASSUME NEW w \in Workers, LockWallet(w) \/ LockFirst(w) \/ LockSecond(w) \/ WriteDebit(w)
        PROVE  TypeOK'
    <2>1. walletLock' \in [Wallets -> Workers \cup {NoWorker}]
      BY <1>6 DEF LockWallet, LockFirst, LockSecond, WriteDebit, TypeOK
    <2>2. QED
      BY <1>0, <1>6, <2>1 DEF LockWallet, LockFirst, LockSecond, WriteDebit, TypeOK
  <1>7. ASSUME NEW w \in Workers,
               WriteRefused(w) \/ WriteRejected(w) \/ WriteBothRefused(w)
        PROVE  TypeOK'
    <2>1. /\ walletLock' = Unlocked(w)
          /\ UNCHANGED <<balance, ledger, answers, started, faults>>
      BY <1>7 DEF WriteRefused, WriteRejected, WriteBothRefused, Rollback
    <2>2. QED
      BY <1>0, <2>1 DEF Unlocked, TypeOK
  <1>8. ASSUME NEW w \in Workers, RequestFails(w)
        PROVE  TypeOK'
    BY <1>0, <1>8 DEF RequestFails, Unlocked, TypeOK
  <1>9. CASE ServerCrash
    BY <1>0, <1>9 DEF ServerCrash, TypeOK
  <1>10. CASE UNCHANGED vars
    BY <1>10 DEF vars, TypeOK
  <1>11. QED
    BY <1>1, <1>2, <1>3, <1>4, <1>5, <1>6, <1>7, <1>8, <1>9, <1>10 DEF Next, Run

\* Every step keeps the books.
LEMMA StepBooks ==
  ASSUME IInv, [Next]_vars
  PROVE  Books'
  <1>0. TypeOK /\ LocksAgree /\ RequestsFit /\ Books
    BY DEF IInv, Books
  <1>1. ASSUME NEW w \in Workers, Write(w)
        PROVE  Books'
    BY <1>0, <1>1, WritePosts, PostedChains, WriteTickets DEF Books
  <1>2. ASSUME NEW w \in Workers, WriteBoth(w)
        PROVE  Books'
    BY <1>0, <1>2, WriteBothPosts, PostedChains, TransferTickets DEF Books
  <1>3. ASSUME NEW w \in Workers, LookupFinds(w)
        PROVE  Books'
    <2>1. UNCHANGED <<balance, ledger>>
      BY <1>3 DEF LookupFinds
    <2>2. QED
      BY <1>0, <1>3, <2>1, BooksKept, LookupAnswers DEF Books
  <1>4. CASE UNCHANGED <<balance, ledger, answers>>
    BY <1>0, <1>4, BooksKept DEF Books
  <1>5. QED
    BY <1>0, <1>1, <1>2, <1>3, <1>4, ArriveFacts
       DEF Next, Run, LookupMisses, CheckCap, CheckEdcDuplicate, LockWallet, LockFirst,
           LockSecond, WriteRefused, WriteRejected, WriteBothRefused, WriteDebit,
           Rollback, RequestFails, ServerCrash, vars

\* The invariant is inductive.
LEMMA StepIInv == IInv /\ [Next]_vars => IInv'
  <1> SUFFICES ASSUME IInv, [Next]_vars PROVE IInv'
    OBVIOUS
  <1>1. TypeOK' /\ LocksAgree' /\ RequestsFit' /\ Books'
    BY StepTypeOK, StepLocks, StepRequests, StepBooks DEF IInv
  <1>2. QED
    BY <1>1 DEF IInv, Books

\* The inductive invariant holds in every reachable state, whatever the number of
\* wallets, requests, keys, amounts and faults.
THEOREM Invariance == Spec => []IInv
  BY InitIInv, StepIInv, PTL DEF Spec

\* Every variable of the wallet endpoints keeps its type.
THEOREM TypeCorrect == Spec => []TypeOK
  <1>1. IInv => TypeOK
    BY DEF IInv
  <1>2. QED
    BY <1>1, Invariance, PTL

\* No endpoint loses an update of another: the rows of a wallet chain from its
\* opening balance to the balance it holds.
THEOREM LedgersChain == Spec => []LedgerChains
  <1>1. IInv => LedgerChains
    BY DEF IInv
  <1>2. QED
    BY <1>1, Invariance, PTL

\* A retried top-up, adjustment or refund moves the money once.
THEOREM TicketsOnce == Spec => []TicketOnce
  <1>1. IInv => TicketOnce
    BY DEF IInv
  <1>2. QED
    BY <1>1, Invariance, PTL

\* All successes reported for a ticket name the one row that carries it.
THEOREM AnswersAlwaysAgree == Spec => []AnswersAgree
  <1>1. IInv => AnswersAgree
    BY DEF IInv
  <1>2. QED
    BY <1>1, Invariance, PTL

\* Only an administrative adjustment overdraws a wallet, and no EDC top-up or
\* transfer lifts one above the ceiling.
THEOREM LimitsAlwaysHold == Spec => []LimitsHold
  <1>1. IInv => LimitsHold
    BY DEF IInv
  <1>2. QED
    BY <1>1, Invariance, PTL

-----------------------------------------------------------------------------
(* The endpoints implement AtomicWallets *)

\* How often each ticket has been used: what uses of AtomicWallets stands for.
Uses == [t \in Tickets |-> Cardinality(Posted(t[1], t[2]))]

\* A step that posts no ticketed row uses no ticket.
LEMMA UsesKept ==
  ASSUME \A kind \in Ticketed, k \in Keys : Posted(kind, k)' = Posted(kind, k)
  PROVE  Uses' = Uses
  <1>1. ASSUME NEW t \in Tickets
        PROVE  Posted(t[1], t[2])' = Posted(t[1], t[2])
    <2>1. t[1] \in Ticketed /\ t[2] \in Keys
      BY DEF Tickets
    <2>2. \A kind, k : kind = t[1] /\ k = t[2] => Posted(kind, k)' = Posted(kind, k)
      BY <2>1
    <2>3. QED
      BY <2>2
  <1>2. QED
    BY <1>1 DEF Uses

\* The initial states map to initial states.
LEMMA InitMaps == Init => Promise!Init
  <1> SUFFICES ASSUME Init PROVE Promise!Init
    OBVIOUS
  <1>1. Entries = {}
    BY DEF Init, Entries
  <1>2. \A t \in Tickets : Cardinality(Posted(t[1], t[2])) = 0
    BY <1>1, FS_EmptySet DEF Posted
  <1>3. QED
    BY <1>2 DEF Init, Promise!Init

\* A ticketed or unticketed write is a Redeem or an Adjust.
LEMMA WriteMaps ==
  ASSUME IInv, NEW w \in Workers, Write(w)
  PROVE  \/ \E x \in Wallets, amount \in Changes : Promise!Adjust(x, amount)
         \/ \E x \in Wallets, amount \in Changes, t \in Tickets : Promise!Redeem(x, amount, t)
  <1> DEFINE r == req[w]
             x == r.wallet
             t == <<r.kind, r.key>>
  <1>0. TypeOK /\ LocksAgree /\ RequestsFit
    BY DEF IInv
  <1>1. /\ r \in Requests /\ Fits(r) /\ r.kind # "transfer" /\ x \in Wallets
        /\ r.change \in Int /\ r.read = balance[x] /\ Posts({x}, WriteRow(w))
    BY <1>0, WritePosts
  <1>2. r.change \in Changes /\ balance[x] \in Int
    BY <1>0, <1>1 DEF Requests, TypeOK
  <1>3. balance' = [balance EXCEPT ![x] = @ + r.change]
    BY <1>1 DEF Write
  <1>4. PICK new : new = NewEntry(x)
    OBVIOUS
  <1>5. /\ \A e \in Entries : e \in Entries' /\ RowAt(e)' = RowAt(e)
        /\ new \in Entries' /\ new \notin Entries /\ RowAt(new)' = WriteRow(w)[x]
        /\ \A e \in Entries' : e \in Entries \/ e = new
    BY <1>0, <1>1, <1>4, PostedEntries
  <1>6. WriteRow(w)[x].kind = r.kind /\ WriteRow(w)[x].key = r.key
    BY DEF WriteRow, Row
  <1>7. \A kind, k : Posted(kind, k)' = IF kind = r.kind /\ k = r.key
                                        THEN Posted(kind, k) \cup {new} ELSE Posted(kind, k)
    BY <1>5, <1>6 DEF Posted
  <1>8. CASE r.kind \in Ticketed /\ r.key # NoKey
    <2>1. t \in Tickets /\ t[1] = r.kind /\ t[2] = r.key
      BY <1>1, <1>8 DEF Tickets, Requests
    <2>2. Posted(r.kind, r.key) = {} /\ ~Refused(w)
      BY <1>8 DEF Write, TicketTaken
    <2>3. Uses[t] = 0
      BY <2>1, <2>2, FS_EmptySet DEF Uses
    <2>4. Uses' = [Uses EXCEPT ![t] = 1]
      <3>1. Posted(r.kind, r.key) \cup {new} = {new} /\ Cardinality({new}) = 1
        BY <2>2, FS_Singleton
      <3>2. ASSUME NEW u \in Tickets
            PROVE  Cardinality(Posted(u[1], u[2])') =
                     IF u = t THEN 1 ELSE Cardinality(Posted(u[1], u[2]))
        <4>1. u = <<u[1], u[2]>>
          BY DEF Tickets
        <4>2. \A kind, k : kind = u[1] /\ k = u[2] =>
                Cardinality(Posted(kind, k)') =
                  IF u = t THEN 1 ELSE Cardinality(Posted(kind, k))
          BY <1>7, <2>1, <3>1, <4>1
        <4>3. QED
          BY <4>2
      <3>3. QED
        BY <3>2 DEF Uses
    <2>5. r.change < 0 => balance[x] + r.change >= 0
      <3>1. r.kind = "cashier" => r.change > 0
        BY <1>1, ChangeFacts DEF Fits
      <3>2. QED
        BY <1>1, <1>2, <1>8, <2>2, <3>1 DEF Refused, Ticketed
    <2>6. Promise!Redeem(x, r.change, t)
      BY <1>3, <2>3, <2>4, <2>5 DEF Promise!Redeem, Promise!Gain, Uses
    <2>7. QED
      BY <1>1, <1>2, <2>1, <2>6
  <1>9. CASE ~(r.kind \in Ticketed /\ r.key # NoKey)
    <2>1. \A kind \in Ticketed, k \in Keys : Posted(kind, k)' = Posted(kind, k)
      BY <1>7, <1>9
    <2>2. Uses' = Uses
      BY <2>1, UsesKept
    <2>3. Promise!Adjust(x, r.change)
      BY <1>3, <2>2 DEF Promise!Adjust, Promise!Gain, Uses
    <2>4. QED
      BY <1>1, <1>2, <2>3
  <1>10. QED
    BY <1>8, <1>9

\* The two writes of a transfer are one Transfer.
LEMMA TransferMaps ==
  ASSUME IInv, NEW w \in Workers, WriteBoth(w)
  PROVE  \E x, y \in Wallets, amount \in Amounts : Promise!Transfer(x, y, amount)
  <1> DEFINE r == req[w]
             x == r.wallet
             y == r.peer
  <1>0. TypeOK /\ LocksAgree /\ RequestsFit /\ Books
    BY DEF IInv, Books
  <1>1. /\ x \in Wallets /\ y \in Wallets /\ x # y /\ r.change \in Amounts
        /\ r.read = balance[x] /\ r.peerRead = balance[y]
        /\ r.read \in Int /\ r.peerRead \in Int
    BY <1>0, WriteBothPosts
  <1>2. r.change \in Int
    BY <1>1, ChangeFacts
  <1>3. ~(r.read < r.change) /\ ~(r.peerRead + r.change > MAX_WALLET_BALANCE)
    BY <1>0, CreditAllowed
  <1>4. balance' = [balance EXCEPT ![x] = @ - r.change, ![y] = @ + r.change]
    BY <1>1 DEF WriteBoth
  <1>5. Uses' = Uses
    BY <1>0, TransferTickets, UsesKept
  <1>6. Promise!Transfer(x, y, r.change)
    BY <1>1, <1>2, <1>3, <1>4, <1>5 DEF Promise!Transfer, Uses
  <1>7. QED
    BY <1>1, <1>6

\* Every step maps to a step of AtomicWallets or to a stutter.
LEMMA StepMaps == IInv /\ [Next]_vars => [Promise!Next]_<<balance, Uses>>
  <1> SUFFICES ASSUME IInv, [Next]_vars
               PROVE  Promise!Next \/ UNCHANGED <<balance, Uses>>
    OBVIOUS
  <1>1. Promise!Changes = Changes
    BY DEF Promise!Changes, Changes
  <1>2. ASSUME NEW w \in Workers, Write(w)
        PROVE  Promise!Next
    BY <1>1, <1>2, WriteMaps DEF Promise!Next
  <1>3. ASSUME NEW w \in Workers, WriteBoth(w)
        PROVE  Promise!Next
    BY <1>3, TransferMaps DEF Promise!Next
  <1>4. CASE UNCHANGED <<balance, ledger>>
    <2>1. \A kind, k : Posted(kind, k)' = Posted(kind, k)
      BY <1>4 DEF Posted, Entries, RowAt
    <2>2. QED
      BY <1>4, <2>1, UsesKept
  <1>5. QED
    BY <1>2, <1>3, <1>4, ArriveFacts
       DEF IInv, Next, Run, LookupFinds, LookupMisses, CheckCap, CheckEdcDuplicate,
           LockWallet, LockFirst, LockSecond, WriteRefused, WriteRejected,
           WriteBothRefused, WriteDebit, Rollback, RequestFails, ServerCrash, vars

\* Concurrent, interrupted and retried requests move money like the single steps
\* of AtomicWallets: a ticket once, a ticketed debit within the funds, a transfer
\* from one wallet to another.
THEOREM Implementation == Spec => ImplementsAtomicWallets
  <1>1. [Promise!Next]_<<balance, Uses>> =>
          [Promise!Next]_<<balance, [t \in Tickets |-> Cardinality(Posted(t[1], t[2]))]>>
    BY DEF Uses
  <1>2. QED
    BY <1>1, InitMaps, StepMaps, Invariance, PTL
       DEF Spec, ImplementsAtomicWallets, Promise!Spec
=============================================================================
