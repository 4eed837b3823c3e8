CONSTANTS
  k1 = k1
  w1 = w1
  w2 = w2
  NoKey = NoKey
  NoWorker = NoWorker
  Wallets <- MCThreeWallets
  Departments <- MCDepartments
  Workers <- MCTwoWorkers
  Keys <- MCKeys
  Amounts <- MCTwoAmounts
  Opening <- MCOpening
  MAX_WALLET_BALANCE = 3
  Kinds <- Endpoints
  MaxRequests = 2
  MaxFaults = 1
SPECIFICATION LiveSpec
INVARIANTS TicketOnce AnswersAgree LimitsHold TransfersPaired IInv
PROPERTIES ImplementsAtomicWallets RequestsFinish
CHECK_DEADLOCK FALSE
