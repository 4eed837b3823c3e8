CONSTANTS
  k1 = k1
  w1 = w1
  w2 = w2
  NoKey = NoKey
  NoWorker = NoWorker
  Wallets <- MCTwoWallets
  Departments <- MCNoDepartments
  Workers <- MCTwoWorkers
  Keys <- MCKeys
  Amounts <- MCOneAmount
  Opening <- MCOpening
  MAX_WALLET_BALANCE = 7
  Kinds <- MCEdc
  MaxRequests = 2
  MaxFaults = 0
SPECIFICATION Spec
INVARIANTS EdcCreditedOnce
CHECK_DEADLOCK FALSE
