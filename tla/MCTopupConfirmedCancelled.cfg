CONSTANTS
  i1 = i1
  i2 = i2
  x1 = x1
  w1 = w1
  w2 = w2
  NoIntent = NoIntent
  NoWorker = NoWorker
  Intents <- MCIntents
  BayIntents <- MCBay
  Wallets <- MCWallets
  Workers <- MCWorkers
  WalletOf <- MCWalletOf
  Amount <- MCAmount
  Opening <- MCOpening
  MAX_WALLET_BALANCE = 6
  SweepLimit = 2
  MaxFaults = 0
SPECIFICATION Spec
PROPERTIES ConfirmedIsNotCancelled
CHECK_DEADLOCK FALSE
