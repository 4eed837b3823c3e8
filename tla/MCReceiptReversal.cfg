CONSTANTS
  p1 = p1
  p2 = p2
  q1 = q1
  q2 = q2
  w1 = w1
  w2 = w2
  ra = ra
  rb = rb
  v1 = v1
  v2 = v2
  NoReceipt = NoReceipt
  NoRequest = NoRequest
  NoProduct = NoProduct
  Receipts <- MCReceipts
  Products <- MCProducts
  Wallets <- MCWallets
  Requests <- MCRequests
  Workers <- MCWorkers
  Bought <- MCBought
  Claims <- MCClaims
  Method <- MCMethod
  WalletOf <- MCWalletOf
  OpeningStock <- MCOpeningStock
  OpeningBalance <- MCOpeningBalance
  LooseProducts <- MCLooseProducts
  NewProducts <- MCNewProducts
  MaxEvents = 1
SPECIFICATION Spec
INVARIANTS StockBalances ReversedOnce WithinClaims MoneyBalances NeverStuck
CHECK_DEADLOCK FALSE
SYMMETRY Symmetry
