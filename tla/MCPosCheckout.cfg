CONSTANTS
  sa = sa
  sb = sb
  sc = sc
  p1 = p1
  p2 = p2
  p3 = p3
  v1 = v1
  NoWallet = NoWallet
  Products <- MCProducts
  Shops <- MCShops
  Modules = {"store"}
  Wallets <- MCWallets
  ModuleOf <- MCModuleOf
  Kind <- MCKind
  OpeningStock <- MCOpeningStock
  OpeningBalance <- MCOpeningBalance
  DailyLimit <- MCDailyLimit
  Overdraft <- MCOverdraft
  MaxAttempts <- MCAttempts
  Sales <- MCSales
  Cart <- MCCart
  Payer <- MCPayer
  ShopOf <- MCShopOf
  HasOptions <- MCHasOptions
  PoolSize = 3
  MaxFaults = 1
SPECIFICATION FairSpec
INVARIANTS BooksMatchReceipts OneReceiptPerKey NumbersGapless LimitsHold
           LogAgrees
PROPERTY RequestsFinish
CHECK_DEADLOCK FALSE
