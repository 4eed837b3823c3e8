CONSTANTS
  s1 = s1
  w1 = w1
  w2 = w2
  w3 = w3
  NoSale = NoSale
  Sales <- MCOneSale
  Workers <- MCThreeWorkers
  MaxFaults = 2
  MaxLostReads = 1
SPECIFICATION CashierSpec
INVARIANTS ReceiptOnceIfRead ConfirmedIsStamped SoldIsLogged IInv
PROPERTIES PaidIsSold
CHECK_DEADLOCK FALSE
