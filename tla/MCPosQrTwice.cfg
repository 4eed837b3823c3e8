CONSTANTS
  s1 = s1
  w1 = w1
  w2 = w2
  w3 = w3
  NoSale = NoSale
  Sales <- MCOneSale
  Workers <- MCTwoWorkers
  MaxFaults = 0
  MaxLostReads = 1
SPECIFICATION Spec
INVARIANTS ReceiptOnce
CHECK_DEADLOCK FALSE
