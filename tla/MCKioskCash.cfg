CONSTANTS
  Bills = {1, 2, 10}
  MinAcceptedThb = 2
  Targets = {4}
  Sessions <- MCSessions
  MaxBills = 2
  MaxFaults = 1
SPECIFICATION Spec
INVARIANTS CreditBacked CounterBacked RefHasOneAmount CashIsCredited
CHECK_DEADLOCK FALSE
