CONSTANTS
  Bills = {1, 2, 10}
  MinAcceptedThb = 2
  Targets = {4}
  Sessions <- MCOneSession
  MaxBills = 2
  MaxFaults = 0
SPECIFICATION Spec
INVARIANT StopReflectsBox
CHECK_DEADLOCK FALSE
