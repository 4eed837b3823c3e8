CONSTANTS
  f = f
  g = g
  w1 = w1
  w2 = w2
  c1 = c1
  c2 = c2
  None = None
  NoCost = None
  Uncounted = Uncounted
  Products <- MCProducts
  FifoProducts <- MCFifo
  Workers <- MCWorkers
  Confirmers <- MCConfirmers
  Menu <- MCMenu
  ItemOrder <- MCItemOrder
  OpeningCost <- MCOpeningCost
  Counts = {1}
  MaxChanges = 3
  MaxCounts = 2
  MaxEvents = 1
SPECIFICATION Spec
INVARIANT ConfirmedOnce
CHECK_DEADLOCK FALSE
SYMMETRY Symmetry
