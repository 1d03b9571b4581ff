SPECIFICATION Spec
CONSTANTS
  r1 = r1
  r2 = r2
  p = p
  Requests <- MCRequests
  Pids <- MCPids
  staleThreshold = 1
  MaxTime = 4
  MaxUse = 2
SYMMETRY Symmetry
INVARIANTS ReadyRatesAreRecent RatesAreReal
