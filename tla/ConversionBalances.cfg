SPECIFICATION Spec
CONSTANTS
  c1 = c1 c2 = c2 c3 = c3 r1 = r1 r2 = r2 r3 = r3 r4 = r4 q1 = q1 q2 = q2
  NoCommodity = NoCommodity NoRequest = NoRequest
  Commodities <- ThreeCommodities
  Recipes <- Chained
  Quantities = {0, 3}
  Scale = 4
  Rows <- FourRows
  Requests <- TwoRequests
  Levels = {4}
  Races = {}
  Traded <- Bought
  Volumes = {1}
  MaxStock = 1
SYMMETRY Symmetry
INVARIANTS
  TypeOK
  BalancesNeverNegative
  LedgerAgrees
  LevelIsWorstInput
PROPERTIES
  ImplementsStock
CHECK_DEADLOCK FALSE
