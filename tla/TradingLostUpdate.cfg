SPECIFICATION Spec
CONSTANTS
  u1 = u1 u2 = u2 u3 = u3 c1 = c1 t1 = t1 t2 = t2
  r1 = r1 r2 = r2 r3 = r3 r4 = r4 q1 = q1 q2 = q2 s1 = s1 s2 = s2
  NoUser = NoUser NoCommodity = NoCommodity NoRow = NoRow NoTrade = NoTrade NoRequest = NoRequest
  NoAccount <- NoAccountValue
  Users <- TwoUsers
  Known <- TwoUsers
  Commodities <- OneCommodity
  Trades <- OneTrade
  Rows <- TwoRows
  Requests <- TwoRequests
  Sweeps <- OneSweep
  Volumes = {1}
  Levels = {4}
  Races = {"producer"}
  MaxProduced = 2
  MaxPending = 0
SYMMETRY Symmetry
INVARIANTS
  LedgerAgrees
CHECK_DEADLOCK FALSE
