SPECIFICATION Spec
CONSTANTS
  abe = abe
  bea = bea
  t1 = t1
  t2 = t2
  Users = {abe, bea, dan}
  Trades = {t1, t2}
  Notices = {n1, n2}
  Phones = {d1}
  Tablets = {}
  Slots = {s1, s2, s3}
  Concurrency = 1
  MaxRetries = 1
  MaxFaults = 2
  NoUser = NoUser
  NoTrade = NoTrade
  NoNotice = NoNotice
  Workers = {w1, w2}
  First <- ChainFirst
  Parties <- ChainParties
  Buyer <- ChainBuyer
  MaxRequests = 2
INVARIANTS
  TypeOK
  OneOpenRequest
  AskersHear
  FileMatchesLocation
  MessagesAreFounded
  OneMessagePerAttempt
PROPERTIES
  QueueDrains
CHECK_DEADLOCK FALSE
