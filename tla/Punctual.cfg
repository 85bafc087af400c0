SPECIFICATION TimelySpec
CONSTANTS
  solar = solar
  e1 = e1
  e2 = e2
  b1 = b1
  b2 = b2
  b3 = b3
  u1 = u1
  m1 = m1
  m2 = m2
  c1 = c1
  Absent = Absent
  Categories = {solar}
  Green = {solar}
  Users = {u1}
  InitPrice = 1
  OldId = "old"
  Energies = {e1, e2}
  Bids = {b1, b2, b3}
  ContractLife = 24
  Window = 10
  Clients = {m1, m2, c1}
  EndTime = 48
  MaxFaults = 0
  Makers <- TwoMakers
  Owner <- TwoOwner
  Output <- TwoOutput
  Kind <- TwoKind
  TokenIds <- EachTokenId
  Interval = 8
  TokenLife = 24
  MaxErrors = 1
  MaxCreateErrors = 0
  ProduceUntil = 8
  Buyers <- OneBuyer
  BidIds <- ThreeBids
  MaxBidErrors = 1
  Extras = {0, 1}
  Prios = {1, 2, 3}
  MaxBatch = 2
  NewPrices = {}
  UpdateUntil = 0
  Name <- OneName
  Surcharge <- Near
  Full <- Battery
  Goal <- Target
  Charged0 <- AtStarts
  RequestMax = 2
  ChargeRate = 1
  Spare = 1
  SearchAge = 16
  CheckDelay = 12
  NothingWait = 8
  LongWait = 16
  MaxZeros = 1
  StartUntil = 9
  Latency = 1
CHECK_DEADLOCK FALSE
INVARIANTS
  AwardListsAreAccepted
  NoBidIsMissed
  EveryAwardCounts
