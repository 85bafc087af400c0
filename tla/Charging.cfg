SPECIFICATION PacedSpec
CONSTANTS
  solar = solar
  e1 = e1
  e2 = e2
  b1 = b1
  b2 = b2
  b3 = b3
  u1 = u1
  m1 = m1
  m2 = m2
  c1 = c1
  Absent = Absent
  Categories = {solar}
  Green = {solar}
  Users = {u1}
  InitPrice = 1
  OldId = "old"
  Energies = {e1, e2}
  Bids = {b1, b2, b3}
  ContractLife = 5
  Window = 2
  Clients = {m1, m2, c1}
  EndTime = 5
  MaxFaults = 1
  Makers <- TwoMakers
  Owner <- TwoOwner
  Output <- SmallAndLarge
  Kind <- TwoKind
  TokenIds <- EachTokenId
  Interval = 1
  TokenLife = 5
  MaxErrors = 1
  MaxCreateErrors = 0
  ProduceUntil = 0
  Buyers <- OneBuyer
  BidIds <- ThreeBids
  MaxBidErrors = 0
  Extras = {0, 1}
  Prios = {1, 2, 3, 4}
  MaxBatch = 2
  NewPrices = {}
  UpdateUntil = 0
  Name <- OneName
  Surcharge <- Near
  Full <- High
  Goal <- High
  Charged0 <- FarOrNear
  RequestMax = 3
  ChargeRate = 1
  Spare = 1
  SearchAge = 4
  CheckDelay = 2
  NothingWait = 1
  LongWait = 2
  MaxZeros = 1
  StartUntil = 0
CHECK_DEADLOCK FALSE
INVARIANTS
  NeverOvercharged
  ChargedIsAwarded
