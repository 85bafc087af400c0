SPECIFICATION FairMarketSpec
CONSTANTS
  solar = solar
  e1 = e1
  e2 = e2
  b1 = b1
  b2 = b2
  b3 = b3
  u1 = u1
  m1 = m1
  m2 = m2
  c1 = c1
  Absent = Absent
  Categories = {solar}
  Green = {solar}
  Users = {u1}
  InitPrice = 1
  OldId = "old"
  Energies = {e1}
  Bids = {b1, b2, b3}
  ContractLife = 3
  Window = 2
  Clients = {m1, c1}
  EndTime = 4
  MaxFaults = 1
  Makers <- OneMaker
  Owner <- OneOwner
  Output <- OneOutput
  Kind <- OneKind
  TokenIds <- OneTokenId
  Interval = 1
  TokenLife = 3
  MaxErrors = 1
  MaxCreateErrors = 0
  ProduceUntil = 0
  Buyers <- OneBuyer
  BidIds <- ThreeBids
  MaxBidErrors = 1
  Extras = {0, 1}
  Prios = {1, 2, 3}
  MaxBatch = 2
  NewPrices = {2}
  UpdateUntil = 4
  Name <- OneName
  Surcharge <- Near
  Full <- Battery
  Goal <- Target
  Charged0 <- AtStart
  RequestMax = 3
  ChargeRate = 1
  Spare = 1
  SearchAge = 2
  CheckDelay = 2
  NothingWait = 1
  LongWait = 2
  MaxZeros = 0
  StartUntil = 0
CHECK_DEADLOCK FALSE
PROPERTIES
  SimulationEnds
  AuctionsEnd
  ImplementsHouse
