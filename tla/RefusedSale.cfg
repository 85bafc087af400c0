SPECIFICATION Spec
CONSTANTS
  solar = solar
  e1 = e1
  e2 = e2
  b1 = b1
  b2 = b2
  u1 = u1
  m1 = m1
  m2 = m2
  c1 = c1
  c2 = c2
  Absent = Absent
  Categories = {solar}
  Green = {solar}
  Users = {u1}
  InitPrice = 1
  OldId = "old"
  Energies = {e1}
  Bids = {b1, b2}
  ContractLife = 2
  Window = 2
  Clients = {m1, c1, c2}
  EndTime = 4
  MaxFaults = 0
  Makers <- OneMaker
  Owner <- OneOwner
  Output <- OneOutput
  Kind <- OneKind
  TokenIds <- OneTokenId
  Interval = 1
  TokenLife = 2
  MaxErrors = 1
  MaxCreateErrors = 0
  ProduceUntil = 0
  Buyers <- TwoBuyers
  BidIds <- OneEach
  MaxBidErrors = 1
  Extras = {0}
  Prios = {1}
  MaxBatch = 1
  NewPrices = {}
  UpdateUntil = 0
CHECK_DEADLOCK FALSE
INVARIANT RefusalIsNoSale
