SPECIFICATION MCSpec
CONSTANTS
  solar = solar
  wind = wind
  e1 = e1
  u1 = u1
  Absent = Absent
  Categories = {solar, wind}
  Green = {solar, wind}
  Users = {u1}
  InitPrice = 0
  OldId = "old"
  Energies = {e1}
  Bids = {}
  ContractLife = 1
  Window = 2
  Clients = {solar}
  EndTime = 15
  MaxFaults = 2
  Operated = {solar}
  HourLen = 4
  HoursPerDay = 5
  StartHour = 3
  StartPast = 1
  Latency = 1
  MaxBids = 3
  Offers <- MCOffers
  Outputs = {1, 3, 4}
  t1 = t1
  t2 = t2
  t3 = t3
  Tokens = {t1, t2, t3}
  Stamps <- MCStamps
  StartTime = 1
  Hours = 2
  Interval = 6
  Limit = 1
  a1 = a1
  o1 = o1
  o2 = o2
  d1 = d1
  j1 = j1
  AssetIds = {a1}
  Owners = {o1, o2}
  Details = {d1}
  NoAsset = NoAsset
  Jobs = {j1}
  Orders <- MCOrders
  Attempts = 3
  MaxStalls = 1
  MaxTimeouts = 2
  MaxRejects = 1
  MaxCrashes = 2
  MaxOthers = 2
  k1 = k1
  k2 = k2
  StateKeys = {k1, k2}
  Kinds <- MCKinds
  MaxBlocks = 2
  MaxTxs = 2
  MaxFailures = 2
  MaxRestarts = 1
  Gens = {e1}
  Makers <- MCMakers
  Output <- MCOutput
  Bidders = {solar, wind}
  Nearby = {wind}
  Goals <- MCGoals
  Price = 1
  TokenLife = 2
  AuctionInterval = 1
  Grace = 0
  MarketEnd = 3
  MaxTries = 2
  MarketFaults = 1
  MarketBids = 2
CHECK_DEADLOCK FALSE
INVARIANTS
  LoopAllocates
  HighestBidsFirst
  ListedOnce
  AppliedOnceUnlessRejected
  SummaryTellsTruth
  StoreFollowsLedger
  LogFollowsLedger
  PriceOfTheHour
  SplitMarketWorks
PROPERTIES
  PricesMoveForward
  ReportFinishes
  JobsEnd
  ListenerFinishes
