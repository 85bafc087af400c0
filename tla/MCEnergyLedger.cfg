SPECIFICATION MCSpec
CONSTANTS
  MaxBack = 1
  solar = solar
  thermal = thermal
  e1 = e1
  e2 = e2
  b1 = b1
  b2 = b2
  u1 = u1
  Absent = Absent
  Categories <- MCCategories
  Green <- MCGreen
  Energies <- MCEnergies
  Bids <- MCBids
  Users <- MCUsers
  InitPrice = 2
  ContractLife = 1
  Window = 2
  OldId = "old"
  Times <- MCTimes
  Amounts <- MCAmounts
  Prices <- MCPrices
  Batches <- MCBatches
  AwardLists <- MCAwardLists
SYMMETRY Alike
INVARIANTS
  TypeOK
  NeverOversold
  SoldIsExhausted
  AwardWithinBid
PROPERTY NothingIsRewritten
