SPECIFICATION SamplesSpec
CONSTANTS
  c1 = c1
  c2 = c2
  c3 = c3
  o1 = o1
  o2 = o2
  o3 = o3
  o4 = o4
  o5 = o5
  n1 = n1
  n2 = n2
  Nothing = Nothing
  Unset = Unset
  Orgs = {o1, o2}
  Prices = {1, 2}
  Properties = {"genuine", "altered"}
  Genuine = "genuine"
  Names = {n1, n2}
  Colors = {"red", "blue"}
  Owners = {c1, c2}
  MaxTxs = 4
  Accounts = {c1, c2, c3}
  Issuers = {c1}
  NftIds = {n1, n2}
  NoAccount = NoAccount
  NoNft = NoNft
  Clients = {c1, c2, c3}
  MSP <- MCOrgOf
  CoinAccounts = {c1, c2}
  CoinMax = 3
  CoinValues <- MCCoinValues
  KeyOrder <- MCKeyOrder
  Ids = {1, 2}
  MaxUint = 2
  Amounts = {1, 2}
  MaxBatch = 2
  MaxSupply = 3
  Operators = {c2}
  UtxoMax = 5
  UtxoAmounts = {1, 2, 5}
  MaxOutputs = 2
  MaxTransfers = 3
  SalePrices = {0, 1, 2}
  MaxBids = 2
  Quantities = {1, 2}
  Auditor = o3
  Provider = o5
  AppraisedValues = {1, 2}
  Deltas = {1}
  MaxDeltas = 5
  Parties = {o1, o2, o4}
  Principals = {100, 300}
  AuditLimit = 200
  Rates = {1}
  FixedRate = 3
  FloatingRate = 1
  MaxPending = 2
INVARIANTS
  OneOwnerPerToken
  BooksBalance
  BestBidsWin
  SaleEndsAgreement
  ColorMovesAsOne
PROPERTY NothingWithoutConsent
CHECK_DEADLOCK FALSE
