------------------------------- MODULE Samples -------------------------------
(* The sample contracts side by side: which one runs is chosen at the start,  *)
(* and nothing happens to the others.                                         *)
EXTENDS Integers, Sequences, FiniteSets, ERC721, Marbles, SecuredAgreement

CONSTANTS
  Clients, MSP(_),                         \* who calls the auctions and the private data sample
  CoinAccounts, CoinMax, CoinValues,       \* token-erc-20
  KeyOrder, Ids, MaxUint, Amounts, MaxBatch, MaxSupply, Operators,
  UtxoMax, UtxoAmounts, MaxOutputs, MaxTransfers,
  SalePrices, MaxBids, Quantities,
  Auditor, Provider,                       \* organizations of the Dutch auction and of swaps
  AppraisedValues,
  Deltas, MaxDeltas,                       \* high-throughput
  Parties, Principals, AuditLimit, Rates, FixedRate, FloatingRate, MaxPending

\* Amounts and prices are numbers, those of a call of token-erc-20 are ints and
\* quantities of the Dutch auction positive; the keys of a balance of
\* token-erc-1155 are those of its senders.
ASSUME SamplesAssumption ==
  /\ CoinMax \in Nat /\ CoinValues \subseteq (-CoinMax - 1)..CoinMax
  /\ UtxoMax \in Nat /\ UtxoAmounts \subseteq Int
  /\ Deltas \subseteq Int /\ SalePrices \subseteq Int
  /\ Prices \subseteq Int /\ Quantities \subseteq Nat \ {0}
  /\ MaxUint \in Nat /\ Amounts \subseteq Nat /\ MaxBatch \in Nat
  /\ KeyOrder \in [1..Len(KeyOrder) -> Accounts] /\ Len(KeyOrder) \in Nat
  /\ \A a \in Accounts : \E i \in DOMAIN KeyOrder : KeyOrder[i] = a
  /\ \A i, j \in DOMAIN KeyOrder : i # j => KeyOrder[i] # KeyOrder[j]

VARIABLES
  contract,                \* the one that runs
  coinNamed, balanceOf, totalSupply, allowance, toldBalance,
  named, holding, operators, toldHolding,
  utxoNamed, unspent, txs, issued, overflowed,
  sale, salePolicy, saleBids,
  lot, lotPolicy, lotBids, signers,
  item, agreement, appraised, consent,
  rows, endorsed, txCount, net,
  swap, swapPolicy, payment, payPolicy, rate, touched, endorsedTxs, txNumber

coinState == <<coinNamed, balanceOf, totalSupply, allowance, toldBalance>>
multiState == <<named, holding, operators, toldHolding>>
utxoState == <<utxoNamed, unspent, txs, issued, overflowed>>
simpleState == <<sale, salePolicy, saleBids>>
dutchState == <<lot, lotPolicy, lotBids, signers>>
privateState == <<item, agreement, appraised, consent>>
deltaState == <<rows, endorsed, txCount, net>>
swapState == <<swap, swapPolicy, payment, payPolicy, rate, touched, endorsedTxs, txNumber>>

Coin == INSTANCE ERC20 WITH MaxInt <- CoinMax, Values <- CoinValues, Accounts <- CoinAccounts
Multi == INSTANCE ERC1155
Utxo == INSTANCE UTXO WITH MaxInt <- UtxoMax, Accounts <- CoinAccounts
Simple == INSTANCE SimpleAuction WITH Prices <- SalePrices
Dutch == INSTANCE DutchAuction
Private == INSTANCE PrivateAsset
Delta == INSTANCE DeltaRows WITH MaxTxs <- MaxDeltas
Swaps == INSTANCE RateSwaps

-----------------------------------------------------------------------------
SamplesInit ==
  /\ contract \in {"nft", "coin", "multi", "utxo", "simple", "dutch",
                  "agreement", "private", "delta", "marble", "swap"}
  /\ NftInit
  /\ Coin!CoinInit
  /\ Multi!MultiInit
  /\ Utxo!UtxoInit
  /\ Simple!SaleInit
  /\ Dutch!LotInit
  /\ DeedInit
  /\ Private!ItemInit
  /\ Delta!DeltaInit
  /\ MarblesInit
  /\ Swaps!SwapInit

SamplesNext ==
  /\ IF contract = "nft" THEN NftNext ELSE UNCHANGED nftVars
  /\ IF contract = "coin" THEN Coin!CoinNext ELSE UNCHANGED coinState
  /\ IF contract = "multi" THEN Multi!MultiNext ELSE UNCHANGED multiState
  /\ IF contract = "utxo" THEN Utxo!UtxoNext ELSE UNCHANGED utxoState
  /\ IF contract = "simple" THEN Simple!SaleNext ELSE UNCHANGED simpleState
  /\ IF contract = "dutch" THEN Dutch!LotNext ELSE UNCHANGED dutchState
  /\ IF contract = "agreement" THEN DeedNext ELSE UNCHANGED deedVars
  /\ IF contract = "private" THEN Private!ItemNext ELSE UNCHANGED privateState
  /\ IF contract = "delta" THEN Delta!DeltaNext ELSE UNCHANGED deltaState
  /\ IF contract = "marble" THEN MarblesNext ELSE UNCHANGED marbleVars
  /\ IF contract = "swap" THEN Swaps!SwapNext ELSE UNCHANGED swapState
  /\ UNCHANGED contract

samplesVars ==
  <<contract, nftVars, coinState, multiState, utxoState, simpleState,
    dutchState, deedVars, privateState, deltaState, marbleVars, swapState>>

SamplesSpec == SamplesInit /\ [][SamplesNext]_samplesVars

(* The books of the token contracts balance: token-erc-20's supply is the sum *)
(* of its balances, token-erc-1155's keys add up to what its events say,      *)
(* token-utxo's transfers neither make nor lose value unless a sum overflows, *)
(* and high-throughput's rows add up to the updates (ERC20.SupplyIsBalances,  *)
(* ERC1155.HoldingsFollowEvents, UTXO.ValueIsConserved,                       *)
(* DeltaRows.ValueIsSumOfUpdates).                                            *)
BooksBalance ==
  /\ Coin!SupplyIsBalances
  /\ Multi!HoldingsFollowEvents
  /\ Utxo!ValueIsConserved
  /\ Delta!ValueIsSumOfUpdates

(* The blind auctions sell to the best bids, hidden ones included: a highest  *)
(* bid wins auction-simple, and auction-dutch sells all it can at one price   *)
(* (SimpleAuction.HighestBidWins, DutchAuction.AuctionClearsMarket).          *)
BestBidsWin == Simple!HighestBidWins /\ Dutch!AuctionClearsMarket

(* An agreement to buy transfers the asset of asset-transfer-private-data     *)
(* once, and a swap of interest_rate_swaps changes, falls due and is settled  *)
(* only as its own parties, and perhaps the auditor, endorse                  *)
(* (PrivateAsset.OneTransferPerAgreement, RateSwaps.PartiesConsent).          *)
NothingWithoutConsent ==
  [][Private!OneTransferPerAgreement /\ Swaps!PartiesConsent]_samplesVars

(* token-utxo: the total inputs of every transfer equal its total outputs,    *)
(* as the comment at token_contract.go:144 has it (UTXO.TransfersBalance).    *)
TransfersBalance == Utxo!TransfersBalance

=============================================================================
