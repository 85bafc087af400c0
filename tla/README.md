# A verification of the energy market and its platform

The repository is a fork of `hyperledger/fabric-samples` that carries a market
for renewable energy on Hyperledger Fabric. This directory holds TLA+ modules of
that market and of the samples with a protocol of their own, the TLC runs that
check them on small instances, and proofs for every instance.

The market modelled in full is the one `simulation.go` starts, under
`src/asset-transfer-basic/b4/proposal/`:

- `b4-chaincode-go-changed/chaincode/smartcontract.go`, the contract;
- `application-gateway-go-changed/`, the producers, consumers and operator.

File names of the market are relative to these two directories.

## 1. Inventory

### The market

| Component | State | Operations | Correct when |
|---|---|---|---|
| Contract (`smartcontract.go`) | the world state: a price per category, energy tokens, bids | `InitLedger`, `UpdateUnitPrice`, `CreateEnergyToken`, `BidOnEnergy`, `AuctionEnd`, and queries | nothing is oversold, awards fit bids, status agrees with amounts, nothing is rewritten, whoever calls |
| Producer, one goroutine per token (`producerAppCreate.go`, `producerAppAuction.go`) | token id, timers, tick count, the award list under way | create the token with retries, once per interval query the open bids, rank and serve them, submit `AuctionEnd` with retries | every token's auction ends, sold or old; a bid is settled once; energy goes to the highest bids |
| Generation schedule (`producerApp.go`, `producer.go`) | weather tables, tickers | start a goroutine per token | (arithmetic only) |
| Consumer (`consumerAppBuy.go`, `consumerAppBuyResult.go`, `consumerApp.go`) | battery charge, bids placed, bids won | search tokens, ask `BidOk`, place a batch of bids with retries, read the results once, wait and repeat | it knows which bids it has; what it counts as charged was awarded; it does not ask for more than it can use |
| Operator (`operatorApp.go`) | hour of the price table | `InitLedger`, hourly `UpdateUnitPrice` with retries | a token's price was the price of its category when it was created |
| Process and clock (`simulation.go`) | scaled clock, end of the simulation | starts everything in one process | a panic of one goroutine ends all |
| Fabric (outside the repository) | committed state, transactions under way | simulate, order, validate, commit | a stale read invalidates its transaction |
| Reporting (`db/producerDB.go`, `consumerDB.go`) | lists of tokens and bids, SQLite tables | query by time windows that are split when an answer is too long, insert | every bid and token is listed once, and the report ends |
| Earlier market (`b4-chaincode-go`, `application-gateway-go`) | tokens, split when a bid wants a part; auctions; consumers' rounds | bid on a token, become its owner until outbid, end every part of a token once a minute | amounts survive splits, an auction ends when all is sold, nobody is charged for what it lost |

Producers, consumers and the operator never talk to each other. They share the
world state through Fabric (submit and evaluate), one scaled clock, and one
process. Everything hard about the market comes from that: what a goroutine read
is old when its transaction commits, answers get lost and calls are repeated,
ticks of different goroutines meet in any order, and the token's life is judged by
two programs.

As committed, line 69 of the contract (`UnitPrice: 0.,02`) is not valid Go. It
sets the first price of one category; the model has a constant `InitPrice` there.

### The platform's programs and contracts

| Component | State | Operations | Correct when |
|---|---|---|---|
| REST job queue (`asset-transfer-basic/rest-api-typescript`) | a job per request in Redis, saved transactions, the worker's progress | submit with a saved or a new transaction id, classify errors, retry, record the outcome; stalls and crashes | a request takes effect once; what a client reads of its job is true; every job ends |
| Block listener (`off_chain_data/application-typescript`) | checkpoint file (block, transactions done), store | copy the writes of valid transactions, go on after a failure | the store is what the ledger was up to the checkpoint |
| Legacy listener (`off_chain_data/legacy-application-javascript`) | map of blocks, `nextblock.txt`, log, two CouchDB tables, requests under way | queue blocks, process them in order, send requests nobody waits for | the log has every write, in order; the copy is current |
| Tokens (`token-erc-20`, `-721`, `-1155`, `token-utxo`) | balances, supply, approvals; owners; keys per sender; unspent outputs | mint, burn, transfer, approve, batch calls | the books balance and agree with the events |
| Auctions (`auction-simple`, `auction-dutch`) | the auction, private bids and their hashes, a policy that grows with the bidders' organizations | bid, submit, close, reveal, end | the best bids win, hidden ones included |
| Asset transfers (`-basic`, `-secured-agreement`, `-private-data`) | the asset, its policy, private properties, agreements | create, agree, transfer, delete | a sale ends its agreement; one agreement, one transfer |
| High throughput (`high-throughput`) | a row per update | add, sum, prune | the rows add up to the updates |
| Marbles (`chaincode/marbles02`) | marbles and the color~name index | create, delete, transfer one or all of a color | a color moves as one |
| Interest rate swaps (`interest_rate_swaps`) | swap, payment, rate, a policy per key | create, calculate, settle, set a rate | nothing changes without its parties |

The hazards, each at its line and with the properties that watch it, are listed
in `PROJECT.json`.

## 2. Modules

The market:

| Module | What it models |
|---|---|
| `EnergyContract` | each contract function as an operator from a world state and arguments to the outcome of its simulation: an error, or a message with the read and write set. Early returns are in the code's order; writes are dropped on an error |
| `EnergyLedger` | the abstract specification: contract calls with amounts, prices and times of either sign, executed one after another. `MCEnergyLedger` is its instance |
| `EnergyLedger_proofs` | theorems about `EnergyLedger` |
| `FabricGateway` | what the applications see of Fabric (external): simulation on the committed state, a pool of endorsed transactions, commit or invalidation by read set, lost answers, late commits, lost transactions; and the clock |
| `BidAllocation` | the ranking and the award loop of a tick in closed form, no state |
| `AuctionEndLoop` | the same three sorts and loop step by step as the code runs them |
| `ProducerAuction` | the producer's goroutine, on `FabricGateway` and `BidAllocation` |
| `BidSubmission` | `bid` and `bidOnEnergy` of a consumer, on `FabricGateway` |
| `AuctionHouse` | the composition: producers, buyers that may bid anything they can have seen, operator, Fabric. `MCAuctionHouse` holds its instances |
| `Sums_proofs` | theorems about `BidAllocation`, with the lemmas about sums over lists and finite sets that the other proofs need too |
| `AuctionHouse_proofs`, `AuctionAwards_proofs` | theorems about `AuctionHouse`, the second module on the invariants of the first |
| `Consumer` | a consumer's goroutine on `BidSubmission`: `Consume`, `Bid` with `bidOk` and the ranking, `BidResult` |
| `EnergyMarket` | the simulation as a whole: `AuctionHouse` with the bids of `Consumer` in place of the open choice. `MCEnergyMarket` holds its instances; `EnergyMarket_proofs` its theorems and those of `TimelyMarket`, on the invariant of `AuctionAwards_proofs` |
| `TimelyMarket` | `EnergyMarket` with a bound on the time an activity takes. `MCTimelyMarket` is its instance |
| `Operator` | the operator's goroutines on `FabricGateway`: hours, timers, retries |
| `ReportWindows` | the windows of the reporting program |
| `SplitContract`, `SplitMarket` | the earlier market: its contract, and its producers and consumers |
| `SplitMarket_proofs` | the theorem about `SplitMarket` and `SplitContract` |

The platform:

| Module | What it models |
|---|---|
| `AssetContract` | the basic asset contract as operators |
| `JobQueue` | the REST server's queue over `AssetContract`, BullMQ, Redis and Fabric |
| `ChainEvents` | the chain a listener reads: blocks of valid and invalid transactions and their writes |
| `BlockListener`, `PendingBlocks` | the TypeScript and the legacy listener |
| `Programs_proofs` | theorems about `AuctionEndLoop`, `Operator`, `ReportWindows`, `JobQueue`, `BlockListener` and `PendingBlocks` |
| `ERC20`, `ERC721`, `ERC1155`, `UTXO` | the token contracts |
| `SimpleAuction`, `DutchAuction` | the blind auctions |
| `SecuredAgreement`, `PrivateAsset` | the two asset transfers with private data |
| `DeltaRows`, `Marbles`, `RateSwaps` | high throughput, marbles, swaps: transactions are endorsed on one state and commit on a later one |
| `Samples` | the contracts side by side, one of them at work |
| `Samples_proofs` | theorems about `Samples` and its contracts: `ERC721`, `ERC20`, `ERC1155`, `UTXO`, `SecuredAgreement`, `PrivateAsset`, `SimpleAuction`, `Marbles`, `RateSwaps`, `DeltaRows` |

Programs and contracts that never meet need no interleaving with each other.
`MCPrograms` and `Samples`, of which `MCSamples` is a small instance, gather them: which one
runs is chosen in the initial state and the state of the others never changes, so their
state spaces add up instead of multiplying.

Correspondence, in short (`PROJECT.json`, "map", has every line):

- The world state is a function from keys to `Cost`, `Token`, `Bid` records or
  `Absent`; a price is kept under its category. Coordinates and the time of the
  last price change are left out, no property tells them apart. Energy, prices and
  priorities are whole numbers where the code has `float64`: rounding is not modelled.
- The contract checks no sign, so `EnergyLedger` has amounts, prices and times in `Int` (`AnyToken`, `AnyBid`, `AnyAward`).
  The applications only compute positive ones, so the records of `EnergyContract` (`Token`, `Bid`), which
  the market's modules are typed with, have naturals. Its operators are the same for both.
- `returned` of `EnergyLedger` is history, nothing reads it: the tokens a settlement with a negative amount took energy
  back from (`smartcontract.go:287`). In the market there are none: it implements the ledger with `returned <- {}`.
- `Execute(s, request)` is the simulation. `BidOnEnergy` errors as a whole when
  one bid is refused (`smartcontract.go:251`); the calls of `err.Error()` on a nil
  error (lines 216 and 225) kill the simulation, an error as well.
- `auction[m].pc` follows the goroutine: `create`/`creating` around the first
  `SubmitTransaction`, `wait` in the selects, `query`, `submit`/`submitted` in
  `auctionEnd`. `tries` is `errCount` or `loopCount`; `due` is the next fire of
  timer or ticker, which holds one tick while the goroutine is busy and drops the
  others. `auctionEnd` gets its token by value: every tick allocates `Output[m]`.
- `Rankings` allows any order of bids that tie in price, priority and time, since
  the query returns them in any order.
- `basket[c]` is a consumer inside `bid`: the batch with its ids, the attempts, the
  ids it was told are placed.
- A bid of `AuctionHouse` may name any token the buyer can have read, with the
  price it read plus any distance surcharge, at any time.
- `charging[c].pc` follows `Consume`: `round` at the top of its loop, `ask` during the
  `BidOk` calls, `bid` at the top of the loop of `Bid`, `placing` inside `bid`, `check`
  until and while results are read, `rest` between rounds. The battery is counted in units
  of energy, so `Priority` is what is missing and not its share; `nextBidWait` is
  rounded down. Distances are a surcharge per consumer and token. `readToken`, as line 87 of
  `consumerAppBuyResult.go` spells the call, is taken for the contract's `ReadToken`.
- A `BidOk` call that fails counts as a yes (`consumerAppBuy.go:387`) and changes nothing
  else; it is not counted as a fault.
- `operate[cat]` holds the locals of `Operate`; a price is its place in the price list.
- `tokenList` and `fullTokenList` say how often each token is listed; the order is left
  out. The two copies of the algorithm, for tokens and for bids, are one module.
- The clock may stand still or run while anything is under way: no bound on the
  duration of a call is assumed in safety runs.
- `simulation.go:50` starts the operator, but the line is commented out: `NewPrices` and
  `UpdateUntil` let a run have it or not.
- A token of the earlier market is named by what it was split from: a generation, the attempt
  that created it, and the bids that split it. `clock` counts its auction intervals. `late` counts
  the bids submitted after the time they name, `lost` the answers that were lost. `early` is history, nothing reads it:
  a consumer read a result that was due no later than the last of the bids it is about.
  `SubmitBid`, `EndAuction`, `QueryByRange` are `bid`, `AuctionEnd` and `QueryByLocationRange` of that version.
- `job[j]` is what Redis has of a job, `work[j]` the worker's place in it: `save` between endorsing
  and saving the transaction, `endorse`, `broadcast` and `commit` the three calls to Fabric, `clear`
  and `throw` the two ways to fail. A crash loses `work` and keeps `job`. `ordered` holds envelopes
  the orderer has, `codes` the validation code of each committed transaction.
- A listener's `checkpoint` is the file. A failure may come before any write to the store; a
  restart begins from the file. In `PendingBlocks` a request to CouchDB is under way until
  it is answered, and answers come in any order.
- A sample contract that depends on endorsement (`SimpleAuction`, `SecuredAgreement`, `RateSwaps`)
  has one action per transaction, enabled when the organizations its keys ask for endorse it, each
  on its own private data. Where read sets decide (`DeltaRows`, `Marbles`, `RateSwaps`) a
  transaction is endorsed in one step and takes effect in a later one, or not. Integers keep their width where the code checks or forgets to
  check for overflow (`MaxInt`, `MaxUint`).

## 3. Runs

| Run | Instance | Question |
|---|---|---|
| `contract_calls` | 2 tokens, 2 bids, 2 categories of different large category, amounts −1, 1 and 2, two times, batches and award lists of one or two, the same bid awarded twice among them | what does the contract enforce when clients send amounts of either sign in any order? |
| `market_faults` | one token of 2 with two ids to draw, one buyer with two bids, the operator renewing the price, life 2 intervals, 4 intervals in all, one failure | what do retries after a lost answer break, do amounts, statuses and answers agree, and is the market an implementation of `EnergyLedger`? |
| `simulation` | one token, one consumer, a price that changes, one failure, with fairness | does every auction end, and every goroutine? are a consumer's bids among those `AuctionHouse` allows? |
| `charging` | tokens of 1 and 4, one consumer that wants 4 or 1 and asks for up to 3 a round, three bid ids, one failure | does a consumer count what it was awarded, and never more than it needs? |
| `punctual` | two tokens, one consumer with batches of up to two, three bid ids, 7.5 s as the unit of time and as latency | are the 75 s and the 90 s of the code enough? do tokens stay apart? |
| `programs` | seven programs, below | does each keep its promise, and finish? |
| `sample_contracts` | eleven contracts, below | do the contracts keep their books and their agreements, whoever calls? |
| `old_tokens`, `refused_sale` | one token, two buyers | two claims of the market's code about itself that fail, section 5 |
| `repeated_jobs`, `offline_state`, `utxo_overflow` | the queue, the legacy listener and UTXO alone | three claims of the samples that fail, section 5 |

Instances of `programs`: lists of up to 3 bids over 2 prices, priorities and times against outputs of
1, 3 and 4; three tokens at any of 15 times in two hours of six units with one token per answer; one
job with 3 attempts, one stall, 2 timeouts, one rejection, 2 crashes and 2 transactions of other clients; chains of up
to two blocks of up to two transactions on two keys, 2 failures or one restart; one category with
hours of four units in days of five, from hour 3 to time 15, 2 faults; one token of two units for
two consumers who want 2 and 1, two bids, one fault.

Instances of `sample_contracts`: three clients in two organizations; two non-fungible tokens; ERC-20
with integers up to 3 and negative arguments; ERC-1155 with two ids and counters up to 2; UTXO with integers up to 5,
up to two outputs and three transfers; two bids per auction with prices and quantities of 1 and 2; sales at prices 1 and 2; five updates of
1; two marbles, colors and owners with four transactions; swaps between three organizations with principals on both
sides of the auditor's limit, four transactions and two under way.

Bounds and why they are enough. Two bids show every conflict between bids on one
token: one ranked before the other, one that takes all, one inside and one outside
the window, both or one settled; three are used where ranking matters.
Amounts of 1 and 2 make a token sell in one tick, in two, or
partly. Three ticks give a first, a middle and a last one; the last is the one that
finds the token expired. One failure puts every later retry against a transaction
that is still under way, that commits late, or that never does. The retry limits are
1 or 2 instead of 5 and 3 so that giving up is reached. Time is counted in auction
intervals: the window of 75 s overlaps two of 60 s, hence `Window = 2`, and a token
dies after the tick at its age limit as in the code. In `market_faults` the operator writes
the price that is there already: a read set tells versions apart, not values, so every
conflict happens, while bids differ in fewer ways; `simulation` has another price.
A job crosses a crash, a timeout and a refusal in any order. Two blocks of two are the fewest in which a restart can be between blocks,
inside one, or before the first. `CHECK_DEADLOCK FALSE` is set where a program ends.

In `contract_calls` energy can be taken back for ever; `MaxBack` stops it one unit below nothing sold. Tokens are
interchangeable there, and so are bids: no operator, assumption or property of the run names one, so `Alike` is sound
(for the action property too, which looks at one step). In `charging` the tokens' sizes make every kind of round
happen: a request of 3 is a list cut over both tokens; a request of 1 is a batch on the small token alone, and when it is given up
a second batch follows on the large one; a batch on the large token that is given up, bid for again and committed late is
served together with the new one, the last in part. The retry limit for batches is 0, so that one failure is enough to give up
(`market_faults` has the repetition with the same ids). Two producers make the state space large; `PacedSpec` therefore stops
the clock while a producer is busy. The consumer, the network and transactions that nobody waits for may still be as late as they
like, so bids miss ticks and awards miss the reading. Producers are slow in `market_faults` and `simulation`,
and theorems `ConsumersStayWithinGoal` and `ConsumersChargeAwards` have no such bound.

What the safety properties say is written above each of them. The ones a test
would hardly reach:

- `SoldCoversAwards`: the token's sold amount is the sum of the awards of its bids
  while no call has failed, and never less. After a failed call it may be
  more: the settlement is submitted and counted again.
- `AwardsAreFinal`: no late or repeated transaction changes a settled bid.
- `EndorsementStaysValid`: every transaction that can still commit would compute the
  same writes if executed now, so read sets are complete.
- `ImplementsLedger`: refinement of `EnergyLedger`, whose theorems then hold of the
  market's world state.
- `AwardListsAreAccepted`: producer and contract agree about age and ownership, so
  the contract refuses a list for its amount only.
- `NoTokenIsAbandoned`, `BuyersKnowTheirBids`: what exists on the ledger is known to the
  goroutine that is responsible for it, as long as no call has failed.
- `NeverOvercharged`, `ChargedIsAwarded`: requests, cuts, batches, awards and rounds of a
  consumer fit together, also when a batch is lost and bid for again.
- `ImplementsHouse`: refinement of `AuctionHouse`, so its invariants hold of the
  simulation within the bounds of its runs.
- `NoBidIsMissed`, `EveryAwardCounts`: see below.
- `PricesMoveForward`: an update that was given up and commits late never brings an old
  price back, because it read the record it replaces.
- `ListedOnce`: windows leave no gap and do not overlap, and nothing stays of windows that
  were given up. What is stamped after the last full hour is not listed
  (`diff / interval`), which in the simulation's 24 hours is what is stamped at its very end.
- `SplitMarketWorks`: the earlier market under late bids, outbidding, splits and lost answers. Its four parts name
  what each cannot survive: a producer ends early only when all is sold (`SoldOutIsOver`) unless a bid came late, the token was
  created twice, or its query finds tokens of another creation (`Alone`); a consumer counts no more than it owns
  (`ChargedIsOwned`) unless a bid came late, and no more than it wants (`NeverOverfull`) unless moreover an answer was lost or
  a result was due too soon (`early`). That the parts of a token add up (`EnergyIsConserved`) has no condition. On instances larger than
  that of `programs` TLC shows that `Alone` and `early` are needed (section 5).
- `AppliedOnceUnlessRejected`, `SummaryTellsTruth`: saved transactions protect a job from its own
  retries, over timeouts, crashes and stalls, as long as nothing is turned down (section 5).
- `StoreFollowsLedger`, `LogFollowsLedger`: whatever fails between a write and its checkpoint.
- `OneOwnerPerToken`, `BooksBalance`: two representations of the same ownership agree after any calls.
- `BestBidsWin`: an auction cannot end over the head of a hidden better bid, because its organization
  has to endorse the end on its own private data.
- `ColorMovesAsOne`: the phantom check of the range query catches a marble that was
  created while its color was being transferred.
- `NothingWithoutConsent`: who endorsed what changed, through every key's own policy.

Every property of a passing run has a mutant: an operator next to the definition it
mutates, marked "Mutant", that breaks the property the way a slip in the code would.

### How punctual the system has to be

Two constants of the code are bets on latency. `AuctionEndQuery` looks back 75 s
(`smartcontract.go:425`) while ticks are 60 s apart, and `Consume` reads results once, 90 s
after its last bid (`consumerApp.go:202`). `TimelyMarket` makes the bet explicit: `Latency`
bounds the simulated time from the timer that wakes a goroutine to the answer of its last
call. `NoBidIsMissed` then says that a bid is listed by a tick within an interval and two
latencies, so 75 s are enough up to 7.5 s of simulated time, which is 2.5 s of real
time at `Speed` 3. `punctual` checks exactly that boundary, with 7.5 s as one unit of time;
with a latency of two units both of its properties fail. Section 6 has the conditions for any constants.

## 4. Fairness

`FairSpec` of `AuctionHouse` assumes the clock runs (weak fairness of `ClockTick`), the orderer
delivers transactions somebody waits for (`SubmitTransaction` has a deadline, after
which it fails: a `GiveUp`, bounded by `MaxFaults`), and Go schedules a goroutine that
can run. Nothing makes producers generate, buyers bid, a query fail, or a forgotten
transaction arrive. `FairMarketSpec` adds that Go schedules consumers as well, and that their
first timer fires.

`programs` has the fairness of each program: a query of the report, which is repeated until it
succeeds, succeeds at last (`ReportFinishes`); BullMQ gives waiting jobs to the worker, whose calls
return or fail, and the orderer delivers what it accepted (`JobsEnd`); a listener is started
again and its next step happens (`ListenerFinishes`). Crashes, timeouts and failures are not
fair and are bounded, so that a program that is left alone long enough can finish.

## 5. What the code says and does not do

- `old_tokens`: `AuctionEnd` returns "the energy was generated more than 30min ago.
  This was not sold." (`smartcontract.go:282`) for any expired token. A token that sold
  part of its energy in an earlier tick gets status `old` as well.
- `refused_sale`: `producerAppAuction.go:208` expects "energy amount is wrong" as an
  error, the contract returns it as a result. Together with the by-value copy of the
  token, a second tick can ask for more than is left; the contract refuses, and the
  producer takes its own `isSold` and ends the auction with energy unsold.
- `repeated_jobs`: the saved transaction id is given up after any error that is not a timeout, a
  duplicate or a refusal (`errors.ts:112`, `jobs.ts:199`), although an earlier attempt with it may
  still commit. The job then takes effect twice.
- `offline_state`: requests to CouchDB are not waited for (`couchdbutil.js:72`), so writes of
  two blocks overtake each other and the table keeps the older value.
- `utxo_overflow`: the error of `add` is overwritten unread (`token_contract.go:126`, `141`), so a
  transfer whose outputs overflow is accepted although it pays out more than it takes.

Met while reading, and left as the models have it:

- Contract: no function checks a sign. `CreateEnergyToken` takes a negative amount (such a token never sells), and
  `AuctionEnd` with a negative amount lowers what is sold (`smartcontract.go:287`) without changing the status, so that a
  token marked `sold` has energy left and no search finds it. `SoldIsExhausted` and `NothingIsRewritten` except exactly these tokens.
  A list may award a bid twice; the last award stays (line 309). No function checks `DocType` either, section 7.
- Earlier market: with one successful bid `FirstBidTime` stays the host's time, the range of `BidResult` is
  empty and nothing is counted. A repeated bid keeps its timestamp and may change a token
  that is "sold" already, or leave a part nobody ends. The retry of a split bid that
  succeeded is told "already exists" and counted as failed. A lost answer to a creation makes a
  second token, and the sum test never ends that auction early. `auctionEndQuery` asks for the producer and the time of
  generation, not for the token, so two creations of a producer in one instant count each other's sales, and one
  can end with a part of its token for sale. `Bid` keeps the start of the auction it read in its search, while the loop of `Bid`
  may bid on the token later, in its next auction: the result is then due before that auction is over, what is won is not
  counted, and when the next round begins in the same instant its range covers the bids of both rounds, which are more than
  is wanted. Hence the conditions of `SplitMarketWorks`.
- ERC-20: `Burn` can make a balance negative. ERC-1155: a payment that uses up
  a balance exactly calls `DelState("")` when the payer has no key of its own (`contract.go:1006`), and `sortedKeysToID` compares
  ids only when they are equal.
- Auctions: `CreateAuction` replaces an auction of the same id.
- Secured agreement: receipts marshal unexported fields as `{}`; a sale to oneself deletes
  the owner's properties.
- Private data: `DeleteAsset` is open to every client whose organization holds a value, where the comment at line 405 says
  the owner; an agreement survives it; the buyer's organization is not checked.
- Swaps: the README asks for both participants' endorsement of a creation, the policy (`script.sh:71`)
  for any one of the parties and the auditor.
- Private marbles: `QueryMarblesByOwner` looks for documents of type "marble", which are stored as "Marble".

## 6. Proofs

TLAPS checks all of these from the constants' named assumptions.

`EnergyLedger_proofs`: `TypeCorrect`, `NoOversale`, `StatusAgrees`,
`AwardsFit` (the invariants of `contract_calls`) and `HistoryIsKept` (its action
property), for every number of tokens, bids, users and categories,
every amount, price and time, negative ones too, and award lists that name a bid more than once. Assumptions: `ContractAssumption` (the kinds of keys are disjoint, `OldId` is
no bid, `Absent` is no record) and `LedgerAssumption` (amounts, prices and times are integers, ids are of their kind).
Each invariant speaks about one token, or about one bid and its token.
None is inductive alone: that an award fits needs the type of the token a bid names, and
a token's soundness under a sale needs `sold <= amount` together with the meaning of its
status, and after a negative settlement that the token is known for it (`returned`). `IInv` is their conjunction with `TypeOK`, pointwise (`SoundToken`,
`SoundBid`). Each transaction has a lemma that says which keys it writes; `CostStep`
and `TokenStep` then show that a step that leaves tokens and bids alone, or that changes
one token and some of its bids soundly, preserves `IInv` and keeps what `NothingIsRewritten`
names. `AuctionEndWrites` reduces the contract's longest function to three outcomes.

`Programs_proofs`, the report: `ReportIsComplete`, which is `ListedOnce` for any tokens with any times,
any number and length of hours and any limit. `ListedOnce` is about
the list of all hours and says nothing of an hour that is half read; `IInv` adds
`HourListedOnce`: the list of the hour at hand has exactly the tokens before the current window.
`AppendStep` is one window, `HourFacts` the arithmetic (windows begin with the hour,
follow one another and end with it, for any division into whole units), `RestartStep`
an hour that is started again.

`Samples_proofs`: `OwnershipAgrees`, which is `OneOwnerPerToken` for any accounts and tokens. Balance keys are deleted
for the owner that a call reads, so the step needs that this is the only key of the token:
`NftInv` is the property with the types. `Books` and `BooksAfter` bring it down to one account
and one token, where each call is a case distinction.
`AgreementEndsWithSale`: the property is inductive with the policy it names, once the types are known.
`ColorsMoveAsOne`: `MarblesInv` says of a transaction under way that it creates, removes or hands over exactly the names it
has read, and hands them over with the color it read; when its reads and its range still hold at the commit, the index follows.
`SwapsNeedConsent` needs every key's policy to be the one its terms call for (`PoliciesOK`), versions that tell transactions
apart (`NumbersOK`) and, of a calculation whose reads still hold, that it is about the present terms and rate (`SwapTxOK`); `AgreementsAreUsedOnce` needs
that an agreement was consented to. `HighestBidsWin`: the organization of a submitted bid is in the auction's policy,
so that some endorser compares each hidden bid with the price; it also shows that the price `EndAuction` takes exists.
`ConsentIsNeeded`: `NothingWithoutConsent` of `Samples`, where one contract is at work and the others rest: a step is one of that
contract or leaves it alone (`EachGoesOn`), and the two theorems say the rest.

`Samples_proofs`, the books: `BooksAlwaysBalance`, which is `BooksBalance`, out of four theorems, each an invariant about a sum.
`SupplyAddsUp`: `Mint` adds to the supply and to a balance, each with its own check, `Transfer` to two balances; that the supply is
the sum as an int keeps it, although the sum of all balances need not fit an int, is the congruence of wrapped sums
(`WrapFacts`); where `add` finds no overflow there is none (`AddChecked`), and where `sub` lets one pass, both sides wrap alike.
`EventsTellHoldings`: removing what is needed reads keys in their order until they cover it, deletes them and puts the remainder in
the account's own key; `RemovalIsHeld` shows that the sum over all keys goes down by what was needed, wherever the own key is in the
order, and `DepositIsHeld` that a deposit hits one key. The assumption on `KeyOrder` is that every account has one place in it.
`ValueStays`: the two sums of a transfer are folds of a list, made into recursive functions of its places (`ValueSteps`,
`TotalSteps`); while a list is worth no more than an int holds, the checked sum is its value (`ListValue`), and different outputs of a
list are worth together what the list is (`CoinsOfList`). The new outputs carry the number of their transaction, so they are none of the old.
`RowsAddUp`: `DeltaInv` says of a transaction under way that its rows carry its own number and that a prune adds up what it takes
away; when its range read still holds, the sum stays.
All four hold for amounts, lists and numbers of calls without a bound.

`Samples_proofs`, the blind auctions: `BestBidsAlwaysWin`, which is `BestBidsWin`, out of `HighestBidsWin` and `MarketClears`.
The winners of a Dutch auction are the first bids of a ranking up to the one that reaches the quantity (`WinnersAre`), each with all
it asked for but perhaps the last, so what they got adds up as in the award loop; `RankingClears` concludes that the last winner's
price clears the market, whichever order the sort leaves equal bids in. `LotInv` adds what lets nobody hide a higher bid: each
submitted bid's organization is a participant and the policy names all of them, so that either every participant has looked
into its collection or the auction has an auditor. It also says of a later bid that it changes none of the earlier ones, the sold ones included.
Prices are integers and quantities positive (`SamplesAssumption`).

`Programs_proofs`, the queue: `AppliedAtMostOnce` and `SummariesAreTrue`, for any number of jobs, attempts,
crashes, stalls, timeouts and transactions of others. Neither property mentions the saved id; `QueueInv` does: a transaction other
than the saved one is spent (it has no effect and no envelope that may give it one, `OnlySaved`), envelopes belong to
ids the job has made (`Sent`), and an envelope that is still fresh would be endorsed again (`Fresh`). One
lemma per action, one step per job in it.

`Sums_proofs`, the award loop: `AllocationIsFair` and `BestBidsAreServed`, the award loop for any bids, any
ranking of them and any amount: offers go down the ranking, only the last may be cut, they add up to what the
loop reports, which is the amount unless the bids ask for less, and no bid is passed over for one that ranks behind it.
The sums, of naturals and of integers, over lists and over finite sets, are recursive functions; their lemmas
take the least index, or the smallest set, at which a claim fails (`LeastOf`) instead of using an induction rule.

`Programs_proofs`, the loop: `LoopComputesAllocation` and `LoopServesBestFirst`, for any list of bids and any amount: the
three sorts and the loop of `auctionEnd.go` come to the closed form of `BidAllocation`. Each sort is stable, so
after the last one the list is ranked by all three keys at once and by arrival where they agree;
`LoopInv` says this of each stage, and of the loop that the awards so far are those of the
closed form, what is left of the amount included.

`Programs_proofs`, the listeners: `ListenerMissesNothing` and `LegacyLogMissesNothing`, for any chain and any number of
deaths. Neither property says what a listener that is at work still has to do. `AtWork` does for the TypeScript
one: the transactions it will process are those the checkpoint leaves of its block, and it marks one only when all
its writes are stored; `ListenerInv` is that with `StoreFollowsLedger`. `PendingInv` does for the legacy one: every block before
`nextblock.txt` is logged (`LogHasTheDone`), the writes of the block at hand that are done are a beginning of it and logged
(`BeginningIsDone`), and a transaction is logged for the first time after those before it (`LogInOrder`).

`Programs_proofs`, the operator: `PricesNeverGoBack` (`PricesMoveForward`) and `PricesKeepTheHour` (`PriceOfTheHour`), for
any hours, latency, faults and number of categories. `OperatorInv` ties three things together: where a goroutine is and when its
timer is due (`ClockOK`; `PromptOK` while nothing was late), the price on the ledger and the answer under way (`PriceOK`: when a goroutine rests,
its next price is at most one hour on), and every update in the pool (`UpdateOK`: it is of an hour that has begun, one that was given up
commits only while no later one has, and the one waited for is the last). Hypotheses: `TableReaches`, the table of two days outlasts the
simulation, which starts at six and ends a day later (`simulation.go:39`); and for the second also `UpdatesFit`, two latencies fit
before the first full hour. Without it the first update and the one after it overlap and the price lags by more than `PriceOfTheHour` allows;
an hour is long against an update in the code. The constants of `market_programs` satisfy both.

`AuctionHouse_proofs`, the market: `EndorsementsStayValid` and `MarketImplementsLedger`. A submission adds to the
pool whatever executing its request returns, so `EndorsementStaysValid` is inductive only together with
what the requests can be: `HouseInv` says which requests the programs will make (`HouseRequests`), that the
goroutines keep what such a request is built from (`AuctionOK`, `BasketOK`), that the world state has
its kinds at its keys, and that a transaction of the pool that is not stale would be endorsed again with the same
reads, writes and message (`TxOK`). The step needs one fact about the contract, that executing a request depends
only on the keys it reads (`ExecutionIsLocal`, with one lemma per function). With `HouseInv` a
commit is the contract's function on the state it meets, and with the message it had: that is a step of `EnergyLedger`, and
nothing else changes the world state. What `EnergyLedger_proofs` shows of every behavior of the ledger
is therefore true of the market's world state too; this last step is read off the two theorems and not checked by the prover,
which treats a theorem of an instanced module as opaque.

`AuctionHouse_proofs`, settlements: `AwardsStayFinal`. `auctionEnd` sends a settlement again until it is answered,
and the contract settles a bid that is settled already, so several copies may be under way and commit. `FinalInv` says why this
changes nothing: a settlement belongs to the goroutine that has the token (`Owned`), a client waits for one
transaction, its last (`Awaiting`), a copy that can still have an effect carries the list
of the tick that is not answered yet (`Current`), it writes to a settled bid what the bid
already holds (`Lasting`), and the offer agrees with the bids it has settled (`OfferSound`).

`AuctionHouse_proofs`, answers: `LastAnswerStays`, `AwardListsStayAccepted`, `BuyersStayInformed`. An answer is true when its
transaction commits; `AnswerInv` adds that afterwards every other copy is stale (`Quiet`), that only this goroutine writes its
token, that a token carries the time its goroutine started with (`AgesOK`), and that what a buyer
counts as placed is on the ledger. `AwardListsStayAccepted` assumes `ContractLife =< TokenLife`: both are 30 minutes in the
code (`smartcontract.go:56`, `simulation.go:44`), and with a longer life in the contract the producer would
send "old" for a token the contract takes to be alive.

`AuctionAwards_proofs`: `SoldIsAwarded`, `EveryTokenIsAuctioned`, `TypesHold`. What a token has sold is a sum that
a settlement adds to at once, what its winners were promised is a sum over a set of bids that grows by the bids
of the same settlement: `AwardsInv` adds that an award list adds up to the amount it is sent with, names a bid once
and only bids of its token that are open while no copy of it was lost (`OfferNew`). The theorem of the award loop
provides the first when the list is made. For `EveryTokenIsAuctioned` it adds `Timed`, how many ticks a goroutine has had by
what time, counting the ticks its late timer drops: the contract turns a token old only in the tick after which its
goroutine would give up, and says so in that answer. With a longer life in the contract there would be none, hence
`ContractLife =< TokenLife` again.

`EnergyMarket_proofs`: `MarketImplementsHouse`, `ConsumersStayWithinGoal`, `ConsumersChargeAwards`. `AuctionHouse` leaves
open which bids a buyer stamps; the first theorem shows that what `Consumer` computes (rank, cut to what is still
wanted, stamp with the next ids) is one of its choices, so every theorem of `AuctionHouse` holds of the simulation. `MarketInv`
is what a round owes to the rounds before: `Purse` (charged, won and still to be read never exceed the goal with what is asked for),
`Spent` (what a round's bids ask for and what is left are together what it asked for), `Reckons` (what was counted is the
sum of the awards of a set of bids, none of them to be read again), `Draws` (ids are used once). The batches
of a round are cut so that they add up to what is left: `CutToFit` in `Sums_proofs`. A bid counts after its award and never
changes then, which is `AwardsAreFinal`.

`EnergyMarket_proofs` again: `BidsAreListed` and `AwardsAreCounted`, for any latencies, intervals and windows that satisfy two
conditions. `Punctual`: an activity takes less than the tick, and the tick with two of them fits the window
of the query (a consumer may list a token at the end of its second minute, and its bid commits one activity later; the
producer reads one activity after its tick). In the code 60 s and two activities within 75 s (`smartcontract.go:425`). `Patient`,
for the second theorem only: the window and one activity are over before the consumer looks, 75 s against 90 s. Both theorems speak of runs
without a fault (`faults = 0`): a lost submission or a dead goroutine is late by any measure.
The properties relate two lists and say nothing of how late their readers are. `TimelyInv` bounds the age of every activity by what it
waits for (`MakerInTime`, `OfferInTime`, `BidInTime`, `BatchInTime`) and says that a bid not listed yet still has a tick of its
goroutine ahead of it, inside the window. `CountInv` adds that what a consumer has read is closed: settled, or past the
window and an activity, when no award can follow. The proof made one assumption explicit: "no token" is the
id of none (`NoIdAssumption`).

The market theorems assume what the modules of `AuctionHouse` state about their constants: the goroutines draw their ids from
disjoint sets, and none twice; producers and buyers are different clients, amounts are positive, prices natural. The theorems about
consumers assume `MarketAssumption` as well: the finite domains `AuctionHouse` takes bids from are large enough for what consumers bid.
They hold for any number of producers, buyers, tokens, bids, faults and attempts, and without fairness.

`SplitMarket_proofs`, the earlier market: `EarlierMarketWorks`, for any number of producers, creations, consumers, bids and splits, any
amounts, goals, intervals and life of a token, and any number of lost answers and late bids: it is about `Steps`, the next-state
relation without the bounds `MarketFaults` and `MarketBids` of `SplitNext` (`BoundedMarketWorks` is the same with them). `SplitMarketAssumption`
is all that is assumed: finitely many producers and consumers, positive amounts and intervals. A bid is one of four steps of the ledger
(refused, all of a token, a part of it, a part whose id is taken), the end of an auction one of three; one lemma each says what
it does to the amounts (`Conserves`), and another what it keeps of what producers and consumers remember. None of the four
properties is inductive. `SplitInv` adds:

- that no id is made twice: it grows from the id of its creation by the bidder and the number of its bid, so the tokens that begin
  alike are what one creation was split into (`Conserves`: in every such class the amounts add up to what was generated);
- while no bid came late, `TimelyLedger`: a token is sold or old only when its auction or its life is over, so what is
  sold stays as it is. Then `Counts`: what an auction call has counted is a sum over tokens that are settled, so the whole amount is
  reached only when none is left. And `Owning`: what a consumer has counted it owns and bid for before some moment, from which
  on its next bids are;
- while moreover no answer was lost, `Fitting`: what was bought since the round began, what was counted and what is still to be asked for are
  together within the goal, and when the consumer looks, all of it is in the range of times it looks at.

The moments of `Owning` and `Fitting` are in no variable, a consumer keeps only the times of its last bids; both say that there is one.
`Fitting` has the condition on `early` because a result read at the time of its own bids leaves bids of that instant
uncounted, and the next round may begin in the same instant.

Only model-checked: all liveness, which the prover does not reach.

## 7. Not modelled

- Market: an id given to the contract is taken to name a record of the kind the function is for. The code does not check `DocType`
  (`ReadToken` returns any record, so `AuctionEnd` would also rewrite a bid as if it were a token), but every application passes an id it has drawn or
  queried for that kind. `ChangeToken` and `DeleteAsset` (no caller, and they break every invariant by design),
  the price formula of the operator, the weather tables, the SQLite inserts. `b4/sameUnitPrice` is the
  two versions again: its earlier contract is the same, its changed one differs at lines 69 and 426 (the end of the window is one
  nanosecond back instead of one second). `b4/b4-chaincode-go` and `old/` are drafts. A peer that evaluates
  a query on an older block than another is not modelled: queries read the last committed state.
- REST server: authentication, wallets, logging. The PUT route validates its body and reads `req.body.color`, which it leaves undefined;
  details of an asset are one value here. The early return for an unknown organization is left out. A lock is lost
  by a crash only. An error other than a timeout means the envelope was not ordered (`errors.ts:77`), or not told (a rejection).
- Legacy listener: JSON values and well-formed blocks only; requests under way at a crash are lost.
- Tokens: names, symbols and URIs; `SetURI`, `BroadcastTokenExistance`. Recipients are client ids; ERC-20 keys of balances and options share a namespace,
  names are taken to be non-empty.
- Auctions: quantities are positive. `ChangePublicDescription` of the secured agreement, `putStandard` and `delStandard`
  of high throughput.
- Other samples: `marbles02_private` repeats marbles over collections; commercial paper, fabcar, abstore and the keys of
  `asset-transfer-sbe`, `-abac`, `-events`, `-ledger-queries` are single reads and writes. In commercial paper
  `buy_request` works on a redeemed paper, which can then trade again. Client programs in five languages,
  the test network's scripts, generated mocks (about half of the repository's lines) and vendored code are I/O or have no rule of their own.

## 8. Plan

1. Done: contract, ledger and its proofs, gateway, producer, allocation, bid submission, consumer, the market and its
   punctuality, the refinements; the operator; the report and its proof; the earlier market.
2. Done: the REST queue with its proofs, the listeners, the token contracts with a proof, auctions, asset transfers,
   high throughput, marbles, swaps.
3. Next: the operator inside `EnergyMarket` in place of `PriceUpdate`, the generation schedule of `Produce`;
   two consumers that compete for a token in rounds; commercial paper.
4. Proofs. Done: the ledger, the report, the contracts of `Samples_proofs`, the queue, the award loop in closed form and step by step,
   both listeners, the operator, and of the market every safety property of `AuctionHouse`, `EnergyMarket`
   and `TimelyMarket`; the books of the token contracts; both blind auctions; the earlier market. Every safety property of a passing run
   is now stated by a theorem.
