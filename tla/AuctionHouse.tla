---------------------------- MODULE AuctionHouse ----------------------------
(***************************************************************************)
(* The producers' auctions, the buyers' bids and the price updates of the  *)
(* operator over one ledger.  What a buyer bids on, and how much, is left  *)
(* open here: any token it may have seen in a search of any age.           *)
(***************************************************************************)
EXTENDS ProducerAuction, BidSubmission

CONSTANTS
  Extras,     \* what distance may add to a unit price in a bid
  Prios,      \* priorities a bid may have
  MaxBatch,   \* bound on the bids of one batch
  NewPrices,  \* unit prices the operator may set; none when it does not run
              \* (simulation.go:50 has it commented out)
  UpdateUntil \* bound on the time of a price update

ASSUME HouseAssumption ==
  /\ Extras \subseteq Nat
  /\ Prios \subseteq Nat
  /\ MaxBatch \in Nat
  /\ NewPrices \subseteq Nat
  /\ UpdateUntil \in Nat
  /\ Makers \cap Buyers = {}

vars == <<now, ws, pool, reply, faults, crashed, auction, basket>>

Init == GatewayInit /\ ProducerInit /\ BuyerInit

\* Bids on a token as Bid makes them from the record it has read.
WantedOn(e) ==
  {[energy |-> e, owner |-> u, cat |-> ws[e].cat, bidAmount |-> n,
    price |-> ws[e].price + x, prio |-> p] :
     u \in Users, n \in 1..ws[e].amount, x \in Extras, p \in Prios}

Market == {e \in Energies : ws[e] # Absent}

\* One bid per token in a batch.
Bidding(c) ==
  \E n \in 1..MaxBatch :
    \E wanted \in [1..n -> UNION {WantedOn(e) : e \in Market}] :
      /\ \A i, j \in 1..n : i # j => wanted[i].energy # wanted[j].energy
      /\ StampBids(c, wanted)

\* A price update of the operator commits (operatorApp.go, update): it conflicts
\* with the creation of tokens of the category and with nothing else.
PriceUpdate ==
  /\ now <= EndTime /\ now <= UpdateUntil
  /\ \E cat \in Categories, p \in NewPrices :
       LET out == UpdateUnitPrice(ws, cat, p) IN
       /\ ws' = Apply(ws, out.writes)
       /\ pool' = {[tx EXCEPT !.stale = @ \/ cat \in tx.reads] : tx \in pool}
  /\ UNCHANGED <<now, reply, faults, crashed, auction, basket>>

Network == GatewayNext /\ UNCHANGED <<auction, basket>>
Producers == ProducerNext /\ UNCHANGED basket
BuyersStart == (\E c \in Buyers : Bidding(c)) /\ UNCHANGED auction
BuyersPlace == (\E c \in Buyers : BuyerStep(c)) /\ UNCHANGED auction

Next == Network \/ Producers \/ BuyersStart \/ BuyersPlace \/ PriceUpdate

Spec == Init /\ [][Next]_vars

\* The clock runs, the orderer delivers what somebody waits for, and Go runs
\* every goroutine that can run.  Nothing makes a producer generate, a buyer bid,
\* or a forgotten transaction arrive.
FairSpec ==
  /\ Spec
  /\ WF_vars(ClockTick /\ UNCHANGED <<crashed, auction, basket>>)
  /\ WF_vars(Deliver /\ UNCHANGED <<auction, basket>>)
  /\ \A m \in Makers : WF_vars(ProducerStep(m) /\ UNCHANGED basket)
  /\ \A c \in Buyers : WF_vars(BuyerStep(c) /\ UNCHANGED auction)

-----------------------------------------------------------------------------
TypeOK == GatewayTypeOK /\ ProducerTypeOK /\ BuyerTypeOK

Winners(e) == {b \in BidsOn(ws, e) : ws[b].status = "success"}

AwardedOn(e) == MapThenSumSet(LAMBDA b : ws[b].amount, Winners(e))

\* The energy counted as sold covers what the winners were promised, whatever
\* was retried, lost or reordered on the way, and as long as no call has failed
\* it is exactly that.  (After a lost answer the same settlement is submitted
\* again and counted again: producerAppAuction.go:195.)
SoldCoversAwards ==
  \A e \in Market : /\ AwardedOn(e) <= ws[e].sold
                    /\ faults = 0 => AwardedOn(e) = ws[e].sold

\* A settled bid is final: no later tick, retry or late transaction changes the
\* amount a buyer has read once (auctionEndQuery only lists bids of status "bid",
\* smartcontract.go:476).
AwardsAreFinal ==
  [][\A b \in Bids : ws[b] # Absent /\ ws[b].status = "success" => ws'[b] = ws[b]]_ws

\* What an auction was told when it ended is still so: "auction end" is about a
\* token that is sold, the message about its age about one that is old, and both
\* statuses stay as they are.
FinalAnswerStands ==
  \A m \in Makers :
    LET a == auction[m] IN
    a.pc = "done" =>
      /\ a.last = "auction end" => ws[a.id].status = "sold"
      /\ a.last = OldMessage => ws[a.id].status = "old"

\* The producer and the contract agree about a token's age and about whose bids
\* are settled: the contract never refuses an award list for anything but the
\* amount (smartcontract.go:296-308 against producerAppAuction.go:85 and 107).
AwardListsAreAccepted ==
  \A m \in Makers :
    auction[m].last \notin {"the energy is alive", "energy ID is wrong", "bid amount is wrong"}

\* A token for sale has a goroutine auctioning it, as long as no call failed;
\* the goroutine may only have ended because the simulation did, or after a
\* settlement the contract refused for its amount.
NoTokenIsAbandoned ==
  \A e \in Market :
    ws[e].status = "generated" /\ faults = 0 =>
      \E m \in Makers :
        /\ auction[m].id = e
        /\ auction[m].pc = "done" => auction[m].last \in {"time up", "energy amount is wrong"}

\* The bids a buyer counts on are on the ledger under its ids, and as long as no
\* call failed, it knows of every bid of its own that is (bidOnEnergy returns the
\* ids of an accepted batch, consumerAppBuy.go:286).
BuyersKnowTheirBids ==
  /\ \A c \in Buyers : \A b \in basket[c].placed : ws[b] # Absent
  /\ faults = 0 => \A b \in Bids : ws[b] # Absent =>
       \E c \in Buyers : b \in basket[c].placed \cup DOMAIN basket[c].list

\* Every auction that has a token ends, and it ends with the token sold or old
\* unless the simulation ran out of time, the process died, or the last
\* settlement was refused for its amount.
AuctionsEnd ==
  \A m \in Makers :
    auction[m].pc = "wait" ~>
      \/ crashed
      \/ /\ auction[m].pc = "done"
         /\ \/ auction[m].last \in {"time up", "energy amount is wrong"}
            \/ auction[m].id \in Market /\ ws[auction[m].id].status \in {"sold", "old"}

-----------------------------------------------------------------------------
(* The market implements the ledger of EnergyLedger: whatever is endorsed,  *)
(* delayed, invalidated and retried, the world state only ever changes by   *)
(* one contract call executed as a whole on the state it finds.             *)

Portions == UNION {1..Output[m] : m \in Makers}
Clock == 0..(EndTime + 1)
UnitPrices == {InitPrice} \cup NewPrices

HouseBids ==
  [energy : Energies, owner : Users, cat : Categories, bidAmount : Portions,
   price : {p + x : p \in UnitPrices, x \in Extras}, prio : Prios, time : Clock]

HouseBatches ==
  UNION {[S -> HouseBids] : S \in {S \in SUBSET Bids : Cardinality(S) \in 1..MaxBatch}}

HouseAwards ==
  {<<[id |-> OldId, amount |-> 0]>>}
  \cup {list \in UNION {[1..n -> [id : Bids, amount : Portions]] :
                          n \in 1..Cardinality(Bids)} :
          \A i, j \in DOMAIN list : i # j => list[i].id # list[j].id}

Ledger == INSTANCE EnergyLedger WITH
            Times <- Clock, Amounts <- Portions, Prices <- UnitPrices,
            Batches <- HouseBatches, AwardLists <- HouseAwards,
            returned <- {}

\* Every execution of the market is an execution of the ledger: the gap between
\* simulation and commit is never visible in the world state (the validation of
\* read sets, for the functions as they are in smartcontract.go).
ImplementsLedger == Ledger!Spec

-----------------------------------------------------------------------------
(* What the code says of itself and does not keep.                          *)

\* "This was not sold." (smartcontract.go:282): a token is marked old only when
\* nothing of it was sold.
OldMeansUnsold ==
  \A e \in Market : ws[e].status = "old" => ws[e].sold = 0

\* A settlement the contract refuses comes back as an error and is handled as
\* one (producerAppAuction.go:208 compares err.Error() with the contract's
\* messages and returns without a sale): an auction that stops as sold has left
\* no unsold token behind.
RefusalIsNoSale ==
  \A m \in Makers :
    auction[m].pc = "done" /\ auction[m].isSold /\ auction[m].last # "time up"
      => ws[auction[m].id].status \in {"sold", "old"}

=============================================================================
