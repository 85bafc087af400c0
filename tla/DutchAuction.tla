---------------------------- MODULE DutchAuction -----------------------------
(* The auction of auction-dutch/chaincode-go: several units of an item are    *)
(* sold at one price, the lowest that sells them.  With an auditor, whose     *)
(* peer runs auction-dutch/chaincode-go-auditor, one participant and the      *)
(* auditor can endorse in place of all participants.                          *)
EXTENDS Integers, Sequences, FiniteSets, SequencesExt, FiniteSetsExt, Functions

CONSTANTS
  Clients,
  MSP(_),      \* the organization of a client
  Auditor,     \* Org3MSP
  Prices,
  Quantities,  \* units for sale, units of a bid
  MaxBids,     \* bound: the bids of all organizations
  Nothing      \* no auction under the key

VARIABLES
  lot,         \* the auction, public state
  lotPolicy,   \* the participants of its endorsement policy, and whether there is an auditor
  lotBids,     \* the private bids, by the number of the transaction that put them
  signers      \* the participants that endorsed the end

lotVars == <<lot, lotPolicy, lotBids, signers>>

LotInit ==
  /\ lot = Nothing
  /\ lotPolicy = [orgs |-> {}, auditor |-> FALSE]
  /\ lotBids = <<>>
  /\ signers = {}

setAssetStateBasedEndorsement(orgs, auditor) ==
  lotPolicy' = [orgs |-> orgs, auditor |-> auditor]

\* The sets of participants whose endorsement satisfies the policy.
Endorsers == {lotPolicy.orgs} \cup IF lotPolicy.auditor THEN {{o} : o \in lotPolicy.orgs} ELSE {}

CreateAuction(client, quantity, withAuditor) ==
  /\ lot' = [seller |-> client, quantity |-> quantity, orgs |-> {MSP(client)},
             privateBids |-> {}, revealedBids |-> {}, winners |-> <<>>,
             price |-> 0, status |-> "open", auditor |-> withAuditor]
  /\ setAssetStateBasedEndorsement({MSP(client)}, withAuditor)
  /\ signers' = {}
  /\ UNCHANGED lotBids

Bid(client, quantity, price, buyer) ==
  /\ Len(lotBids) < MaxBids
  /\ lotBids' = Append(lotBids,
       [org |-> MSP(client), quantity |-> quantity, price |-> price, buyer |-> buyer])
  /\ UNCHANGED <<lot, lotPolicy, signers>>

SubmitBid(client, b) ==
  /\ lot # Nothing
  /\ lot.status = "open"
  /\ lotBids[b].org = MSP(client)
  /\ IF MSP(client) \in lot.orgs
     THEN UNCHANGED lotPolicy
     ELSE setAssetStateBasedEndorsement(lot.orgs \cup {MSP(client)}, lot.auditor)
  /\ lot' = [lot EXCEPT !.privateBids = @ \cup {b}, !.orgs = @ \cup {MSP(client)}]
  /\ UNCHANGED <<lotBids, signers>>

RevealBid(client, b) ==
  /\ lot # Nothing
  /\ lot.status = "closed"
  /\ lotBids[b].org = MSP(client)
  /\ b \in lot.privateBids
  /\ lotBids[b].buyer = client
  /\ lot' = [lot EXCEPT !.revealedBids = @ \cup {b}]
  /\ UNCHANGED <<lotPolicy, lotBids, signers>>

CloseAuction(client) ==
  /\ lot # Nothing
  /\ lot.seller = client
  /\ lot.status = "open"
  /\ lot' = [lot EXCEPT !.status = "closed"]
  /\ UNCHANGED <<lotPolicy, lotBids, signers>>

\* A plausible mistake: among bids of one price the larger go first.
BeforeLarger(p, q) ==
  \/ lotBids[p].price > lotBids[q].price
  \/ lotBids[p].price = lotBids[q].price /\ lotBids[p].quantity > lotBids[q].quantity

\* The orders the sort can leave: by price, then smaller bids first.
Before(p, q) ==
  \/ lotBids[p].price > lotBids[q].price
  \/ lotBids[p].price = lotBids[q].price /\ lotBids[p].quantity < lotBids[q].quantity
Ranked ==
  {s \in SetToSeqs(lot.revealedBids) :
     \A i, j \in DOMAIN s : i < j => ~Before(s[j], s[i])}

\* The loop over the bids in order: what is left after the first i.
Remaining(s, i) ==
  Max({0, lot.quantity - FoldFunctionOnSet(+, 0, [k \in DOMAIN s |-> lotBids[s[k]].quantity], 1..i)})
WinnersOf(s) ==
  [i \in 1..Cardinality({k \in DOMAIN s : Remaining(s, k - 1) > 0}) |->
     [bid |-> s[i], quantity |-> Min({lotBids[s[i]].quantity, Remaining(s, i - 1)})]]
PriceOf(s) == lotBids[s[Len(WinnersOf(s))]].price

\* What the peer of org finds in its own collection.
checkForHigherBid(org, price) ==
  \A b \in lot.privateBids \ lot.revealedBids :
    lotBids[b].org = org => lotBids[b].price <= price

EndAuction(client) ==
  /\ lot # Nothing
  /\ lot.seller = client
  /\ lot.status = "closed"
  /\ lot.revealedBids # {}
  /\ \E s \in Ranked, orgs \in Endorsers :
       /\ \A org \in orgs \cup IF orgs # lotPolicy.orgs THEN {Auditor} ELSE {} :
            checkForHigherBid(org, PriceOf(s))
       /\ lot' = [lot EXCEPT !.winners = WinnersOf(s), !.price = PriceOf(s), !.status = "ended"]
       /\ signers' = orgs
  /\ UNCHANGED <<lotPolicy, lotBids>>

LotNext ==
  \E c \in Clients :
    \/ \E q \in Quantities, a \in BOOLEAN : CreateAuction(c, q, a)
    \/ CloseAuction(c) \/ EndAuction(c)
    \/ \E q \in Quantities, p \in Prices, w \in Clients : Bid(c, q, p, w)
    \/ \E b \in DOMAIN lotBids : SubmitBid(c, b) \/ RevealBid(c, b)

Sold == FoldFunction(+, 0, [i \in DOMAIN lot.winners |-> lot.winners[i].quantity])
Served(b) ==
  FoldFunctionOnSet(+, 0, [i \in DOMAIN lot.winners |-> lot.winners[i].quantity],
                    {i \in DOMAIN lot.winners : lot.winners[i].bid = b})

(* An auction that has ended sold as much as the revealed bids asked for, up  *)
(* to the quantity, and cleared the market: who revealed a bid above the      *)
(* price got all of it, no winner bid less, among the bids at the price a     *)
(* smaller one never waits for a larger one, and no bid above the price was   *)
(* left hidden in the collection of an organization that endorsed the end -   *)
(* of any participant, if there is no auditor.                                *)
AuctionClearsMarket ==
  lot # Nothing /\ lot.status = "ended" =>
    /\ Sold = Min({lot.quantity,
                   FoldFunction(+, 0, [b \in lot.revealedBids |-> lotBids[b].quantity])})
    /\ \A b \in lot.revealedBids :
         /\ lotBids[b].price > lot.price => Served(b) = lotBids[b].quantity
         /\ lotBids[b].price < lot.price => Served(b) = 0
         /\ \A d \in lot.revealedBids :
              lotBids[b].price = lotBids[d].price /\ lotBids[b].quantity < lotBids[d].quantity
                /\ Served(d) > 0 => Served(b) = lotBids[b].quantity
    /\ \A b \in lot.privateBids \ lot.revealedBids :
         lotBids[b].price > lot.price => lotBids[b].org \notin signers /\ lot.auditor

=============================================================================
