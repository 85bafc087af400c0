---------------------------- MODULE SimpleAuction ----------------------------
(* The blind auction of auction-simple/chaincode-go.  A bid is private data   *)
(* of the bidder's organization; the public auction has hashes until bids are *)
(* revealed.  A transaction that writes the auction must be endorsed by the   *)
(* organizations of its state based policy, each on its own peer.             *)
EXTENDS Integers, Sequences, FiniteSets

CONSTANTS
  Clients,
  MSP(_),      \* the organization of a client
  Prices,
  MaxBids,     \* bound: the bids of all organizations
  Nothing      \* no auction under the key; no winner

VARIABLES
  sale,        \* the auction, public state
  salePolicy,  \* organizations that must endorse a write of the auction
  saleBids     \* the private bids, by the number of the transaction that put them

saleVars == <<sale, salePolicy, saleBids>>

SaleInit ==
  /\ sale = Nothing
  /\ salePolicy = {}
  /\ saleBids = <<>>

\* The code does not look whether there is an auction under the key already.
CreateAuction(client) ==
  /\ sale' = [seller |-> client, orgs |-> {MSP(client)}, privateBids |-> {},
              revealedBids |-> {}, winner |-> Nothing, price |-> 0, status |-> "open"]
  /\ salePolicy' = {MSP(client)}
  /\ UNCHANGED saleBids

\* The bid names its bidder; it is put in the collection of the client's organization.
Bid(client, price, bidder) ==
  /\ Len(saleBids) < MaxBids
  /\ saleBids' = Append(saleBids, [org |-> MSP(client), price |-> price, bidder |-> bidder])
  /\ UNCHANGED <<sale, salePolicy>>

\* A plausible mistake: the organization is listed but not asked to endorse.
addNoEndorsement(org) == UNCHANGED salePolicy

addAssetStateBasedEndorsement(org) == salePolicy' = salePolicy \cup {org}

SubmitBid(client, b) ==
  /\ sale # Nothing
  /\ sale.status = "open"
  /\ saleBids[b].org = MSP(client)
  /\ IF MSP(client) \in sale.orgs
     THEN UNCHANGED salePolicy
     ELSE addAssetStateBasedEndorsement(MSP(client))
  /\ sale' = [sale EXCEPT !.privateBids = @ \cup {b}, !.orgs = @ \cup {MSP(client)}]
  /\ UNCHANGED saleBids

\* A key holds one bid for good: its hash in the auction is the hash of the bid
\* exactly when it was submitted.
RevealBid(client, b) ==
  /\ sale # Nothing
  /\ sale.status = "closed"
  /\ saleBids[b].org = MSP(client)
  /\ b \in sale.privateBids
  /\ saleBids[b].bidder = client
  /\ sale' = [sale EXCEPT !.revealedBids = @ \cup {b}]
  /\ UNCHANGED <<salePolicy, saleBids>>

CloseAuction(client) ==
  /\ sale # Nothing
  /\ sale.seller = client
  /\ sale.status = "open"
  /\ sale' = [sale EXCEPT !.status = "closed"]
  /\ UNCHANGED <<salePolicy, saleBids>>

\* The winning price and the winners an iteration over the map can end with.
Price == CHOOSE p \in {saleBids[b].price : b \in sale.revealedBids} \cup {0} :
           p >= 0 /\ \A b \in sale.revealedBids : saleBids[b].price <= p
Winners ==
  IF Price = 0 THEN {Nothing}
  ELSE {saleBids[b].bidder : b \in {r \in sale.revealedBids : saleBids[r].price = Price}}

\* What the peer of org finds in its own collection.
checkForHigherBid(org) ==
  \A b \in sale.privateBids \ sale.revealedBids :
    saleBids[b].org = org => saleBids[b].price <= Price

\* All organizations endorse the same winner.
EndAuction(client) ==
  /\ sale # Nothing
  /\ sale.seller = client
  /\ sale.status = "closed"
  /\ sale.revealedBids # {}
  /\ \A org \in salePolicy : checkForHigherBid(org)
  /\ \E w \in Winners :
       sale' = [sale EXCEPT !.winner = w, !.price = Price, !.status = "ended"]
  /\ UNCHANGED <<salePolicy, saleBids>>

SaleNext ==
  \E c \in Clients :
    \/ CreateAuction(c) \/ CloseAuction(c) \/ EndAuction(c)
    \/ \E p \in Prices, w \in Clients : Bid(c, p, w)
    \/ \E b \in DOMAIN saleBids : SubmitBid(c, b) \/ RevealBid(c, b)

(* An auction that has ended was won by a highest of all the bids submitted   *)
(* to it, revealed or not, in whichever organization's collection they are:   *)
(* each of these organizations had to endorse the end.                        *)
HighestBidWins ==
  sale # Nothing /\ sale.status = "ended" =>
    /\ \A b \in sale.privateBids : saleBids[b].price <= sale.price
    /\ sale.winner # Nothing =>
         \E b \in sale.revealedBids :
           saleBids[b].bidder = sale.winner /\ saleBids[b].price = sale.price

=============================================================================
