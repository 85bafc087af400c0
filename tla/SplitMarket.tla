----------------------------- MODULE SplitMarket -----------------------------
(***************************************************************************)
(* Producers and consumers of the market's earlier version,                *)
(* b4/proposal/application-gateway-go: a producer creates a token, ends    *)
(* the auction of everything it was split into once a minute, and stops    *)
(* when all of it is sold; a consumer searches, bids on what it needs in   *)
(* parallel, waits for the auctions to end and counts what it owns.        *)
(*                                                                         *)
(* A transaction happens at once: what conflicts is submitted again.  Its  *)
(* answer may be lost, and then it is submitted again too.                 *)
(***************************************************************************)
EXTENDS SplitContract, Sequences, SequencesExt, FiniteSetsExt

CONSTANTS
  Gens,        \* what producers create: calls of Create
  Makers,      \* Makers[g]: the producer
  Output,      \* Output[g]: the amount
  Bidders,     \* consumers
  Nearby,      \* consumers at no distance from the producers
  Goals,       \* Goals[c]: the energy c wants
  Price,       \* the unit price
  Grace,       \* the 30 seconds a consumer waits after the auctions
  MarketEnd,   \* the time of the simulation
  MaxTries,    \* errCount > 3: calls of createToken
  MarketFaults,\* bound on answers that are lost and on bids that come late
  MarketBids   \* bound on the bids and the faults together

\* Amounts are positive, times and goals are numbers, and there are finitely many
\* producers and consumers.
ASSUME SplitMarketAssumption ==
  /\ IsFiniteSet(Gens) /\ IsFiniteSet(Bidders)
  /\ {TokenLife, AuctionInterval} \subseteq Nat \ {0}
  /\ {Grace, MarketEnd, MaxTries} \subseteq Nat
  /\ \A g \in Gens : Output[g] \in Nat \ {0}
  /\ \A c \in Bidders : Goals[c] \in Nat

VARIABLES
  clock,   \* the simulated time
  tokens,  \* the ledger
  auction, \* auction[g]: the locals of Create, Auction and auctionEnd
  buying,  \* buying[c]: the locals of Consume, Bid and bid
  lost,    \* answers lost so far
  late     \* bids submitted so far after the time they name

splitVars == <<clock, tokens, auction, buying, lost, late>>

\* pc: "create" in Create, "wait" for a timer, "end" in auctionEnd, "done".
Producing == [pc |-> "create", tries |-> 0, born |-> 0, due |-> 0, ts |-> 0, calls |-> 0,
              toEnd |-> {}, seen |-> <<>>, ended |-> 0, soldOut |-> FALSE]

\* pc: "ask" at the top of Consume's loop, "bid" in Bid, "check" before BidResult,
\* "done".  valid are the tokens found, asked the bids under way, bids how many
\* there were; early is history: a result was due no later than a bid it is about.
Buying == [pc |-> "ask", charged |-> 0, left |-> 0, valid |-> <<>>, asked |-> {},
           success |-> {}, bids |-> 0, first |-> 0, last |-> 0, due |-> 0, early |-> FALSE]

SplitInit ==
  /\ clock = 0
  /\ tokens = [id \in {} |-> Producing]
  /\ auction = [g \in Gens |-> Producing]
  /\ buying = [c \in Bidders |-> Buying]
  /\ lost = 0
  /\ late = 0

Tick ==
  /\ clock < MarketEnd
  /\ clock' = clock + 1
  /\ UNCHANGED <<tokens, auction, buying, lost, late>>

\* The bounds on what happens.
BidsOf(buyers) == FoldFunction(LAMBDA b, total : total + b.bids, 0, buyers)
Affordable == lost' + late' <= MarketFaults /\ BidsOf(buying') + lost' + late' <= MarketBids

Produced(g, new) == auction' = [auction EXCEPT ![g] = new]
Consumed(c, new) == buying' = [buying EXCEPT ![c] = new]

AmountOf(ids) == MapThenSumSet(LAMBDA id : tokens[id].amount, ids)

-----------------------------------------------------------------------------
(* A producer.                                                              *)

\* createToken: every call has an id of its own, and the time of the first.
Create(g) ==
  LET a    == auction[g]
      born == IF a.tries = 0 THEN clock ELSE a.born
  IN
  /\ a.pc = "create"
  /\ a.tries < MaxTries
  /\ tokens' = CreateToken(tokens, <<g, a.tries>>, g, Makers[g], Output[g], Price, born).tokens
  /\ \/ /\ Produced(g, [a EXCEPT !.pc = "wait", !.born = born, !.due = born + AuctionInterval])
        /\ UNCHANGED lost
     \/ /\ lost' = lost + 1
        /\ Produced(g, [a EXCEPT !.tries = @ + 1, !.born = born])
  /\ UNCHANGED <<clock, buying, late>>

\* What is sold or old already counts as what it is.
EndQuery(g) ==
  LET a   == auction[g]
      ids == QueryByUserAndGeneratedTime(tokens, Makers[g], a.born)
      on  == {id \in ids : tokens[id].status = "generated"}
  IN
  /\ a.pc = "wait"
  /\ clock >= a.due
  /\ Produced(g, [a EXCEPT !.pc = "end", !.ts = clock, !.toEnd = on,
                           !.due = (IF a.calls = 0 THEN clock ELSE @) + AuctionInterval,
                           !.seen = [id \in on |-> tokens[id].amount],
                           !.ended = AmountOf(ids \ on)])
  /\ UNCHANGED <<clock, tokens, buying, lost, late>>

\* auctionEndTransaction: what it leaves for sale does not count.
EndToken(g, id) ==
  LET a   == auction[g]
      out == EndAuction(tokens, id, a.ts)
      ended == IF out.message \in {"sold", "old"} THEN a.seen[id] ELSE 0
  IN
  /\ a.pc = "end"
  /\ id \in a.toEnd
  /\ tokens' = out.tokens
  /\ \/ /\ Produced(g, [a EXCEPT !.toEnd = @ \ {id}, !.ended = @ + ended])
        /\ UNCHANGED lost
     \/ /\ lost' = lost + 1
        /\ UNCHANGED auction
  /\ UNCHANGED <<clock, buying, late>>

\* amountSold == energy.Amount.
SoldOut(g) == auction[g].ended = Output[g]

\* All of it is sold, or this was the last call, or there is another tick.
EndSum(g) ==
  LET a     == auction[g]
      calls == a.calls + 1
      over  == SoldOut(g) \/ calls >= TokenLife \div AuctionInterval
  IN
  /\ a.pc = "end"
  /\ a.toEnd = {}
  /\ Produced(g, [a EXCEPT !.pc = IF over THEN "done" ELSE "wait", !.calls = calls,
                           !.soldOut = SoldOut(g), !.ended = 0, !.seen = <<>>, !.ts = 0])
  /\ UNCHANGED <<clock, tokens, buying, lost, late>>

-----------------------------------------------------------------------------
(* A consumer.                                                              *)

\* 1 - batteryLife.
Priority(c) == Goals[c] - buying[c].charged

\* The auction goes on, and the price of the distance or the priority is higher:
\* the bid itself will name the price the token has.
Worth(c, token) ==
  /\ clock - AuctionInterval <= token.started
  /\ c \notin Nearby \/ Priority(c) > token.priority

\* What of the want is left for the n-th token found, and which tokens are needed.
LeftFor(b, n) == b.left - MapThenSumSet(LAMBDA m : b.valid[m].amount, 1..(n - 1))
Needed(b) == {n \in DOMAIN b.valid : LeftFor(b, n) > 0}

\* bid starts a goroutine for each of them.
Ask(b) ==
  LET count == Cardinality(Needed(b)) IN
  [b EXCEPT
    !.asked = {[n |-> b.bids + n, id |-> b.valid[n].id, price |-> b.valid[n].price,
                amount |-> Min({b.valid[n].amount, LeftFor(b, n)}),
                started |-> b.valid[n].started, ts |-> clock] : n \in Needed(b)},
    !.valid = SubSeq(b.valid, count + 1, Len(b.valid)),
    !.bids = @ + count]

\* Bid searches and sorts; with one price for all, by the time of generation.  Then it
\* bids; where nothing is found, there is another round a minute later.
Search(c) ==
  LET b   == buying[c]
      ids == {id \in QueryByRange(tokens, "generated", c) : Worth(c, tokens[id])}
      found(id) == [id |-> id, amount |-> tokens[id].amount, price |-> tokens[id].price,
                    started |-> tokens[id].started]
  IN
  /\ b.pc = "ask"
  /\ b.charged < Goals[c]
  /\ clock >= b.due
  /\ \/ /\ ids = {}
        /\ Consumed(c, [b EXCEPT !.due = clock + AuctionInterval])
     \/ /\ ids # {}
        /\ \E request \in 1..(Goals[c] - b.charged), order \in SetToSeqs(ids) :
             /\ \A m, n \in DOMAIN order :
                  tokens[order[m]].born < tokens[order[n]].born => m < n
             /\ Consumed(c, Ask([b EXCEPT !.pc = "bid", !.left = request, !.due = 0,
                                  !.valid = [n \in DOMAIN order |-> found(order[n])]]))
  /\ UNCHANGED <<clock, tokens, auction, lost, late>>

\* The loop of Bid goes on with what the bids have left.
AskAgain(c) ==
  LET b == buying[c] IN
  /\ b.pc = "bid" /\ b.asked = {}
  /\ b.left > 0 /\ b.valid # <<>>
  /\ Consumed(c, Ask(b))
  /\ UNCHANGED <<clock, tokens, auction, lost, late>>

\* bidOnToken: the time and the new id are those of the first call.
SubmitBid(c, x) ==
  LET b   == buying[c]
      out == BidOnToken(tokens, x.id, c, x.price, Priority(c), x.amount, x.ts, x.id \o <<c, x.n>>)
      won == out.message = "successful"
  IN
  /\ x \in b.asked
  /\ tokens' = out.tokens
  /\ \/ clock = x.ts /\ UNCHANGED late
     \/ clock > x.ts /\ late' = late + 1
  /\ \/ /\ Consumed(c, [b EXCEPT !.asked = @ \ {x}, !.left = @ - out.amount,
                  !.success = IF won THEN @ \cup {[n |-> x.n, ts |-> x.ts, started |-> x.started]} ELSE @])
        /\ UNCHANGED lost
     \/ /\ lost' = lost + 1
        /\ UNCHANGED buying
  /\ UNCHANGED <<clock, auction>>

\* FirstBidTime is first the time of the host, which is after the simulation's.
Host == MarketEnd + 1

\* In the order of the bids, one that does not raise LastBidTime lowers FirstBidTime.
BidTimes(success) ==
  LET lowers(x) == x.ts = 0 \/ \E y \in success : y.n < x.n /\ y.ts >= x.ts IN
  [first |-> Min({Host} \cup {x.ts : x \in {y \in success : lowers(y)}}),
   last  |-> Max({0} \cup {x.ts : x \in success})]

\* The end of Bid: without a success, there is another round a minute later.
Tally(c) ==
  LET b == buying[c]
      times == BidTimes(b.success)
      due == Max({x.started : x \in b.success}) + AuctionInterval + Grace
  IN
  /\ b.pc = "bid" /\ b.asked = {}
  /\ b.left = 0 \/ b.valid = <<>>
  /\ \/ /\ b.success = {}
        /\ Consumed(c, [b EXCEPT !.pc = "ask", !.left = 0, !.due = clock + AuctionInterval])
     \/ /\ b.success # {}
        /\ Consumed(c, [b EXCEPT !.pc = "check", !.valid = <<>>, !.left = 0, !.success = {},
                          !.first = times.first, !.last = times.last, !.due = due,
                          !.early = @ \/ due <= times.last])
  /\ UNCHANGED <<clock, tokens, auction, lost, late>>

\* BidResult.
Won(c) ==
  AmountOf(QueryByUserAndBidTime(tokens, c, "sold", buying[c].first, buying[c].last))

\* The next round may start at once, or when the battery is charged.
Check(c) ==
  LET b == buying[c] IN
  /\ b.pc = "check"
  /\ clock >= b.due
  /\ Consumed(c, [b EXCEPT !.pc = "ask", !.charged = @ + Won(c), !.due = 0,
                           !.first = 0, !.last = 0])
  /\ UNCHANGED <<clock, tokens, auction, lost, late>>

\* endTimer, in Consume, Bid and bidOnToken.
TimeUp(c) ==
  /\ clock = MarketEnd
  /\ buying[c].pc # "done"
  /\ Consumed(c, [Buying EXCEPT !.pc = "done", !.charged = buying[c].charged,
                             !.early = buying[c].early])
  /\ UNCHANGED <<clock, tokens, auction, lost, late>>

-----------------------------------------------------------------------------
Steps ==
  \/ Tick
  \/ \E g \in Gens : Create(g) \/ EndQuery(g) \/ EndSum(g)
  \/ \E g \in Gens : \E id \in auction[g].toEnd : EndToken(g, id)
  \/ \E c \in Bidders : Search(c) \/ AskAgain(c) \/ Tally(c) \/ Check(c) \/ TimeUp(c)
  \/ \E c \in Bidders : \E x \in buying[c].asked : SubmitBid(c, x)

SplitNext == Steps /\ Affordable

\* A token and what it was split into add up to what was generated, whoever bids
\* how often on what (BidOnToken, smartcontract.go:192-233).
EnergyIsConserved ==
  \A g \in Gens, n \in 0..(MaxTries - 1) :
    <<g, n>> \in DOMAIN tokens =>
      AmountOf({id \in DOMAIN tokens : SubSeq(id, 1, 2) = <<g, n>>}) = Output[g]

\* The query of the producer finds nothing but g's: one producer may create twice
\* in one instant.
Alone(g) ==
  \A id \in QueryByUserAndGeneratedTime(tokens, Makers[g], auction[g].born) : tokens[id].gen = g

\* A producer stops early only when no part of the token is left for sale, unless a
\* bid came late, the token was created twice or its query finds others too
\* (producerAppAuction.go:112-119).
SoldOutIsOver ==
  \A g \in Gens :
    auction[g].soldOut /\ auction[g].tries = 0 /\ late = 0 /\ Alone(g) =>
      \A id \in DOMAIN tokens : tokens[id].gen = g => tokens[id].status # "generated"

\* What a consumer counts, it owns: no token is counted twice, and none that was
\* outbid (consumerAppBuyResult.go:24-46), unless a bid came late.
ChargedIsOwned ==
  late = 0 => \A c \in Bidders :
    buying[c].charged <= AmountOf({id \in DOMAIN tokens :
                                     tokens[id].owner = c /\ tokens[id].status = "sold"})

\* No consumer is charged more than it wants, unless an answer was lost, a bid came
\* late, or a result was read at the time of its own bids, as happens when a token
\* has gone into another auction since it was found (consumerAppBuy.go:149-172).
NeverOverfull ==
  lost = 0 /\ late = 0 =>
    \A c \in Bidders : ~buying[c].early => buying[c].charged <= Goals[c]

\* The earlier market keeps the amounts of the tokens it splits, ends no auction
\* before all is sold, and charges no consumer more than it owns or wants
\* (b4-chaincode-go and application-gateway-go of b4/proposal).
SplitMarketWorks == EnergyIsConserved /\ SoldOutIsOver /\ ChargedIsOwned /\ NeverOverfull

=============================================================================
