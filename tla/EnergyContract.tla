--------------------------- MODULE EnergyContract ---------------------------
(***************************************************************************)
(* The chaincode of the energy market, chaincode/smartcontract.go of       *)
(* proposal/b4-chaincode-go-changed: every transaction function as an      *)
(* operator from a world state and its arguments to the outcome of its     *)
(* simulation by an endorsing peer.                                        *)
(*                                                                         *)
(* A world state is a function from keys to records or Absent.  The sets   *)
(* Cost, Token, Bid and the inputs are the records the applications make:  *)
(* kilowatt hours, prices, priorities and times are naturals.  The         *)
(* operators take any integer, as the functions check no sign.  A          *)
(* coordinate and a display name tell no property apart and are left out.  *)
(***************************************************************************)
EXTENDS Integers, Sequences, FiniteSets, FiniteSetsExt

CONSTANTS
  Categories,   \* small categories; each stands for its key "<small>-power-cost" too
  Green,        \* those whose large category is "green"; the rest are "depletable"
  Energies,     \* ids of energy tokens
  Bids,         \* ids of bid tokens
  Users,        \* names of producers and of bidders
  InitPrice,    \* unit price InitLedger writes
  ContractLife, \* the contract's tokenLife
  Window,       \* the contract's auctionInterval * 75 seconds
  OldId,        \* the id "old" a producer sends when it has no bid to settle
  Absent        \* a key without a value

Keys == Categories \cup Energies \cup Bids

\* Nothing reads the time of the last price, so it is left out.
Cost == [cat : Categories, price : Nat]

Token == [producer : Users, cat : Categories, amount : Nat,
          sold : Nat, status : {"generated", "sold", "old"}, gen : Nat,
          price : Nat]

\* A bid as BidOnEnergy is given it, and as it stands on the ledger.
BidInput == [energy : Energies, owner : Users, cat : Categories,
             bidAmount : Nat, price : Nat, prio : Nat, time : Nat]

NoProducer == "no producer"

Bid == [energy : Energies, owner : Users, cat : Categories,
        bidAmount : Nat, price : Nat, prio : Nat, time : Nat, amount : Nat,
        producer : Users \cup {NoProducer}, status : {"bid", "success"}]

ASSUME ContractAssumption ==
  /\ Green \subseteq Categories
  /\ IsFiniteSet(Bids)
  /\ Categories \cap Energies = {}
  /\ Categories \cap Bids = {}
  /\ Energies \cap Bids = {}
  /\ OldId \notin Bids
  /\ InitPrice \in Nat
  /\ ContractLife \in Nat
  /\ Window \in Nat
  /\ Absent \notin Cost \cup Token \cup Bid

\* The arguments of AuctionEnd: the token's part and one award per bid.
EndInput == [id : Energies, amount : Nat, time : Nat]
AwardInput == [id : Bids \cup {OldId}, amount : Nat]

-----------------------------------------------------------------------------
(* What a simulation returns: an error or a result, and the read and write  *)
(* set the peers validate and apply.  A function that returns an error is   *)
(* never submitted, so its writes are dropped.                              *)

NoWrite == [k \in {} |-> Absent]

Error(reads) ==
  [err |-> TRUE, msg |-> "error", reads |-> reads, writes |-> NoWrite]

Result(msg, reads, writes) ==
  [err |-> FALSE, msg |-> msg, reads |-> reads, writes |-> writes]

EmptyState == [k \in Keys |-> Absent]

\* A block's writes over the world state it is committed to.
Apply(s, writes) ==
  [k \in Keys |-> IF k \in DOMAIN writes THEN writes[k] ELSE s[k]]

EnergyExists(s, id) == s[id] # Absent

LargeCategory(cat) == IF cat \in Green THEN "green" ELSE "depletable"

InitLedger(s) ==
  Result("", {},
         [c \in Categories |-> [cat |-> c, price |-> InitPrice]])

\* Mutant: the record is put without being read.
UpdateUnitPriceUnread(s, cat, newUnitPrice) ==
  Result("", {}, [k \in {cat} |-> [s[cat] EXCEPT !.price = newUnitPrice]])

UpdateUnitPrice(s, cat, newUnitPrice) ==
  IF ~EnergyExists(s, cat)
  THEN Error({cat})
  ELSE Result("", {cat},
              [k \in {cat} |-> [s[cat] EXCEPT !.price = newUnitPrice]])

Generated(s, producer, amount, cat, time) ==
  [producer |-> producer, cat |-> cat, amount |-> amount,
   sold |-> 0, status |-> "generated", gen |-> time, price |-> s[cat].price]

\* Mutant: an id may be used again.
CreateEnergyTokenReusesIds(s, id, producer, amount, cat, time) ==
  IF ~EnergyExists(s, cat)
  THEN Error({cat, id})
  ELSE Result("created", {cat, id},
              [k \in {id} |-> Generated(s, producer, amount, cat, time)])

CreateEnergyToken(s, id, producer, amount, cat, time) ==
  IF ~EnergyExists(s, cat) \/ EnergyExists(s, id)
  THEN Error({cat, id})
  ELSE Result("created", {cat, id},
              [k \in {id} |-> Generated(s, producer, amount, cat, time)])

WrongCategory(token, in) ==
  /\ LargeCategory(token.cat) # LargeCategory(in.cat)
  /\ token.cat # in.cat

\* Mutant: a bid may overwrite another one.
BidRefusedUnlessNew(s, b, in) ==
  ~EnergyExists(s, in.energy) \/ WrongCategory(s[in.energy], in)

\* A bid is refused when its token is missing, when both its categories differ
\* from the token's, or when its id is taken.  The last two call err.Error()
\* on a nil error: the simulation dies, which is an error as well.
BidRefused(s, b, in) ==
  \/ ~EnergyExists(s, in.energy)
  \/ WrongCategory(s[in.energy], in)
  \/ EnergyExists(s, b)

\* Mutant: a bid is filed with the status of a token.
NewBidAsToken(in) ==
  [energy |-> in.energy, owner |-> in.owner, cat |-> in.cat,
   bidAmount |-> in.bidAmount, price |-> in.price, prio |-> in.prio,
   time |-> in.time, amount |-> 0, producer |-> NoProducer, status |-> "generated"]

NewBid(in) ==
  [energy |-> in.energy, owner |-> in.owner, cat |-> in.cat,
   bidAmount |-> in.bidAmount, price |-> in.price, prio |-> in.prio,
   time |-> in.time, amount |-> 0, producer |-> NoProducer, status |-> "bid"]

\* bidList maps the ids of the batch to their bids; one refused bid makes the
\* whole batch an error.
BidOnEnergy(s, bidList) ==
  LET ids   == DOMAIN bidList
      reads == ids \cup {bidList[b].energy : b \in ids}
  IN  IF \E b \in ids : BidRefused(s, b, bidList[b])
      THEN Error(reads)
      ELSE Result("bids", reads, [b \in ids |-> NewBid(bidList[b])])

-----------------------------------------------------------------------------
(* AuctionEnd: settle one tick of the auction of a token.                   *)

\* Older than tokenLife at the time the producer gives.
Expired(time, gen) == time - ContractLife > gen

\* Mutant: what is sold already is forgotten.
OversellsAlone(t, amount) == t.amount < amount

Oversells(t, amount) == t.amount < t.sold + amount

\* Mutant: a bid may be awarded more than it asked for.
AwardCheckAnyAmount(s, e, award) ==
  IF award.id = OldId THEN "the energy is alive"
  ELSE IF ~EnergyExists(s, award.id) THEN "error"
  ELSE IF s[award.id].energy # e THEN "energy ID is wrong"
  ELSE "fine"

\* The answer the loop over bidInput stops with at one of its elements, or
\* "fine".  A missing bid is an error, the others are results.
AwardCheck(s, e, award) ==
  IF award.id = OldId THEN "the energy is alive"
  ELSE IF ~EnergyExists(s, award.id) THEN "error"
  ELSE IF s[award.id].energy # e THEN "energy ID is wrong"
  ELSE IF award.amount > s[award.id].bidAmount THEN "bid amount is wrong"
  ELSE "fine"

AwardFlaws(s, e, bidInput) ==
  {i \in DOMAIN bidInput : AwardCheck(s, e, bidInput[i]) # "fine"}

Awarded(bidInput) == {bidInput[i].id : i \in DOMAIN bidInput}

\* A bid that is listed twice is read twice as it is on the ledger, and put twice:
\* the last award stays.
AwardTo(bidInput, b) ==
  bidInput[Max({i \in DOMAIN bidInput : bidInput[i].id = b})].amount

\* Mutant: the amount of this tick is compared instead of the sum.
AfterSaleOfTick(t, amount) ==
  [t EXCEPT !.sold = t.sold + amount,
            !.status = IF t.amount = amount THEN "sold" ELSE t.status]

\* Mutant: the amount of earlier ticks is lost.
AfterSaleForgetful(t, amount) ==
  [t EXCEPT !.sold = amount,
            !.status = IF t.amount = t.sold + amount THEN "sold" ELSE t.status]

AfterSale(t, amount) ==
  [t EXCEPT !.sold = t.sold + amount,
            !.status = IF t.amount = t.sold + amount THEN "sold" ELSE t.status]

AfterAward(bid, amount, producer) ==
  [bid EXCEPT !.amount = amount, !.producer = producer, !.status = "success"]

Settle(s, e, amount, bidInput) ==
  [k \in {e} \cup Awarded(bidInput) |->
     IF k = e THEN AfterSale(s[e], amount)
     ELSE AfterAward(s[k], AwardTo(bidInput, k), s[e].producer)]

OldMessage == "the energy was generated more than 30min ago. This was not sold."

\* The loop over bidInput stopped at a flawed element.
Stopped(s, e, bidInput, reads) ==
  LET answer == AwardCheck(s, e, bidInput[Min(AwardFlaws(s, e, bidInput))])
  IN  IF answer = "error" THEN Error(reads) ELSE Result(answer, reads, NoWrite)

\* The early returns in the code's order.
AuctionEnd(s, in, bidInput) ==
  LET e     == in.id
      t     == s[e]
      reads == {e} \cup (Awarded(bidInput) \ {OldId})
  IN  IF ~EnergyExists(s, e) THEN Error({e})
      ELSE IF Expired(in.time, t.gen) THEN
        Result(OldMessage, {e}, [k \in {e} |-> [t EXCEPT !.status = "old"]])
      ELSE IF Oversells(t, in.amount) THEN
        Result("energy amount is wrong", {e}, NoWrite)
      ELSE IF AwardFlaws(s, e, bidInput) # {} THEN Stopped(s, e, bidInput, reads)
      ELSE Result(IF t.amount = t.sold + in.amount
                  THEN "auction end" ELSE "auction continue",
                  reads, Settle(s, e, in.amount, bidInput))

-----------------------------------------------------------------------------
(* Queries, which are evaluated and never submitted.                        *)

\* Mutant: the bids of every token.
BidsOnAny(s, e) == {b \in Bids : s[b] # Absent}

BidsOn(s, e) == {b \in Bids : s[b] # Absent /\ s[b].energy = e}

\* Mutant: the window is 60 s.
AuctionEndQueryMinute(s, e, timestamp) ==
  {b \in BidsOn(s, e) : /\ s[b].status = "bid"
                        /\ timestamp - (Window * 4) \div 5 <= s[b].time
                        /\ s[b].time < timestamp}

\* The bids of [timestamp - 75 s, timestamp - 1 ns] that nobody has settled.
AuctionEndQuery(s, e, timestamp) ==
  {b \in BidsOn(s, e) : /\ s[b].status = "bid"
                        /\ timestamp - Window <= s[b].time
                        /\ s[b].time < timestamp}

\* Bids of any status that rank at least as high as (price, prio) on e.
Rivals(s, e, price, prio) ==
  {b \in BidsOn(s, e) : \/ s[b].price > price
                        \/ s[b].price = price /\ s[b].prio >= prio}

BidOk(s, e, price, prio) ==
  \/ \A b \in BidsOn(s, e) : s[b].price < price
  \/ MapThenSumSet(LAMBDA b : s[b].bidAmount, Rivals(s, e, price, prio))
       < s[e].amount - s[e].sold

\* Every consumer is within the 200 km it searches of every token.
QueryByLocationRange(s) ==
  {e \in Energies : s[e] # Absent /\ s[e].status = "generated"}

-----------------------------------------------------------------------------
(* A transaction as a client submits it, and what its simulation yields.    *)

BatchInputs == UNION {[S -> BidInput] : S \in (SUBSET Bids) \ {{}}}

Requests ==
  [op : {"InitLedger"}]
  \cup [op : {"UpdateUnitPrice"}, cat : Categories, price : Nat]
  \cup [op : {"CreateEnergyToken"}, id : Energies, producer : Users,
        amount : Nat, cat : Categories, time : Nat]
  \cup [op : {"BidOnEnergy"}, bidList : BatchInputs]
  \cup [op : {"AuctionEnd"}, in : EndInput, bidInput : Seq(AwardInput)]

Execute(s, req) ==
  CASE req.op = "InitLedger" -> InitLedger(s)
    [] req.op = "UpdateUnitPrice" -> UpdateUnitPrice(s, req.cat, req.price)
    [] req.op = "CreateEnergyToken" ->
         CreateEnergyToken(s, req.id, req.producer, req.amount, req.cat, req.time)
    [] req.op = "BidOnEnergy" -> BidOnEnergy(s, req.bidList)
    [] req.op = "AuctionEnd" -> AuctionEnd(s, req.in, req.bidInput)

=============================================================================
