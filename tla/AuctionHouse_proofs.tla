------------------------- MODULE AuctionHouse_proofs -------------------------
(* For any producers, buyers, tokens and bids, and any delays, failures and   *)
(* retries: a transaction that commits writes what its function would write   *)
(* if it were executed then; and a settled bid, the last answer to an auction *)
(* and the bids a buyer counts on stay as they are.                           *)
EXTENDS AuctionHouse, Sums_proofs, SequenceTheorems

-----------------------------------------------------------------------------
(* A contract function depends on the keys of its read set and on no others.  *)

LEMMA PriceIsLocal ==
  ASSUME NEW s, NEW t, NEW cat, NEW p,
         \A k \in UpdateUnitPrice(s, cat, p).reads : s[k] = t[k]
  PROVE  UpdateUnitPrice(t, cat, p) = UpdateUnitPrice(s, cat, p)
<1>1. UpdateUnitPrice(s, cat, p).reads = {cat}
  BY DEF UpdateUnitPrice, Error, Result
<1>2. s[cat] = t[cat]
  BY <1>1
<1> QED
  BY <1>2 DEF UpdateUnitPrice, EnergyExists

LEMMA CreationIsLocal ==
  ASSUME NEW s, NEW t, NEW id, NEW u, NEW n, NEW cat, NEW time,
         \A k \in CreateEnergyToken(s, id, u, n, cat, time).reads : s[k] = t[k]
  PROVE  CreateEnergyToken(t, id, u, n, cat, time) = CreateEnergyToken(s, id, u, n, cat, time)
<1>1. CreateEnergyToken(s, id, u, n, cat, time).reads = {cat, id}
  BY DEF CreateEnergyToken, Error, Result
<1>2. s[cat] = t[cat] /\ s[id] = t[id]
  BY <1>1
<1> QED
  BY <1>2 DEF CreateEnergyToken, EnergyExists, Generated

LEMMA BidsAreLocal ==
  ASSUME NEW s, NEW t, NEW bidList,
         \A k \in BidOnEnergy(s, bidList).reads : s[k] = t[k]
  PROVE  BidOnEnergy(t, bidList) = BidOnEnergy(s, bidList)
<1> DEFINE ids == DOMAIN bidList
           reads == ids \cup {bidList[b].energy : b \in ids}
<1>1. BidOnEnergy(s, bidList).reads = reads
  BY DEF BidOnEnergy, Error, Result
<1>2. ASSUME NEW b \in ids
      PROVE  BidRefused(s, b, bidList[b]) <=> BidRefused(t, b, bidList[b])
  <2>1. s[b] = t[b] /\ s[bidList[b].energy] = t[bidList[b].energy]
    BY <1>1
  <2> QED
    BY <2>1 DEF BidRefused, EnergyExists
<1>3. (\E b \in ids : BidRefused(s, b, bidList[b])) <=> \E b \in ids : BidRefused(t, b, bidList[b])
  BY <1>2
<1> QED
  BY <1>3 DEF BidOnEnergy

LEMMA SettlementIsLocal ==
  ASSUME NEW s, NEW t, NEW in, NEW bidInput, DOMAIN bidInput \subseteq Nat,
         \A k \in AuctionEnd(s, in, bidInput).reads : s[k] = t[k]
  PROVE  AuctionEnd(t, in, bidInput) = AuctionEnd(s, in, bidInput)
<1> DEFINE e == in.id
           reads == {e} \cup (Awarded(bidInput) \ {OldId})
<1>1. AuctionEnd(s, in, bidInput).reads \in {{e}, reads}
  BY DEF AuctionEnd, Error, Result, Stopped
<1>2. s[e] = t[e]
  BY <1>1
<1>3. CASE \/ ~EnergyExists(s, e)
           \/ Expired(in.time, s[e].gen)
           \/ Oversells(s[e], in.amount)
  BY <1>2, <1>3 DEF AuctionEnd, EnergyExists
<1>4. CASE /\ EnergyExists(s, e)
           /\ ~Expired(in.time, s[e].gen)
           /\ ~Oversells(s[e], in.amount)
  <2>1. AuctionEnd(s, in, bidInput).reads = reads
    BY <1>4 DEF AuctionEnd, Error, Result, Stopped
  <2>2. ASSUME NEW k \in Awarded(bidInput), k # OldId
        PROVE  s[k] = t[k]
    BY <2>1, <2>2
  <2>3. ASSUME NEW i \in DOMAIN bidInput
        PROVE  AwardCheck(s, e, bidInput[i]) = AwardCheck(t, e, bidInput[i])
    <3>1. bidInput[i].id # OldId => s[bidInput[i].id] = t[bidInput[i].id]
      BY <2>2 DEF Awarded
    <3> QED
      BY <3>1 DEF AwardCheck, EnergyExists
  <2>4. AwardFlaws(s, e, bidInput) = AwardFlaws(t, e, bidInput)
    BY <2>3 DEF AwardFlaws
  <2>5. CASE AwardFlaws(s, e, bidInput) = {}
    <3>1. OldId \notin Awarded(bidInput)
      BY <2>5 DEF AwardFlaws, AwardCheck, Awarded
    <3>2. Settle(s, e, in.amount, bidInput) = Settle(t, e, in.amount, bidInput)
      BY <1>2, <2>2, <3>1 DEF Settle
    <3> QED
      BY <1>2, <1>4, <2>4, <2>5, <3>2 DEF AuctionEnd, EnergyExists
  <2>6. CASE AwardFlaws(s, e, bidInput) # {}
    <3>1. Stopped(s, e, bidInput, reads) = Stopped(t, e, bidInput, reads)
      <4> DEFINE first == Min(AwardFlaws(s, e, bidInput))
      <4>1. AwardFlaws(s, e, bidInput) \in SUBSET Nat
        BY DEF AwardFlaws
      <4>2. PICK least \in AwardFlaws(s, e, bidInput) :
              \A i \in AwardFlaws(s, e, bidInput) : least =< i
        BY <2>6, <4>1, LeastOf
      <4>3. first \in AwardFlaws(s, e, bidInput)
        BY <4>2 DEF Min
      <4>4. first \in DOMAIN bidInput
        BY <4>3 DEF AwardFlaws
      <4> HIDE DEF first
      <4>5. AwardCheck(s, e, bidInput[first]) = AwardCheck(t, e, bidInput[first])
        BY <2>3, <4>4
      <4> QED
        BY <2>4, <4>5 DEF Stopped, first
    <3> QED
      BY <1>2, <1>4, <2>4, <2>6, <3>1 DEF AuctionEnd, EnergyExists
  <2> QED
    BY <2>5, <2>6
<1> QED
  BY <1>3, <1>4

Ops == {"InitLedger", "UpdateUnitPrice", "CreateEnergyToken", "BidOnEnergy", "AuctionEnd"}

LEMMA ExecutionIsLocal ==
  ASSUME NEW s, NEW t, NEW req, req.op \in Ops,
         req.op = "AuctionEnd" => DOMAIN req.bidInput \subseteq Nat,
         \A k \in Execute(s, req).reads : s[k] = t[k]
  PROVE  Execute(t, req) = Execute(s, req)
<1>1. CASE req.op = "InitLedger"
  BY <1>1 DEF Execute, InitLedger
<1>2. CASE req.op = "UpdateUnitPrice"
  BY <1>2, PriceIsLocal DEF Execute
<1>3. CASE req.op = "CreateEnergyToken"
  BY <1>3, CreationIsLocal DEF Execute
<1>4. CASE req.op = "BidOnEnergy"
  BY <1>4, BidsAreLocal DEF Execute
<1>5. CASE req.op = "AuctionEnd"
  BY <1>5, SettlementIsLocal DEF Execute
<1> QED
  BY <1>1, <1>2, <1>3, <1>4, <1>5 DEF Ops

-----------------------------------------------------------------------------
(* What the market keeps on the ledger and what it sends there.               *)

HousePrices == {p + x : p \in UnitPrices, x \in Extras}

HouseCost == [cat : Categories, price : UnitPrices]
HouseToken ==
  [producer : Users, cat : Categories, amount : Portions, sold : Nat,
   status : {"generated", "sold", "old"}, gen : Clock, price : UnitPrices]
HouseBid ==
  [energy : Energies, owner : Users, cat : Categories, bidAmount : Portions,
   price : HousePrices, prio : Prios, time : Clock, amount : Nat,
   producer : Users \cup {NoProducer}, status : {"bid", "success"}]

World(s) ==
  /\ s = [k \in Keys |-> s[k]]
  /\ \A c \in Categories : s[c] \in HouseCost
  /\ \A e \in Energies : s[e] \in HouseToken \cup {Absent}
  /\ \A b \in Bids : s[b] \in HouseBid \cup {Absent}

Creations ==
  [op : {"CreateEnergyToken"}, id : Energies, producer : Users,
   amount : Portions, cat : Categories, time : Clock]
Placements == [op : {"BidOnEnergy"}, bidList : HouseBatches]
Settlements ==
  [op : {"AuctionEnd"}, bidInput : HouseAwards,
   in : [id : Energies, amount : Portions \cup {0}, time : Clock]]
HouseRequests == Creations \cup Placements \cup Settlements

LEMMA KeyKinds ==
  /\ Categories \cap Energies = {} /\ Categories \cap Bids = {} /\ Energies \cap Bids = {}
  /\ Categories \subseteq Keys /\ Energies \subseteq Keys /\ Bids \subseteq Keys
  /\ \A k \in Keys : k \in Categories \/ k \in Energies \/ k \in Bids
  /\ OldId \notin Bids
BY ContractAssumption DEF Keys

LEMMA Numbers ==
  /\ Portions \subseteq Nat \ {0}
  /\ \A m \in Makers : Output[m] \in Nat \ {0} /\ 1..Output[m] \subseteq Portions /\ Output[m] \in Portions
  /\ \A n \in Portions : 1..n \subseteq Portions
  /\ UnitPrices \subseteq Nat
  /\ HousePrices \subseteq Nat
  /\ EndTime \in Nat /\ Clock \subseteq Nat
<1>1. \A m \in Makers : Output[m] \in Nat \ {0} /\ 1..Output[m] \subseteq Portions /\ Output[m] \in Portions
  <2>1. SUFFICES ASSUME NEW m \in Makers
                 PROVE  Output[m] \in Nat \ {0} /\ 1..Output[m] \subseteq Portions /\ Output[m] \in Portions
    OBVIOUS
  <2>2. Output[m] \in Nat \ {0}
    BY ProducerAssumption
  <2>3. Output[m] \in 1..Output[m]
    BY <2>2
  <2> QED BY <2>2, <2>3 DEF Portions
<1>2. ASSUME NEW n \in Portions PROVE n \in Nat \ {0} /\ 1..n \subseteq Portions
  <2>1. PICK m \in Makers : n \in 1..Output[m]
    BY DEF Portions
  <2>2. n \in Nat \ {0} /\ 1..n \subseteq 1..Output[m]
    BY <1>1, <2>1
  <2> QED BY <1>1, <2>2
<1>3. UnitPrices \subseteq Nat
  BY ContractAssumption, HouseAssumption DEF UnitPrices
<1>4. HousePrices \subseteq Nat
  BY <1>3, HouseAssumption DEF HousePrices
<1>5. EndTime \in Nat /\ Clock \subseteq Nat
  BY GatewayAssumption DEF Clock
<1> QED BY <1>1, <1>2, <1>3, <1>4, <1>5

\* Absent is no record of the market.
LEMMA NoRecordIsAbsent == Absent \notin HouseCost \cup HouseToken \cup HouseBid
<1>1. HouseCost \subseteq Cost
  BY Numbers DEF HouseCost, Cost
<1>2. HouseToken \subseteq Token
  <2>1. ASSUME NEW t \in HouseToken PROVE t \in Token
    BY Numbers DEF HouseToken, Token
  <2> QED BY <2>1
<1>3. HouseBid \subseteq Bid
  <2>1. HousePrices \subseteq Nat /\ Prios \subseteq Nat /\ Portions \subseteq Nat /\ Clock \subseteq Nat
    BY Numbers, HouseAssumption
  <2>2. ASSUME NEW b \in HouseBid PROVE b \in Bid
    BY <2>1 DEF HouseBid, Bid
  <2> QED BY <2>2
<1> QED BY <1>1, <1>2, <1>3, ContractAssumption

\* An award list has bids, each once, or the id that stands for none.
LEMMA AwardFacts ==
  ASSUME NEW list \in HouseAwards
  PROVE  /\ DOMAIN list \subseteq Nat
         /\ Awarded(list) \subseteq Bids \cup {OldId}
         /\ \A i \in DOMAIN list : list[i].id \in Bids \cup {OldId} /\ list[i].amount \in Nat
         /\ \A i \in DOMAIN list : AwardTo(list, list[i].id) = list[i].amount
<1>1. \/ list = <<[id |-> OldId, amount |-> 0]>>
      \/ \E n \in 1..Cardinality(Bids) : list \in [1..n -> [id : Bids, amount : Portions]]
  BY DEF HouseAwards
<1>2. DOMAIN list \subseteq Nat /\ \A i \in DOMAIN list : list[i].id \in Bids \cup {OldId} /\ list[i].amount \in Nat
  <2>1. CASE list = <<[id |-> OldId, amount |-> 0]>>
    BY <2>1
  <2>2. CASE \E n \in 1..Cardinality(Bids) : list \in [1..n -> [id : Bids, amount : Portions]]
    <3>1. PICK n \in 1..Cardinality(Bids) : list \in [1..n -> [id : Bids, amount : Portions]]
      BY <2>2
    <3>2. DOMAIN list = 1..n /\ \A i \in 1..n : list[i] \in [id : Bids, amount : Portions]
      BY <3>1
    <3>3. \A i \in DOMAIN list : list[i].id \in Bids /\ list[i].amount \in Portions
      BY <3>2
    <3>4. DOMAIN list \subseteq Nat
      BY <3>2
    <3> QED BY <3>3, <3>4, Numbers
  <2> QED BY <1>1, <2>1, <2>2
<1>3. \A i, j \in DOMAIN list : i # j => list[i].id # list[j].id
  <2>1. CASE list = <<[id |-> OldId, amount |-> 0]>>
    BY <2>1
  <2> QED BY <2>1 DEF HouseAwards
<1>4. ASSUME NEW i \in DOMAIN list PROVE AwardTo(list, list[i].id) = list[i].amount
  <2> DEFINE S == {j \in DOMAIN list : list[j].id = list[i].id}
  <2>1. S = {i} /\ i \in Nat
    BY <1>2, <1>3
  <2>2. S \in SUBSET Nat /\ S # {} /\ \A j \in S : j <= i
    BY <2>1
  <2>3. Max(S) = i
    <3> HIDE DEF S
    <3>1. Max(S) \in S
      BY <2>1, <2>2, GreatestOf
    <3> QED BY <2>1, <3>1
  <2> QED BY <2>3 DEF AwardTo
<1> QED BY <1>2, <1>4 DEF Awarded

-----------------------------------------------------------------------------
(* What the functions return in such a world.                                 *)

GoodWrites(w) ==
  /\ DOMAIN w \subseteq Keys
  /\ \A c \in Categories : c \in DOMAIN w => w[c] \in HouseCost
  /\ \A e \in Energies : e \in DOMAIN w => w[e] \in HouseToken
  /\ \A b \in Bids : b \in DOMAIN w => w[b] \in HouseBid

GoodOutcome(out) ==
  /\ out.err \in BOOLEAN
  /\ out.reads \subseteq Keys
  /\ GoodWrites(out.writes)

\* Writes of the right kind keep the world as it should be.
LEMMA ApplyWorld ==
  ASSUME NEW s, World(s), NEW w, GoodWrites(w)
  PROVE  /\ World(Apply(s, w))
         /\ \A k \in Keys : Apply(s, w)[k] = IF k \in DOMAIN w THEN w[k] ELSE s[k]
<1>1. \A k \in Keys : Apply(s, w)[k] = IF k \in DOMAIN w THEN w[k] ELSE s[k]
  BY DEF Apply
<1>2. Apply(s, w) = [k \in Keys |-> Apply(s, w)[k]]
  BY DEF Apply
<1>3. \A c \in Categories : Apply(s, w)[c] \in HouseCost
  BY <1>1, KeyKinds DEF World, GoodWrites
<1>4. \A e \in Energies : Apply(s, w)[e] \in HouseToken \cup {Absent}
  BY <1>1, KeyKinds DEF World, GoodWrites
<1>5. \A b \in Bids : Apply(s, w)[b] \in HouseBid \cup {Absent}
  BY <1>1, KeyKinds DEF World, GoodWrites
<1> QED BY <1>1, <1>2, <1>3, <1>4, <1>5 DEF World

LEMMA OutcomeOf ==
  ASSUME NEW err \in BOOLEAN, NEW msg, NEW reads, reads \subseteq Keys,
         NEW w, GoodWrites(w)
  PROVE  GoodOutcome([err |-> err, msg |-> msg, reads |-> reads, writes |-> w])
<1> DEFINE out == [err |-> err, msg |-> msg, reads |-> reads, writes |-> w]
<1>1. out.err = err /\ out.msg = msg /\ out.reads = reads /\ out.writes = w
  OBVIOUS
<1>2. GoodWrites(out.writes)
  BY <1>1
<1> HIDE DEF out
<1>3. GoodOutcome(out)
  BY <1>1, <1>2 DEF GoodOutcome
<1> QED BY <1>3 DEF out

\* Nothing is written by an error or a refusal.
LEMMA NothingWritten ==
  /\ GoodWrites(NoWrite)
  /\ \A reads \in SUBSET Keys : GoodOutcome(Error(reads))
  /\ \A reads \in SUBSET Keys : \A msg : GoodOutcome(Result(msg, reads, NoWrite))
<1>1. GoodWrites(NoWrite)
  BY DEF GoodWrites, NoWrite
<1>2. ASSUME NEW reads \in SUBSET Keys PROVE GoodOutcome(Error(reads))
  BY <1>1, OutcomeOf DEF Error
<1>3. ASSUME NEW reads \in SUBSET Keys, NEW msg PROVE GoodOutcome(Result(msg, reads, NoWrite))
  BY <1>1, OutcomeOf DEF Result
<1> QED BY <1>1, <1>2, <1>3

LEMMA PriceOutcome ==
  ASSUME NEW s, World(s), NEW cat \in Categories, NEW p \in NewPrices
  PROVE  GoodOutcome(UpdateUnitPrice(s, cat, p))
<1>1. {cat} \subseteq Keys
  BY KeyKinds
<1>2. CASE ~EnergyExists(s, cat)
  BY <1>1, <1>2, NothingWritten DEF UpdateUnitPrice
<1>3. CASE EnergyExists(s, cat)
  <2> DEFINE w == [k \in {cat} |-> [s[cat] EXCEPT !.price = p]]
  <2>1. s[cat] \in HouseCost /\ p \in UnitPrices
    BY DEF World, UnitPrices
  <2>2. w[cat] \in HouseCost
    BY <2>1 DEF HouseCost
  <2>3. GoodWrites(w)
    BY <1>1, <2>2, KeyKinds DEF GoodWrites
  <2>4. UpdateUnitPrice(s, cat, p) = Result("", {cat}, w)
    BY <1>3 DEF UpdateUnitPrice
  <2> HIDE DEF w
  <2> QED BY <1>1, <2>3, <2>4, OutcomeOf DEF Result
<1> QED BY <1>2, <1>3

LEMMA CreationOutcome ==
  ASSUME NEW s, World(s), NEW id \in Energies, NEW u \in Users, NEW n \in Portions,
         NEW cat \in Categories, NEW time \in Clock
  PROVE  GoodOutcome(CreateEnergyToken(s, id, u, n, cat, time))
<1>1. {cat, id} \subseteq Keys
  BY KeyKinds
<1>2. CASE ~EnergyExists(s, cat) \/ EnergyExists(s, id)
  BY <1>1, <1>2, NothingWritten DEF CreateEnergyToken
<1>3. CASE ~(~EnergyExists(s, cat) \/ EnergyExists(s, id))
  <2> DEFINE w == [k \in {id} |-> Generated(s, u, n, cat, time)]
  <2>1. s[cat] \in HouseCost
    BY DEF World
  <2>2. w[id] \in HouseToken
    BY <2>1 DEF HouseCost, HouseToken, Generated
  <2>3. GoodWrites(w)
    BY <1>1, <2>2, KeyKinds DEF GoodWrites
  <2>4. CreateEnergyToken(s, id, u, n, cat, time) = Result("created", {cat, id}, w)
    BY <1>3 DEF CreateEnergyToken
  <2> HIDE DEF w
  <2> QED BY <1>1, <2>3, <2>4, OutcomeOf DEF Result
<1> QED BY <1>2, <1>3

LEMMA BidsOutcome ==
  ASSUME NEW s, World(s), NEW bidList \in HouseBatches
  PROVE  /\ GoodOutcome(BidOnEnergy(s, bidList))
         /\ DOMAIN bidList \in (SUBSET Bids) \ {{}}
         /\ \A b \in DOMAIN bidList : bidList[b] \in HouseBids
<1>1. PICK S \in SUBSET Bids : Cardinality(S) \in 1..MaxBatch /\ bidList \in [S -> HouseBids]
  BY DEF HouseBatches
<1>2. DOMAIN bidList \in SUBSET Bids /\ \A b \in DOMAIN bidList : bidList[b] \in HouseBids
  BY <1>1
<1>3. DOMAIN bidList # {}
  BY <1>1, FS_EmptySet, HouseAssumption
<1> DEFINE ids == DOMAIN bidList
           reads == ids \cup {bidList[b].energy : b \in ids}
<1>4. reads \subseteq Keys
  <2>1. \A b \in ids : bidList[b].energy \in Energies
    BY <1>2 DEF HouseBids
  <2> QED BY <1>2, <2>1, KeyKinds
<1>5. CASE \E b \in ids : BidRefused(s, b, bidList[b])
  <2>1. BidOnEnergy(s, bidList) = Error(reads)
    BY <1>5 DEF BidOnEnergy
  <2> QED BY <1>2, <1>3, <1>4, <2>1, NothingWritten
<1>6. CASE ~\E b \in ids : BidRefused(s, b, bidList[b])
  <2> DEFINE w == [b \in ids |-> NewBid(bidList[b])]
  <2>1. ASSUME NEW b \in ids PROVE w[b] \in HouseBid
    <3>1. bidList[b] \in HouseBids
      BY <1>2
    <3>2. NewBid(bidList[b]) \in HouseBid
      BY <3>1 DEF HouseBids, HouseBid, HousePrices, NewBid
    <3> QED BY <3>2
  <2>2. GoodWrites(w)
    BY <1>2, <2>1, KeyKinds DEF GoodWrites
  <2>3. BidOnEnergy(s, bidList) = Result("bids", reads, w)
    BY <1>6 DEF BidOnEnergy
  <2> HIDE DEF w
  <2> QED BY <1>2, <1>3, <1>4, <2>2, <2>3, OutcomeOf DEF Result
<1> QED BY <1>5, <1>6

LEMMA SettlementOutcome ==
  ASSUME NEW s, World(s), NEW bidInput \in HouseAwards,
         NEW in \in [id : Energies, amount : Portions \cup {0}, time : Clock]
  PROVE  GoodOutcome(AuctionEnd(s, in, bidInput))
<1> DEFINE e == in.id
           reads == {e} \cup (Awarded(bidInput) \ {OldId})
<1>1. /\ e \in Energies /\ e \in Keys /\ in.amount \in Nat /\ in.time \in Nat
      /\ {e} \subseteq Keys /\ reads \subseteq Keys
  <2>1. e \in Energies /\ in.amount \in Portions \cup {0} /\ in.time \in Clock
    OBVIOUS
  <2> HIDE DEF e
  <2>2. e \in Keys /\ in.amount \in Nat /\ in.time \in Nat
    <3>1. e \in Keys
      BY <2>1, KeyKinds
    <3>2. Portions \cup {0} \subseteq Nat
      BY Numbers
    <3>3. in.amount \in Nat
      BY <2>1, <3>2, Zenon
    <3>4. in.time \in Nat
      BY <2>1, Numbers, Zenon
    <3> QED BY <3>1, <3>3, <3>4
  <2>3. Awarded(bidInput) \subseteq Bids \cup {OldId}
    BY AwardFacts
  <2>4. reads \subseteq Keys
    BY <2>2, <2>3, KeyKinds
  <2> QED BY <2>1, <2>2, <2>4 DEF e
<1>2. CASE ~EnergyExists(s, e)
  <2>1. AuctionEnd(s, in, bidInput) = Error({e})
    BY <1>2 DEF AuctionEnd
  <2> QED BY <1>1, <2>1, NothingWritten
<1>3. CASE EnergyExists(s, e)
  <2>1. s[e] \in HouseToken
    BY <1>1, <1>3 DEF World, EnergyExists
  <2>2. CASE Expired(in.time, s[e].gen)
    <3> DEFINE w == [k \in {e} |-> [s[e] EXCEPT !.status = "old"]]
    <3>1. w[e] \in HouseToken
      BY <2>1 DEF HouseToken
    <3>2. GoodWrites(w)
      BY <1>1, <3>1, KeyKinds DEF GoodWrites
    <3>3. AuctionEnd(s, in, bidInput) = Result(OldMessage, {e}, w)
      BY <1>3, <2>2 DEF AuctionEnd
    <3> HIDE DEF w
    <3> QED BY <1>1, <3>2, <3>3, OutcomeOf DEF Result
  <2>3. CASE ~Expired(in.time, s[e].gen) /\ Oversells(s[e], in.amount)
    <3>1. AuctionEnd(s, in, bidInput) = Result("energy amount is wrong", {e}, NoWrite)
      BY <1>3, <2>3 DEF AuctionEnd
    <3> QED BY <1>1, <3>1, NothingWritten
  <2>4. CASE /\ ~Expired(in.time, s[e].gen) /\ ~Oversells(s[e], in.amount)
             /\ AwardFlaws(s, e, bidInput) # {}
    <3>1. AuctionEnd(s, in, bidInput) = Stopped(s, e, bidInput, reads)
      BY <1>3, <2>4 DEF AuctionEnd
    <3>2. \/ AuctionEnd(s, in, bidInput) = Error(reads)
          \/ \E msg : AuctionEnd(s, in, bidInput) = Result(msg, reads, NoWrite)
      BY <3>1 DEF Stopped
    <3> HIDE DEF reads
    <3> QED BY <1>1, <3>2, NothingWritten
  <2>5. CASE /\ ~Expired(in.time, s[e].gen) /\ ~Oversells(s[e], in.amount)
             /\ AwardFlaws(s, e, bidInput) = {}
    <3> DEFINE w == Settle(s, e, in.amount, bidInput)
    <3>1. \E msg : AuctionEnd(s, in, bidInput) = Result(msg, reads, w)
      BY <1>3, <2>5 DEF AuctionEnd
    <3>2. \A i \in DOMAIN bidInput : bidInput[i].id \in Bids /\ s[bidInput[i].id] # Absent
      BY <2>5, AwardFacts DEF AwardFlaws, AwardCheck, EnergyExists
    <3>3. DOMAIN w = {e} \cup Awarded(bidInput) /\ Awarded(bidInput) \subseteq Bids
      BY <3>2 DEF Settle, Awarded
    <3>4. w[e] \in HouseToken
      <4>1. w[e] = AfterSale(s[e], in.amount)
        BY DEF Settle
      <4>2. s[e].sold + in.amount \in Nat
        BY <1>1, <2>1 DEF HouseToken
      <4> QED BY <2>1, <4>1, <4>2 DEF AfterSale, HouseToken
    <3>5. ASSUME NEW b \in Bids, b \in DOMAIN w PROVE w[b] \in HouseBid
      <4>1. b # e
        BY <1>1, KeyKinds
      <4>2. PICK i \in DOMAIN bidInput : b = bidInput[i].id
        BY <3>3, <3>5, <4>1 DEF Awarded
      <4>3. w[b] = AfterAward(s[b], bidInput[i].amount, s[e].producer)
        BY <3>3, <3>5, <4>1, <4>2, AwardFacts DEF Settle
      <4>4. s[b] \in HouseBid
        BY <3>2, <4>2 DEF World
      <4>5. bidInput[i].amount \in Nat /\ s[e].producer \in Users
        BY <2>1, AwardFacts DEF HouseToken
      <4> QED BY <4>3, <4>4, <4>5 DEF AfterAward, HouseBid
    <3>6. GoodWrites(w)
      BY <1>1, <3>3, <3>4, <3>5, KeyKinds DEF GoodWrites
    <3> HIDE DEF w, reads
    <3> QED BY <1>1, <3>1, <3>6, OutcomeOf DEF Result
  <2> QED BY <2>2, <2>3, <2>4, <2>5
<1> QED BY <1>2, <1>3

\* Every request of the market is one ExecutionIsLocal is about, and its outcome
\* is a good one.
LEMMA RequestOutcome ==
  ASSUME NEW s, World(s), NEW req \in HouseRequests
  PROVE  /\ req.op \in Ops
         /\ req.op = "AuctionEnd" => DOMAIN req.bidInput \subseteq Nat
         /\ GoodOutcome(Execute(s, req))
<1>1. CASE req \in Creations
  <2>1. /\ req.op = "CreateEnergyToken" /\ req.id \in Energies /\ req.producer \in Users
        /\ req.amount \in Portions /\ req.cat \in Categories /\ req.time \in Clock
    BY <1>1 DEF Creations
  <2>2. Execute(s, req)
          = CreateEnergyToken(s, req.id, req.producer, req.amount, req.cat, req.time)
    BY <2>1 DEF Execute
  <2> QED BY <2>1, <2>2, CreationOutcome DEF Ops
<1>2. CASE req \in Placements
  <2>1. req.op = "BidOnEnergy" /\ req.bidList \in HouseBatches
    BY <1>2 DEF Placements
  <2>2. Execute(s, req) = BidOnEnergy(s, req.bidList)
    BY <2>1 DEF Execute
  <2> QED BY <2>1, <2>2, BidsOutcome DEF Ops
<1>3. CASE req \in Settlements
  <2>1. /\ req.op = "AuctionEnd" /\ req.bidInput \in HouseAwards
        /\ req.in \in [id : Energies, amount : Portions \cup {0}, time : Clock]
    BY <1>3 DEF Settlements
  <2>2. Execute(s, req) = AuctionEnd(s, req.in, req.bidInput)
    BY <2>1 DEF Execute
  <2> QED BY <2>1, <2>2, SettlementOutcome, AwardFacts DEF Ops
<1> QED BY <1>1, <1>2, <1>3 DEF HouseRequests

-----------------------------------------------------------------------------
(* The inductive invariant.  EndorsementStaysValid is not inductive alone: a  *)
(* submission adds what executing a request returns, so the requests the      *)
(* programs will make have to be known, and with them what the programs keep. *)

TxFields == {"client", "req", "reads", "writes", "msg", "stale", "awaited"}
AuctionFields ==
  {"pc", "id", "gen", "tries", "ticks", "due", "ts", "offer", "amount", "isSold", "last"}
BasketFields == {"pc", "list", "tries", "drawn", "placed"}

\* Executing the request of tx in s does what tx was endorsed to do.
Endorsed(tx, s) ==
  LET out == Execute(s, tx.req)
  IN  ~out.err /\ out.reads = tx.reads /\ out.writes = tx.writes /\ out.msg = tx.msg

\* A transaction of the pool over the world state s.
TxOK(tx, s) ==
  /\ DOMAIN tx = TxFields
  /\ tx.client \in Clients
  /\ tx.req \in HouseRequests
  /\ tx.stale \in BOOLEAN
  /\ tx.awaited \in BOOLEAN
  /\ tx.reads \subseteq Keys
  /\ GoodWrites(tx.writes)
  /\ ~tx.stale => Endorsed(tx, s)

PoolOK(txs, s) == \A tx \in txs : TxOK(tx, s)

\* A producer's goroutine has a token of its own and a list the contract may be
\* sent.
AuctionOK(a, m) ==
  /\ DOMAIN a = AuctionFields
  /\ a.gen \in Clock
  /\ a.ts \in Clock
  /\ a.amount \in Portions \cup {0}
  /\ a.pc \in {"creating", "wait", "query", "submit", "submitted"} => a.id \in TokenIds[m]
  /\ a.pc \in {"submit", "submitted"} => a.offer \in HouseAwards

AuctionsOK(as) ==
  /\ as = [m \in Makers |-> as[m]]
  /\ \A m \in Makers : AuctionOK(as[m], m)

\* A buyer's goroutine has a batch the contract may be sent.
BasketOK(k) ==
  /\ DOMAIN k = BasketFields
  /\ k.drawn \in Nat
  /\ k.pc \in {"send", "sent"} => k.list \in HouseBatches

BasketsOK(ks) ==
  /\ ks = [c \in Buyers |-> ks[c]]
  /\ \A c \in Buyers : BasketOK(ks[c])

HouseInv ==
  /\ now \in Clock
  /\ World(ws)
  /\ PoolOK(pool, ws)
  /\ AuctionsOK(auction)
  /\ BasketsOK(basket)

-----------------------------------------------------------------------------
(* Steps of the network.                                                      *)

\* A transaction whose reads nobody wrote stays what it was, and a stale one
\* promises nothing.
LEMMA TxStays ==
  ASSUME NEW s, World(s), NEW w, GoodWrites(w), NEW tx, TxOK(tx, s)
  PROVE  TxOK([tx EXCEPT !.stale = tx.stale \/ tx.reads \cap DOMAIN w # {}], Apply(s, w))
<1> DEFINE stale == tx.stale \/ tx.reads \cap DOMAIN w # {}
           next == [tx EXCEPT !.stale = stale]
<1>1. stale \in BOOLEAN
  BY DEF TxOK
<1>2. ASSUME ~stale
      PROVE  Endorsed(tx, Apply(s, w))
  <2>1. Endorsed(tx, s)
    BY <1>2 DEF TxOK
  <2>2. Execute(s, tx.req).reads = tx.reads
    BY <2>1 DEF Endorsed
  <2>3. \A k \in tx.reads : k \in Keys /\ k \notin DOMAIN w
    BY <1>2 DEF TxOK
  <2>4. \A k \in Execute(s, tx.req).reads : s[k] = Apply(s, w)[k]
    BY <2>2, <2>3, ApplyWorld
  <2>5. /\ tx.req.op \in Ops
        /\ tx.req.op = "AuctionEnd" => DOMAIN tx.req.bidInput \subseteq Nat
    BY RequestOutcome DEF TxOK
  <2>6. Execute(Apply(s, w), tx.req) = Execute(s, tx.req)
    BY <2>4, <2>5, ExecutionIsLocal
  <2> QED BY <2>1, <2>6 DEF Endorsed
<1> HIDE DEF stale
<1>3. /\ DOMAIN next = TxFields
      /\ next.client = tx.client /\ next.req = tx.req /\ next.reads = tx.reads
      /\ next.writes = tx.writes /\ next.msg = tx.msg /\ next.stale = stale
      /\ next.awaited = tx.awaited
  BY DEF TxOK, TxFields
<1> HIDE DEF next
<1>4. TxOK(next, Apply(s, w))
  BY <1>1, <1>2, <1>3 DEF TxOK, Endorsed
<1> QED BY <1>4 DEF next, stale

LEMMA CommitStep ==
  ASSUME HouseInv, NEW tx \in pool, Commit(tx)
  PROVE  World(ws)' /\ PoolOK(pool, ws)'
<1>1. World(ws) /\ PoolOK(pool, ws) /\ TxOK(tx, ws)
  BY DEF HouseInv, PoolOK
<1>2. GoodWrites(tx.writes) /\ ws' = Apply(ws, tx.writes)
  BY <1>1 DEF TxOK, Commit
<1>3. World(ws')
  BY <1>1, <1>2, ApplyWorld
<1>4. ASSUME NEW next \in pool' PROVE TxOK(next, ws')
  <2>1. PICK other \in pool :
          next = [other EXCEPT !.stale = other.stale \/ other.reads \cap DOMAIN tx.writes # {}]
    BY <1>4 DEF Commit, Remaining
  <2>2. TxOK(other, ws)
    BY <1>1 DEF PoolOK
  <2> QED BY <1>1, <1>2, <2>1, <2>2, TxStays
<1> QED BY <1>3, <1>4 DEF PoolOK

LEMMA GivenUp ==
  ASSUME NEW s, NEW tx, TxOK(tx, s)
  PROVE  TxOK([tx EXCEPT !.awaited = FALSE], s)
<1> DEFINE next == [tx EXCEPT !.awaited = FALSE]
<1>1. /\ DOMAIN next = TxFields
      /\ next.client = tx.client /\ next.req = tx.req /\ next.reads = tx.reads
      /\ next.writes = tx.writes /\ next.msg = tx.msg /\ next.stale = tx.stale
      /\ next.awaited = FALSE
  BY DEF TxOK, TxFields
<1> HIDE DEF next
<1>2. TxOK(next, s)
  BY <1>1 DEF TxOK, Endorsed
<1> QED BY <1>2 DEF next

LEMMA GiveUpStep ==
  ASSUME HouseInv, NEW tx \in pool, GiveUp(tx)
  PROVE  World(ws)' /\ PoolOK(pool, ws)'
<1>1. World(ws) /\ PoolOK(pool, ws) /\ TxOK(tx, ws) /\ ws' = ws
  BY DEF HouseInv, PoolOK, GiveUp
<1>3. TxOK([tx EXCEPT !.awaited = FALSE], ws)
  BY <1>1, GivenUp, Zenon
<1>4. pool' = (pool \ {tx}) \cup {[tx EXCEPT !.awaited = FALSE]}
  BY DEF GiveUp
<1>5. \A other \in pool' : TxOK(other, ws)
  BY <1>1, <1>3, <1>4, Zenon DEF PoolOK
<1> QED BY <1>1, <1>5 DEF PoolOK

LEMMA NetworkStep == HouseInv /\ Network => HouseInv'
<1> SUFFICES ASSUME HouseInv, Network PROVE HouseInv'
  OBVIOUS
<1>1. auction' = auction /\ basket' = basket
  BY DEF Network
<1>2. AuctionsOK(auction)' /\ BasketsOK(basket)'
  BY <1>1 DEF HouseInv
<1>3. CASE ClockTick
  <2>1. now' \in Clock
    BY <1>3, Numbers DEF HouseInv, ClockTick, Clock
  <2>2. World(ws)' /\ PoolOK(pool, ws)'
    BY <1>3 DEF HouseInv, ClockTick
  <2> QED BY <1>2, <2>1, <2>2 DEF HouseInv
<1>4. ASSUME NEW tx \in pool, Commit(tx) PROVE HouseInv'
  <2>1. now' \in Clock
    BY <1>4 DEF HouseInv, Commit
  <2> QED BY <1>2, <1>4, <2>1, CommitStep DEF HouseInv
<1>5. ASSUME NEW tx \in pool, GiveUp(tx) PROVE HouseInv'
  <2>1. now' \in Clock
    BY <1>5 DEF HouseInv, GiveUp
  <2> QED BY <1>2, <1>5, <2>1, GiveUpStep DEF HouseInv
<1>6. ASSUME NEW tx \in pool, Invalidate(tx) \/ Drop(tx) PROVE HouseInv'
  <2>1. now' \in Clock /\ ws' = ws /\ pool' = pool \ {tx}
    BY <1>6 DEF HouseInv, Invalidate, Drop
  <2>2. World(ws)' /\ PoolOK(pool, ws)'
    BY <2>1 DEF HouseInv, PoolOK
  <2> QED BY <1>2, <2>1, <2>2 DEF HouseInv
<1> QED BY <1>3, <1>4, <1>5, <1>6 DEF Network, GatewayNext

LEMMA PriceUpdateStep == HouseInv /\ PriceUpdate => HouseInv'
<1> SUFFICES ASSUME HouseInv, NEW cat \in Categories, NEW p \in NewPrices,
                    UNCHANGED <<now, auction, basket>>,
                    ws' = Apply(ws, UpdateUnitPrice(ws, cat, p).writes),
                    pool' = {[tx EXCEPT !.stale = @ \/ cat \in tx.reads] : tx \in pool}
             PROVE  HouseInv'
  BY DEF PriceUpdate
<1> DEFINE w == UpdateUnitPrice(ws, cat, p).writes
<1>1. World(ws) /\ PoolOK(pool, ws)
  BY DEF HouseInv
<1>2. GoodWrites(w)
  BY <1>1, PriceOutcome DEF GoodOutcome
<1>3. DOMAIN w = {cat}
  <2>1. EnergyExists(ws, cat)
    BY <1>1, NoRecordIsAbsent DEF World, EnergyExists
  <2> QED BY <2>1 DEF UpdateUnitPrice, Result
<1> HIDE DEF w
<1>4. ws' = Apply(ws, w)
  BY DEF w
<1>5. World(ws')
  BY <1>1, <1>2, <1>4, ApplyWorld
<1>6. ASSUME NEW next \in pool' PROVE TxOK(next, ws')
  <2>1. PICK tx \in pool : next = [tx EXCEPT !.stale = tx.stale \/ cat \in tx.reads]
    OBVIOUS
  <2>2. TxOK(tx, ws)
    BY <1>1 DEF PoolOK
  <2>3. TxOK([tx EXCEPT !.stale = tx.stale \/ tx.reads \cap DOMAIN w # {}], ws')
    BY <1>1, <1>2, <1>4, <2>2, TxStays
  <2>4. (tx.stale \/ cat \in tx.reads) = (tx.stale \/ tx.reads \cap DOMAIN w # {})
    BY <1>3, <2>2 DEF TxOK
  <2> QED BY <2>1, <2>3, <2>4
<1>7. now' \in Clock /\ AuctionsOK(auction)' /\ BasketsOK(basket)'
  BY DEF HouseInv
<1> QED BY <1>5, <1>6, <1>7 DEF HouseInv, PoolOK

-----------------------------------------------------------------------------
(* Steps of the producers.                                                    *)

LEMMA SubmitStep ==
  ASSUME World(ws), PoolOK(pool, ws), NEW c \in Clients, NEW req \in HouseRequests,
         Submit(c, req)
  PROVE  World(ws)' /\ PoolOK(pool, ws)' /\ now' = now
<1> DEFINE out == Execute(ws, req)
<1>1. ws' = ws /\ now' = now
  BY DEF Submit
<1>2. GoodOutcome(out)
  BY RequestOutcome
<1>3. ASSUME NEW tx \in pool' \ pool PROVE TxOK(tx, ws)
  <2>1. /\ ~out.err
        /\ DOMAIN tx = TxFields
        /\ tx.client = c /\ tx.req = req /\ tx.reads = out.reads /\ tx.writes = out.writes
        /\ tx.msg = out.msg /\ tx.stale = FALSE /\ tx.awaited = TRUE
    BY DEF Submit, TxFields
  <2>2. Endorsed(tx, ws)
    BY <2>1 DEF Endorsed
  <2> HIDE DEF out
  <2> QED BY <1>2, <2>1, <2>2 DEF TxOK, GoodOutcome
<1> QED BY <1>1, <1>3 DEF PoolOK

\* One goroutine moves.
LEMMA OneAuction ==
  ASSUME AuctionsOK(auction), NEW m \in Makers, NEW a, AuctionOK(a, m),
         auction' = [auction EXCEPT ![m] = a]
  PROVE  AuctionsOK(auction)'
BY DEF AuctionsOK

LEMMA FinishOK ==
  ASSUME AuctionsOK(auction), NEW m \in Makers, NEW why, auction' = Finish(m, why)
  PROVE  AuctionsOK(auction)'
<1> DEFINE a == [auction[m] EXCEPT !.pc = "done", !.tries = 0, !.due = 0, !.ts = 0,
                                   !.offer = NoOffer, !.amount = 0, !.last = why]
<1>1. AuctionOK(auction[m], m) /\ auction' = [auction EXCEPT ![m] = a]
  BY DEF AuctionsOK, Finish
<1>2. DOMAIN a = AuctionFields /\ a.pc = "done" /\ a.gen = auction[m].gen /\ a.ts = 0 /\ a.amount = 0
  BY <1>1 DEF AuctionOK, AuctionFields
<1> HIDE DEF a
<1>3. 0 \in Clock
  BY Numbers DEF Clock
<1>4. AuctionOK(a, m)
  BY <1>1, <1>2, <1>3 DEF AuctionOK
<1> QED BY <1>1, <1>4, OneAuction

LEMMA WaitingOK ==
  ASSUME AuctionsOK(auction), NEW m \in Makers, NEW why, auction[m].id \in TokenIds[m],
         auction' = Waiting(m, why)
  PROVE  AuctionsOK(auction)'
<1> DEFINE a == [auction[m] EXCEPT !.pc = "wait", !.tries = 0, !.ts = 0,
                            !.offer = NoOffer, !.amount = 0, !.isSold = FALSE,
                            !.last = why]
<1>1. AuctionOK(auction[m], m) /\ auction' = [auction EXCEPT ![m] = a]
  BY DEF AuctionsOK, Waiting
<1>2. /\ DOMAIN a = AuctionFields /\ a.pc = "wait" /\ a.gen = auction[m].gen
      /\ a.ts = 0 /\ a.amount = 0 /\ a.id = auction[m].id
  BY <1>1 DEF AuctionOK, AuctionFields
<1> HIDE DEF a
<1>3. 0 \in Clock
  BY Numbers DEF Clock
<1>4. AuctionOK(a, m)
  BY <1>1, <1>2, <1>3 DEF AuctionOK
<1> QED BY <1>1, <1>4, OneAuction

LEMMA ContinueOK ==
  ASSUME AuctionsOK(auction), NEW m \in Makers, NEW why, auction[m].id \in TokenIds[m],
         auction' = Continue(m, why)
  PROVE  AuctionsOK(auction)'
BY FinishOK, WaitingOK DEF Continue

\* A goroutine changes its pc and counters and nothing the invariant is about.
LEMMA MovedTo ==
  ASSUME AuctionsOK(auction), NEW m \in Makers, NEW pc, NEW tries,
         auction' = [auction EXCEPT ![m] = [@ EXCEPT !.pc = pc, !.tries = tries]],
         pc \in {"creating", "wait", "query", "submit", "submitted"} => auction[m].id \in TokenIds[m],
         pc \in {"submit", "submitted"} => auction[m].offer \in HouseAwards
  PROVE  AuctionsOK(auction)'
<1> DEFINE a == [auction[m] EXCEPT !.pc = pc, !.tries = tries]
<1>1. AuctionOK(auction[m], m) /\ auction' = [auction EXCEPT ![m] = a]
  BY DEF AuctionsOK
<1>2. /\ DOMAIN a = AuctionFields /\ a.pc = pc /\ a.gen = auction[m].gen
      /\ a.ts = auction[m].ts /\ a.amount = auction[m].amount /\ a.id = auction[m].id
      /\ a.offer = auction[m].offer
  BY <1>1 DEF AuctionOK, AuctionFields
<1> HIDE DEF a
<1>3. AuctionOK(a, m)
  BY <1>1, <1>2 DEF AuctionOK
<1> QED BY <1>1, <1>3, OneAuction

LEMMA CallFailedOK ==
  ASSUME AuctionsOK(auction), NEW m \in Makers, NEW pc, CallFailed(m, pc),
         pc \in {"creating", "wait", "query", "submit", "submitted"} => auction[m].id \in TokenIds[m],
         pc \in {"submit", "submitted"} => auction[m].offer \in HouseAwards
  PROVE  AuctionsOK(auction)'
<1>1. CASE auction' = auction
  BY <1>1
<1>2. CASE auction' = [auction EXCEPT ![m] =
                         [@ EXCEPT !.pc = pc, !.tries = auction[m].tries + 1]]
  BY <1>2, MovedTo
<1> QED BY <1>1, <1>2 DEF CallFailed

\* What a tick computes from the bids it has found is a list the contract may be
\* sent.
LEMMA OfferOK ==
  ASSUME World(ws), NEW m \in Makers, NEW open, open \subseteq Bids,
         \A b \in open : ws[b] # Absent, NEW q \in Rankings(open, ws)
  PROVE  /\ open # {} => Allocate(q, ws, Output[m]) \in HouseAwards
         /\ Allocated(q, ws, Output[m]) \in Portions \cup {0}
<1> DEFINE offer == Allocate(q, ws, Output[m])
           sold == Allocated(q, ws, Output[m])
<1>1. IsFiniteSet(open) /\ IsFiniteSet(Bids)
  BY FS_Subset, ContractAssumption
<1>2. \A b \in open : ws[b].bidAmount \in Portions /\ ws[b].bidAmount \in Nat \ {0}
  BY Numbers DEF World, HouseBid
<1>3. Output[m] \in Nat \ {0}
  BY Numbers
<1>4. /\ OffersInOrder(offer, q, open, ws)
      /\ AddsUp(offer, sold, Output[m])
      /\ open # {} => offer # <<>>
  BY <1>1, <1>2, <1>3, AllocationIsFair
<1>5. sold \in Portions \cup {0}
  <2>1. sold \in 0..Output[m]
    BY <1>4 DEF AddsUp
  <2>2. 1..Output[m] \subseteq Portions
    BY Numbers
  <2>3. sold = 0 \/ sold \in 1..Output[m]
    BY <1>3, <2>1
  <2> QED BY <2>2, <2>3
<1>6. ASSUME open # {} PROVE offer \in HouseAwards
  <2> DEFINE L == Cardinality(open)
             n == Len(offer)
  <2>1. /\ L \in Nat /\ Len(q) = L
        /\ \A i, j \in 1..L : i < j => q[i] # q[j]
    BY <1>1, RankingFacts
  <2>2. L =< Cardinality(Bids) /\ Cardinality(Bids) \in Nat
    BY <1>1, FS_Subset, FS_CardinalityType
  <2>3. offer = [i \in DOMAIN offer |-> offer[i]]
    BY DEF Allocate
  <2>4. \A i \in DOMAIN offer :
           /\ offer[i].id = q[i]
           /\ offer[i] = [id |-> offer[i].id, amount |-> offer[i].amount]
    BY DEF Allocate
  <2> HIDE DEF offer, L
  <2>5. n \in Nat /\ n =< L /\ n # 0 /\ DOMAIN offer = 1..n
    <3>1. DOMAIN offer = 1..n /\ n \in 0..L
      BY <1>4, <2>1 DEF OffersInOrder
    <3>2. offer # <<>>
      BY <1>4, <1>6
    <3>3. n # 0
      BY <2>3, <3>1, <3>2
    <3> QED BY <2>1, <3>1, <3>3
  <2> HIDE DEF n
  <2>6. \A i \in 1..n : /\ offer[i].id \in open
                        /\ offer[i].amount \in 1..ws[offer[i].id].bidAmount
    BY <1>4 DEF OffersInOrder, n
  <2>7. \A i \in 1..n : offer[i] \in [id : Bids, amount : Portions]
    <3>1. SUFFICES ASSUME NEW i \in 1..n PROVE offer[i] \in [id : Bids, amount : Portions]
      OBVIOUS
    <3>2. offer[i].id \in open
      BY <2>6
    <3>3. offer[i].amount \in Portions
      <4>1. ws[offer[i].id].bidAmount \in Portions
        BY <1>2, <3>2
      <4>2. 1..ws[offer[i].id].bidAmount \subseteq Portions
        BY <4>1, Numbers
      <4> QED BY <2>6, <4>2
    <3>4. offer[i] = [id |-> offer[i].id, amount |-> offer[i].amount]
      BY <2>5, <2>4
    <3> DEFINE x == offer[i]
    <3>5. x = [id |-> x.id, amount |-> x.amount] /\ x.id \in Bids /\ x.amount \in Portions
      BY <3>2, <3>3, <3>4
    <3> HIDE DEF x
    <3>6. x \in [id : Bids, amount : Portions]
      BY <3>5
    <3> QED BY <3>6 DEF x
  <2>8. \A i, j \in 1..n : i # j => offer[i].id # offer[j].id
    <3>1. SUFFICES ASSUME NEW i \in 1..n, NEW j \in 1..n, i < j PROVE offer[i].id # offer[j].id
      BY <2>5
    <3>2. offer[i].id = q[i] /\ offer[j].id = q[j]
      BY <2>5, <2>4
    <3>3. i \in 1..L /\ j \in 1..L
      BY <2>1, <2>5
    <3> QED BY <2>1, <3>1, <3>2, <3>3
  <2>9. n \in 1..Cardinality(Bids)
    BY <2>1, <2>2, <2>5
  <2>10. offer \in [1..n -> [id : Bids, amount : Portions]]
    BY <2>3, <2>5, <2>7
  <2> QED BY <2>5, <2>8, <2>9, <2>10 DEF HouseAwards
<1> QED BY <1>5, <1>6

LEMMA QueryStep ==
  ASSUME HouseInv, NEW m \in Makers, Query(m)
  PROVE  AuctionsOK(auction)'
<1> DEFINE open == AuctionEndQuery(ws, auction[m].id, auction[m].ts)
<1>1. World(ws) /\ AuctionsOK(auction) /\ AuctionOK(auction[m], m)
  BY DEF HouseInv, AuctionsOK
<1>2. auction[m].id \in TokenIds[m]
  BY <1>1 DEF AuctionOK, Query, At
<1>3. open \subseteq Bids /\ \A b \in open : ws[b] # Absent
  BY DEF AuctionEndQuery, BidsOn
<1> HIDE DEF open
<1>4. CASE auction' = Continue(m, "no bids")
  BY <1>1, <1>2, <1>4, ContinueOK
<1>5. CASE \E q \in Rankings(open, ws) :
             auction' = [auction EXCEPT ![m] =
               [@ EXCEPT !.pc = "submit", !.tries = 0,
                         !.offer = IF open = {} THEN <<[id |-> OldId, amount |-> 0]>>
                                   ELSE Allocate(q, ws, Output[m]),
                         !.amount = Allocated(q, ws, Output[m]),
                         !.isSold = TakesAll(q, ws, Output[m])]]
  <2>1. PICK q \in Rankings(open, ws) :
             auction' = [auction EXCEPT ![m] =
               [@ EXCEPT !.pc = "submit", !.tries = 0,
                         !.offer = IF open = {} THEN <<[id |-> OldId, amount |-> 0]>>
                                   ELSE Allocate(q, ws, Output[m]),
                         !.amount = Allocated(q, ws, Output[m]),
                         !.isSold = TakesAll(q, ws, Output[m])]]
    BY <1>5
  <2> DEFINE offer == IF open = {} THEN <<[id |-> OldId, amount |-> 0]>>
                      ELSE Allocate(q, ws, Output[m])
             sold == Allocated(q, ws, Output[m])
             isSold == TakesAll(q, ws, Output[m])
             a == [auction[m] EXCEPT !.pc = "submit", !.tries = 0, !.offer = offer,
                                     !.amount = sold, !.isSold = isSold]
  <2>2. offer \in HouseAwards /\ sold \in Portions \cup {0}
    <3>1. <<[id |-> OldId, amount |-> 0]>> \in HouseAwards
      BY DEF HouseAwards
    <3> QED BY <1>1, <1>3, <3>1, OfferOK
  <2>3. auction' = [auction EXCEPT ![m] = a]
    BY <2>1
  <2> HIDE DEF offer, sold, isSold
  <2>4. /\ DOMAIN a = AuctionFields /\ a.pc = "submit" /\ a.gen = auction[m].gen
        /\ a.ts = auction[m].ts /\ a.id = auction[m].id /\ a.offer = offer /\ a.amount = sold
    BY <1>1 DEF AuctionOK, AuctionFields
  <2> HIDE DEF a
  <2>5. AuctionOK(a, m)
    BY <1>1, <1>2, <2>2, <2>4 DEF AuctionOK
  <2> QED BY <1>1, <2>3, <2>5, OneAuction
<1> QED BY <1>4, <1>5 DEF Query, open

LEMMA ProduceStep ==
  ASSUME HouseInv, NEW m \in Makers, Produce(m)
  PROVE  AuctionsOK(auction)'
<1> DEFINE a == [auction[m] EXCEPT !.pc = "create", !.gen = now]
<1>1. AuctionOK(auction[m], m) /\ AuctionsOK(auction) /\ now \in Clock
  BY DEF HouseInv, AuctionsOK
<1>2. auction' = [auction EXCEPT ![m] = a]
  BY DEF Produce
<1>3. /\ DOMAIN a = AuctionFields /\ a.pc = "create" /\ a.gen = now
      /\ a.ts = auction[m].ts /\ a.amount = auction[m].amount
  BY <1>1 DEF AuctionOK, AuctionFields
<1> HIDE DEF a
<1>4. AuctionOK(a, m)
  BY <1>1, <1>3 DEF AuctionOK
<1> QED BY <1>1, <1>2, <1>4, OneAuction

LEMMA CreateTokenStep ==
  ASSUME HouseInv, NEW m \in Makers, CreateToken(m)
  PROVE  /\ AuctionsOK(auction)'
         /\ World(ws)' /\ PoolOK(pool, ws)' /\ now' = now
<1>1. /\ AuctionOK(auction[m], m) /\ AuctionsOK(auction)
      /\ World(ws) /\ PoolOK(pool, ws)
  BY DEF HouseInv, AuctionsOK
<1>2. PICK id \in TokenIds[m] :
        /\ Submit(m, [op |-> "CreateEnergyToken", id |-> id, producer |-> Owner[m],
                      amount |-> Output[m], cat |-> Kind[m], time |-> auction[m].gen])
        /\ auction' = [auction EXCEPT ![m] = [@ EXCEPT !.pc = "creating", !.id = id]]
  BY DEF CreateToken
<1> DEFINE req == [op |-> "CreateEnergyToken", id |-> id, producer |-> Owner[m],
                   amount |-> Output[m], cat |-> Kind[m], time |-> auction[m].gen]
           a == [auction[m] EXCEPT !.pc = "creating", !.id = id]
<1>3. req \in HouseRequests
  <2>1. /\ id \in Energies /\ Owner[m] \in Users /\ Kind[m] \in Categories
        /\ Output[m] \in Portions /\ auction[m].gen \in Clock
    BY <1>1, Numbers, ProducerAssumption DEF AuctionOK
  <2>2. req \in Creations
    BY <2>1 DEF Creations
  <2> QED BY <2>2 DEF HouseRequests
<1>4. m \in Clients
  BY ProducerAssumption
<1> HIDE DEF req
<1>5. Submit(m, req)
  BY <1>2 DEF req
<1>6. World(ws)' /\ PoolOK(pool, ws)' /\ now' = now
  BY <1>1, <1>3, <1>4, <1>5, SubmitStep
<1>7. /\ DOMAIN a = AuctionFields /\ a.pc = "creating" /\ a.gen = auction[m].gen /\ a.id = id
      /\ a.ts = auction[m].ts /\ a.amount = auction[m].amount
  BY <1>1 DEF AuctionOK, AuctionFields
<1>8. auction' = [auction EXCEPT ![m] = a]
  BY <1>2
<1> HIDE DEF a
<1>9. AuctionOK(a, m)
  BY <1>1, <1>7 DEF AuctionOK
<1> QED BY <1>1, <1>6, <1>8, <1>9, OneAuction

LEMMA CreatedStep ==
  ASSUME HouseInv, NEW m \in Makers, Created(m)
  PROVE  AuctionsOK(auction)'
<1> DEFINE due == auction[m].gen + Interval
           a == [auction[m] EXCEPT !.pc = "wait", !.tries = 0, !.due = due]
<1>1. AuctionOK(auction[m], m) /\ AuctionsOK(auction)
  BY DEF HouseInv, AuctionsOK
<1>2. auction' = [auction EXCEPT ![m] = a] /\ auction[m].pc = "creating"
  BY DEF Created, At
<1> HIDE DEF due
<1>3. /\ DOMAIN a = AuctionFields /\ a.pc = "wait" /\ a.gen = auction[m].gen
      /\ a.id = auction[m].id /\ a.ts = auction[m].ts /\ a.amount = auction[m].amount
  BY <1>1 DEF AuctionOK, AuctionFields
<1> HIDE DEF a
<1>4. AuctionOK(a, m)
  BY <1>1, <1>2, <1>3 DEF AuctionOK
<1> QED BY <1>1, <1>2, <1>4, OneAuction

LEMMA CreateFailedStep ==
  ASSUME HouseInv, NEW m \in Makers, CreateFailed(m)
  PROVE  AuctionsOK(auction)'
<1> DEFINE tries == auction[m].tries + 1
           a == [auction[m] EXCEPT !.pc = "create", !.id = NoId, !.tries = tries]
<1>1. AuctionOK(auction[m], m) /\ AuctionsOK(auction)
  BY DEF HouseInv, AuctionsOK
<1>2. auction' = Finish(m, "many create error") \/ auction' = [auction EXCEPT ![m] = a]
  BY DEF CreateFailed
<1> HIDE DEF tries
<1>3. /\ DOMAIN a = AuctionFields /\ a.pc = "create" /\ a.gen = auction[m].gen
      /\ a.ts = auction[m].ts /\ a.amount = auction[m].amount
  BY <1>1 DEF AuctionOK, AuctionFields
<1> HIDE DEF a
<1>4. AuctionOK(a, m)
  BY <1>1, <1>3 DEF AuctionOK
<1> QED BY <1>1, <1>2, <1>4, OneAuction, FinishOK

LEMMA TickStep ==
  ASSUME HouseInv, NEW m \in Makers, Tick(m)
  PROVE  AuctionsOK(auction)'
<1> DEFINE ticks == auction[m].ticks + 1
           due == IF auction[m].ticks = 0 THEN now + Interval
                  ELSE auction[m].due
                         + Interval * (((now - auction[m].due) \div Interval) + 1)
           a == [auction[m] EXCEPT !.pc = "query", !.ts = now, !.ticks = ticks, !.due = due]
<1>1. AuctionOK(auction[m], m) /\ AuctionsOK(auction) /\ now \in Clock
  BY DEF HouseInv, AuctionsOK
<1>2. auction' = [auction EXCEPT ![m] = a] /\ auction[m].pc = "wait"
  BY DEF Tick, At
<1> HIDE DEF ticks, due
<1>3. /\ DOMAIN a = AuctionFields /\ a.pc = "query" /\ a.gen = auction[m].gen
      /\ a.id = auction[m].id /\ a.ts = now /\ a.amount = auction[m].amount
  BY <1>1 DEF AuctionOK, AuctionFields
<1> HIDE DEF a
<1>4. AuctionOK(a, m)
  BY <1>1, <1>2, <1>3 DEF AuctionOK
<1> QED BY <1>1, <1>2, <1>4, OneAuction

LEMMA SubmitEndStep ==
  ASSUME HouseInv, NEW m \in Makers, SubmitEnd(m)
  PROVE  /\ AuctionsOK(auction)'
         /\ World(ws)' /\ PoolOK(pool, ws)' /\ now' = now
<1>1. /\ AuctionOK(auction[m], m) /\ AuctionsOK(auction)
      /\ World(ws) /\ PoolOK(pool, ws)
  BY DEF HouseInv, AuctionsOK
<1> DEFINE in == [id |-> auction[m].id, amount |-> auction[m].amount, time |-> auction[m].ts]
           req == [op |-> "AuctionEnd", bidInput |-> auction[m].offer, in |-> in]
<1>2. /\ Submit(m, req) /\ auction[m].pc = "submit"
      /\ auction' = [auction EXCEPT ![m] = [@ EXCEPT !.pc = "submitted"]]
  BY DEF SubmitEnd, At
<1>3. auction[m].id \in TokenIds[m] /\ auction[m].offer \in HouseAwards
  BY <1>1, <1>2 DEF AuctionOK
<1>4. req \in HouseRequests
  <2>1. /\ auction[m].id \in Energies /\ auction[m].amount \in Portions \cup {0}
        /\ auction[m].ts \in Clock
    BY <1>1, <1>3, ProducerAssumption DEF AuctionOK
  <2>2. in \in [id : Energies, amount : Portions \cup {0}, time : Clock]
    BY <2>1
  <2> HIDE DEF in
  <2>3. req \in Settlements
    BY <1>3, <2>2 DEF Settlements
  <2> QED BY <2>3 DEF HouseRequests
<1>5. m \in Clients
  BY ProducerAssumption
<1> HIDE DEF req
<1>6. World(ws)' /\ PoolOK(pool, ws)' /\ now' = now
  BY <1>1, <1>2, <1>4, <1>5, SubmitStep
<1> DEFINE a == [auction[m] EXCEPT !.pc = "submitted"]
<1>7. /\ DOMAIN a = AuctionFields /\ a.pc = "submitted" /\ a.gen = auction[m].gen
      /\ a.ts = auction[m].ts /\ a.amount = auction[m].amount /\ a.id = auction[m].id
      /\ a.offer = auction[m].offer
  BY <1>1 DEF AuctionOK, AuctionFields
<1>8. auction' = [auction EXCEPT ![m] = a]
  BY <1>2
<1> HIDE DEF a
<1>9. AuctionOK(a, m)
  BY <1>1, <1>3, <1>7 DEF AuctionOK
<1> QED BY <1>1, <1>6, <1>8, <1>9, OneAuction

LEMMA EndedStep ==
  ASSUME HouseInv, NEW m \in Makers, Ended(m)
  PROVE  AuctionsOK(auction)'
<1>1. AuctionOK(auction[m], m) /\ AuctionsOK(auction)
  BY DEF HouseInv, AuctionsOK
<1>2. auction[m].id \in TokenIds[m]
  BY <1>1 DEF AuctionOK, Ended, At
<1>3. auction' = Finish(m, reply[m].msg) \/ auction' = Continue(m, reply[m].msg)
  BY DEF Ended
<1> QED BY <1>1, <1>2, <1>3, FinishOK, ContinueOK

LEMMA FailureSteps ==
  ASSUME HouseInv, NEW m \in Makers, EndFailed(m) \/ QueryFailed(m)
  PROVE  AuctionsOK(auction)'
<1>1. AuctionOK(auction[m], m) /\ AuctionsOK(auction)
  BY DEF HouseInv, AuctionsOK
<1>2. CASE EndFailed(m)
  <2>1. auction[m].id \in TokenIds[m] /\ auction[m].offer \in HouseAwards
    BY <1>1, <1>2 DEF AuctionOK, EndFailed, At
  <2>2. CallFailed(m, "submit")
    BY <1>2 DEF EndFailed
  <2> QED BY <1>1, <2>1, <2>2, CallFailedOK
<1>3. CASE QueryFailed(m)
  <2>1. auction[m].id \in TokenIds[m]
    BY <1>1, <1>3 DEF AuctionOK, QueryFailed, At
  <2>2. CallFailed(m, "query")
    BY <1>3 DEF QueryFailed
  <2> QED BY <1>1, <2>1, <2>2, CallFailedOK
<1> QED BY <1>2, <1>3

LEMMA ProducersStep == HouseInv /\ Producers => HouseInv'
<1> SUFFICES ASSUME HouseInv, NEW m \in Makers, basket' = basket,
                    Produce(m) \/ ProducerStep(m) \/ QueryFailed(m)
             PROVE  HouseInv'
  BY DEF Producers, ProducerNext
<1>1. BasketsOK(basket)' /\ AuctionsOK(auction) /\ now \in Clock /\ World(ws) /\ PoolOK(pool, ws)
  BY DEF HouseInv
<1>2. CASE CreateToken(m) \/ SubmitEnd(m)
  <2>1. AuctionsOK(auction)' /\ World(ws)' /\ PoolOK(pool, ws)' /\ now' = now
    BY <1>2, CreateTokenStep, SubmitEndStep
  <2> QED BY <1>1, <2>1 DEF HouseInv
<1>3. ASSUME UNCHANGED <<now, ws, pool>>, AuctionsOK(auction)'
      PROVE  HouseInv'
  BY <1>1, <1>3 DEF HouseInv
<1>4. CASE Produce(m)
  BY <1>3, <1>4, ProduceStep DEF Produce, gatewayVars
<1>5. CASE Created(m)
  BY <1>3, <1>5, CreatedStep DEF Created, TakeReply
<1>6. CASE CreateFailed(m)
  BY <1>3, <1>6, CreateFailedStep DEF CreateFailed, TakeReply
<1>7. CASE EndTimer(m) \/ TimeUp(m)
  <2>1. auction' = Finish(m, "time up") /\ UNCHANGED <<now, ws, pool>>
    BY <1>7 DEF EndTimer, TimeUp, gatewayVars
  <2> QED BY <1>1, <1>3, <2>1, FinishOK
<1>8. CASE Tick(m)
  BY <1>3, <1>8, TickStep DEF Tick, gatewayVars
<1>9. CASE Query(m)
  BY <1>3, <1>9, QueryStep DEF Query, Evaluate, gatewayVars
<1>10. CASE Ended(m)
  BY <1>3, <1>10, EndedStep DEF Ended, TakeReply
<1>11. CASE EndFailed(m)
  BY <1>3, <1>11, FailureSteps DEF EndFailed, TakeReply
<1>12. CASE QueryFailed(m)
  BY <1>3, <1>12, FailureSteps DEF QueryFailed, EvaluateFails
<1> QED BY <1>2, <1>4, <1>5, <1>6, <1>7, <1>8, <1>9, <1>10, <1>11, <1>12 DEF ProducerStep

-----------------------------------------------------------------------------
(* Steps of the buyers.                                                       *)

LEMMA OneBasket ==
  ASSUME BasketsOK(basket), NEW c \in Buyers, NEW k, BasketOK(k),
         basket' = [basket EXCEPT ![c] = k]
  PROVE  BasketsOK(basket)'
BY DEF BasketsOK

\* A bid made from a record of the market and stamped with the time.
LEMMA WantedFacts ==
  ASSUME World(ws), now \in Clock, NEW in \in UNION {WantedOn(e) : e \in Market}
  PROVE  [energy |-> in.energy, owner |-> in.owner, cat |-> in.cat,
          bidAmount |-> in.bidAmount, price |-> in.price, prio |-> in.prio,
          time |-> now] \in HouseBids
<1>1. PICK e \in Market : in \in WantedOn(e)
  OBVIOUS
<1>2. e \in Energies /\ ws[e] \in HouseToken
  BY DEF World, Market
<1>3. PICK u \in Users, n \in 1..ws[e].amount, x \in Extras, p \in Prios :
        in = [energy |-> e, owner |-> u, cat |-> ws[e].cat, bidAmount |-> n,
              price |-> ws[e].price + x, prio |-> p]
  BY <1>1 DEF WantedOn
<1>4. ws[e].amount \in Portions /\ ws[e].price \in UnitPrices /\ ws[e].cat \in Categories
  BY <1>2 DEF HouseToken
<1>5. n \in Portions
  BY <1>4, Numbers
<1>6. ws[e].price + x \in HousePrices
  BY <1>4 DEF HousePrices
<1> DEFINE price == ws[e].price + x
<1>7. /\ in.energy = e /\ in.owner = u /\ in.cat = ws[e].cat /\ in.bidAmount = n
      /\ in.price = price /\ in.prio = p
  BY <1>3
<1>8. price \in {q + y : q \in UnitPrices, y \in Extras}
  BY <1>6 DEF HousePrices
<1> HIDE DEF price
<1> QED BY <1>2, <1>4, <1>5, <1>7, <1>8 DEF HouseBids

\* A batch has between one and MaxBatch bids.
LEMMA BatchOK ==
  ASSUME NEW n \in 1..MaxBatch, NEW ids \in [1..n -> Bids],
         NEW list \in [{ids[i] : i \in 1..n} -> HouseBids]
  PROVE  list \in HouseBatches
<1> DEFINE S == {ids[i] : i \in 1..n}
<1>1. n \in Nat \ {0} /\ n =< MaxBatch
  BY HouseAssumption
<1>2. IsFiniteSet(1..n) /\ Cardinality(1..n) = n
  BY <1>1, FS_Interval
<1>3. ids \in Surjection(1..n, S)
  BY DEF Surjection
<1>4. IsFiniteSet(S) /\ Cardinality(S) =< n
  BY <1>2, <1>3, FS_Surjection
<1>5. Cardinality(S) \in Nat /\ Cardinality(S) # 0
  <2>1. ids[1] \in S
    BY <1>1
  <2> HIDE DEF S
  <2> QED BY <1>4, <2>1, FS_CardinalityType, FS_EmptySet
<1>6. S \in SUBSET Bids /\ list \in [S -> HouseBids]
  OBVIOUS
<1> HIDE DEF S
<1>7. Cardinality(S) \in 1..MaxBatch
  BY <1>1, <1>4, <1>5, HouseAssumption
<1> QED BY <1>6, <1>7 DEF HouseBatches

LEMMA BiddingStep ==
  ASSUME HouseInv, NEW c \in Buyers, Bidding(c)
  PROVE  BasketsOK(basket)' /\ UNCHANGED <<now, ws, pool>>
<1>0. PICK n \in 1..MaxBatch :
        \E wanted \in [1..n -> UNION {WantedOn(e) : e \in Market}] : StampBids(c, wanted)
  BY DEF Bidding
<1>1. PICK wanted \in [1..n -> UNION {WantedOn(e) : e \in Market}] : StampBids(c, wanted)
  BY <1>0
<1>2. World(ws) /\ now \in Clock /\ BasketsOK(basket) /\ BasketOK(basket[c])
  BY DEF HouseInv, BasketsOK
<1>3. n \in Nat \ {0} /\ Len(wanted) = n
  BY HouseAssumption
<1> DEFINE ids == FreshIds(c, Len(wanted))
           bid(b) == wanted[CHOOSE i \in DOMAIN ids : ids[i] = b]
           stamped(b) == [energy |-> bid(b).energy, owner |-> bid(b).owner, cat |-> bid(b).cat,
                          bidAmount |-> bid(b).bidAmount, price |-> bid(b).price,
                          prio |-> bid(b).prio, time |-> now]
           list == [b \in {ids[i] : i \in DOMAIN ids} |-> stamped(b)]
           drawn == basket[c].drawn + Len(wanted)
           k == [basket[c] EXCEPT !.pc = "send", !.tries = 0, !.drawn = drawn, !.list = list]
<1>4. /\ basket' = [basket EXCEPT ![c] = k]
      /\ drawn =< Len(BidIds[c])
      /\ UNCHANGED <<now, ws, pool>>
  BY <1>1 DEF StampBids, gatewayVars
<1>5. ids \in [1..n -> Bids]
  <2> DEFINE d == basket[c].drawn
  <2>1. d \in Nat /\ d + n =< Len(BidIds[c]) /\ BidIds[c] \in Seq(Bids)
    BY <1>2, <1>3, <1>4, BuyerAssumption DEF BasketOK
  <2>2. ids = SubSeq(BidIds[c], d + 1, d + n)
    BY <1>3 DEF FreshIds
  <2> HIDE DEF d, ids
  <2>3. \A i \in (d + 1)..(d + n) : BidIds[c][i] \in Bids
    BY <1>3, <2>1
  <2>4. ids \in Seq(Bids) /\ Len(ids) = (IF d + 1 =< d + n THEN (d + n) - (d + 1) + 1 ELSE 0)
    BY <1>3, <2>1, <2>2, <2>3, SubSeqProperties
  <2>5. Len(ids) = n
    BY <1>3, <2>1, <2>4
  <2> QED BY <2>4, <2>5
<1>6. drawn \in Nat
  BY <1>2, <1>3 DEF BasketOK
<1> HIDE DEF ids, drawn
<1>7. DOMAIN ids = 1..n
  BY <1>5
<1>8. ASSUME NEW b \in {ids[i] : i \in DOMAIN ids} PROVE stamped(b) \in HouseBids
  <2> DEFINE j == CHOOSE i \in DOMAIN ids : ids[i] = b
  <2>1. j \in DOMAIN ids
    BY <1>8
  <2>2. wanted[j] \in UNION {WantedOn(e) : e \in Market}
    BY <1>7, <2>1
  <2> HIDE DEF j
  <2>3. [energy |-> wanted[j].energy, owner |-> wanted[j].owner, cat |-> wanted[j].cat,
         bidAmount |-> wanted[j].bidAmount, price |-> wanted[j].price, prio |-> wanted[j].prio,
         time |-> now] \in HouseBids
    BY <1>2, <2>2, WantedFacts
  <2> QED BY <2>3 DEF j
<1> HIDE DEF stamped
<1>9. list \in [{ids[i] : i \in 1..n} -> HouseBids]
  BY <1>7, <1>8
<1>10. list \in HouseBatches
  BY <1>5, <1>9, BatchOK
<1> HIDE DEF list
<1>11. DOMAIN k = BasketFields /\ k.pc = "send" /\ k.drawn = drawn /\ k.list = list
  BY <1>2 DEF BasketOK, BasketFields
<1> HIDE DEF k
<1>12. BasketOK(k)
  BY <1>6, <1>10, <1>11 DEF BasketOK
<1> QED BY <1>2, <1>4, <1>12, OneBasket

LEMMA SendBidsStep ==
  ASSUME HouseInv, NEW c \in Buyers, SendBids(c)
  PROVE  /\ BasketsOK(basket)'
         /\ World(ws)' /\ PoolOK(pool, ws)' /\ now' = now
<1>1. /\ World(ws) /\ PoolOK(pool, ws)
      /\ BasketsOK(basket) /\ BasketOK(basket[c])
  BY DEF HouseInv, BasketsOK
<1> DEFINE req == [op |-> "BidOnEnergy", bidList |-> basket[c].list]
           k == [basket[c] EXCEPT !.pc = "sent"]
<1>2. Submit(c, req) /\ basket[c].pc = "send" /\ basket' = [basket EXCEPT ![c] = k]
  BY DEF SendBids, Shopping
<1>3. basket[c].list \in HouseBatches
  BY <1>1, <1>2 DEF BasketOK
<1>4. req \in HouseRequests
  <2>1. req \in Placements
    BY <1>3 DEF Placements
  <2> QED BY <2>1 DEF HouseRequests
<1>5. c \in Clients
  BY BuyerAssumption
<1> HIDE DEF req
<1>6. World(ws)' /\ PoolOK(pool, ws)' /\ now' = now
  BY <1>1, <1>2, <1>4, <1>5, SubmitStep
<1>7. /\ DOMAIN k = BasketFields /\ k.pc = "sent" /\ k.drawn = basket[c].drawn
      /\ k.list = basket[c].list
  BY <1>1 DEF BasketOK, BasketFields
<1> HIDE DEF k
<1>8. BasketOK(k)
  BY <1>1, <1>3, <1>7 DEF BasketOK
<1> QED BY <1>1, <1>2, <1>6, <1>8, OneBasket

LEMMA BidsAnsweredStep ==
  ASSUME HouseInv, NEW c \in Buyers, BidsPlaced(c) \/ BidsFailed(c)
  PROVE  BasketsOK(basket)' /\ UNCHANGED <<now, ws, pool>>
<1>1. BasketsOK(basket) /\ BasketOK(basket[c])
  BY DEF HouseInv, BasketsOK
<1>2. UNCHANGED <<now, ws, pool>> /\ basket[c].pc = "sent"
  BY DEF BidsPlaced, BidsFailed, TakeReply, Shopping
<1>3. basket[c].list \in HouseBatches
  BY <1>1, <1>2 DEF BasketOK
<1>4. \E k : /\ basket' = [basket EXCEPT ![c] = k]
             /\ DOMAIN k = BasketFields /\ k.drawn = basket[c].drawn
             /\ k.pc \in {"send", "sent"} => k.list = basket[c].list
  <2> DEFINE tries == basket[c].tries + 1
             placed == basket[c].placed \cup DOMAIN basket[c].list
             k1 == [basket[c] EXCEPT !.pc = "idle", !.list = <<>>, !.tries = 0, !.placed = placed]
             k2 == [basket[c] EXCEPT !.pc = "idle", !.list = <<>>, !.tries = 0]
             k3 == [basket[c] EXCEPT !.pc = "send", !.tries = tries]
  <2>1. \/ basket' = [basket EXCEPT ![c] = k1]
        \/ basket' = [basket EXCEPT ![c] = k2]
        \/ basket' = [basket EXCEPT ![c] = k3]
    BY DEF BidsPlaced, BidsFailed
  <2> HIDE DEF tries, placed
  <2>2. DOMAIN k1 = BasketFields /\ k1.drawn = basket[c].drawn /\ k1.pc = "idle"
    BY <1>1 DEF BasketOK, BasketFields
  <2>3. DOMAIN k2 = BasketFields /\ k2.drawn = basket[c].drawn /\ k2.pc = "idle"
    BY <1>1 DEF BasketOK, BasketFields
  <2>4. /\ DOMAIN k3 = BasketFields /\ k3.drawn = basket[c].drawn
        /\ k3.list = basket[c].list
    BY <1>1 DEF BasketOK, BasketFields
  <2> HIDE DEF k1, k2, k3
  <2> QED BY <2>1, <2>2, <2>3, <2>4
<1>5. PICK k : /\ basket' = [basket EXCEPT ![c] = k]
               /\ DOMAIN k = BasketFields /\ k.drawn = basket[c].drawn
               /\ k.pc \in {"send", "sent"} => k.list = basket[c].list
  BY <1>4
<1>6. BasketOK(k)
  BY <1>1, <1>3, <1>5 DEF BasketOK
<1> QED BY <1>1, <1>2, <1>5, <1>6, OneBasket

LEMMA BuyersSteps == HouseInv /\ (BuyersStart \/ BuyersPlace) => HouseInv'
<1> SUFFICES ASSUME HouseInv, NEW c \in Buyers, auction' = auction,
                    Bidding(c) \/ BuyerStep(c)
             PROVE  HouseInv'
  BY DEF BuyersStart, BuyersPlace
<1>1. AuctionsOK(auction)' /\ now \in Clock /\ World(ws) /\ PoolOK(pool, ws)
  BY DEF HouseInv
<1>2. CASE SendBids(c)
  BY <1>1, <1>2, SendBidsStep DEF HouseInv
<1>3. CASE Bidding(c) \/ BidsPlaced(c) \/ BidsFailed(c)
  <2>1. BasketsOK(basket)' /\ UNCHANGED <<now, ws, pool>>
    BY <1>3, BiddingStep, BidsAnsweredStep
  <2> QED BY <1>1, <2>1 DEF HouseInv
<1> QED BY <1>2, <1>3 DEF BuyerStep

-----------------------------------------------------------------------------
LEMMA HouseInvInit == Init => HouseInv
<1> SUFFICES ASSUME Init PROVE HouseInv
  OBVIOUS
<1>1. now \in Clock
  BY Numbers DEF Init, GatewayInit, Clock
<1>2. World(ws) /\ PoolOK(pool, ws)
  <2> DEFINE w == InitLedger(EmptyState).writes
  <2>1. ws = Apply(EmptyState, w) /\ pool = {}
    BY DEF Init, GatewayInit
  <2>2. DOMAIN w = Categories /\ \A c \in Categories : w[c] = [cat |-> c, price |-> InitPrice]
    BY DEF InitLedger, Result
  <2>3. \A k \in Keys : Apply(EmptyState, w)[k] = IF k \in Categories THEN w[k] ELSE Absent
    BY <2>2 DEF Apply, EmptyState
  <2>4. Apply(EmptyState, w) = [k \in Keys |-> Apply(EmptyState, w)[k]]
    BY DEF Apply
  <2> HIDE DEF w
  <2>5. \A c \in Categories : ws[c] \in HouseCost
    BY <2>1, <2>2, <2>3, KeyKinds DEF HouseCost, UnitPrices
  <2>6. \A k \in Energies \cup Bids : ws[k] = Absent
    BY <2>1, <2>3, KeyKinds
  <2> QED BY <2>1, <2>4, <2>5, <2>6 DEF World, PoolOK
<1>3. AuctionsOK(auction)
  <2>1. \A m \in Makers : auction[m] = Idle
    BY DEF Init, ProducerInit
  <2>2. auction = [m \in Makers |-> auction[m]]
    BY DEF Init, ProducerInit
  <2>3. DOMAIN Idle = AuctionFields /\ Idle.pc = "idle" /\ Idle.gen = 0 /\ Idle.ts = 0 /\ Idle.amount = 0
    BY DEF Idle, AuctionFields
  <2>4. 0 \in Clock
    BY Numbers DEF Clock
  <2> QED BY <2>1, <2>2, <2>3, <2>4 DEF AuctionsOK, AuctionOK
<1>4. BasketsOK(basket)
  <2>1. \A c \in Buyers : basket[c] = EmptyBasket
    BY DEF Init, BuyerInit
  <2>2. basket = [c \in Buyers |-> basket[c]]
    BY DEF Init, BuyerInit
  <2>3. DOMAIN EmptyBasket = BasketFields /\ EmptyBasket.pc = "idle" /\ EmptyBasket.drawn = 0
    BY DEF EmptyBasket, BasketFields
  <2> QED BY <2>1, <2>2, <2>3 DEF BasketsOK, BasketOK
<1> QED BY <1>1, <1>2, <1>3, <1>4 DEF HouseInv

LEMMA HouseInvStep == HouseInv /\ [Next]_vars => HouseInv'
<1>1. HouseInv /\ UNCHANGED vars => HouseInv'
  BY DEF HouseInv, vars, World, PoolOK, AuctionsOK, BasketsOK
<1> QED BY <1>1, NetworkStep, ProducersStep, BuyersSteps, PriceUpdateStep DEF Next

LEMMA HouseInvHolds == Spec => []HouseInv
BY HouseInvInit, HouseInvStep, PTL DEF Spec

\* Whatever the delays, the retries and the order of commits: a transaction that
\* is not stale still does what it was endorsed to do (EndorsementStaysValid of
\* FabricGateway; the read sets of smartcontract.go's functions).
THEOREM EndorsementsStayValid == Spec => []EndorsementStaysValid
<1>1. HouseInv => EndorsementStaysValid
  BY DEF HouseInv, PoolOK, TxOK, Endorsed, EndorsementStaysValid
<1> QED BY <1>1, HouseInvHolds, PTL

-----------------------------------------------------------------------------
(* The market implements the ledger: a commit is the call of the function the *)
(* transaction was endorsed with, executed on the state it finds, and nothing *)
(* else writes.                                                               *)

LEMMA SameApply == \A s : \A w : Ledger!Apply(s, w) = Apply(s, w)
BY DEF Apply, Ledger!Apply, Keys, Ledger!Keys

LEMMA SamePrice ==
  ASSUME NEW s, NEW cat, NEW p
  PROVE  Ledger!UpdateUnitPrice(s, cat, p) = UpdateUnitPrice(s, cat, p)
BY DEF UpdateUnitPrice, Ledger!UpdateUnitPrice, EnergyExists, Ledger!EnergyExists,
       Error, Ledger!Error, Result, Ledger!Result, NoWrite, Ledger!NoWrite

LEMMA SameCreation ==
  ASSUME NEW s, NEW id, NEW u, NEW n, NEW cat, NEW time
  PROVE  Ledger!CreateEnergyToken(s, id, u, n, cat, time) = CreateEnergyToken(s, id, u, n, cat, time)
BY DEF CreateEnergyToken, Ledger!CreateEnergyToken, EnergyExists, Ledger!EnergyExists,
       Generated, Ledger!Generated,
       Error, Ledger!Error, Result, Ledger!Result, NoWrite, Ledger!NoWrite

LEMMA SameBids ==
  ASSUME NEW s, NEW bidList
  PROVE  Ledger!BidOnEnergy(s, bidList) = BidOnEnergy(s, bidList)
<1>1. \A b, in : Ledger!BidRefused(s, b, in) = BidRefused(s, b, in)
  BY DEF BidRefused, Ledger!BidRefused, EnergyExists, Ledger!EnergyExists,
         WrongCategory, Ledger!WrongCategory, LargeCategory, Ledger!LargeCategory
<1>2. \A in : Ledger!NewBid(in) = NewBid(in)
  BY DEF NewBid, Ledger!NewBid, NoProducer, Ledger!NoProducer
<1> QED
  BY <1>1, <1>2 DEF BidOnEnergy, Ledger!BidOnEnergy,
     Error, Ledger!Error, Result, Ledger!Result, NoWrite, Ledger!NoWrite

LEMMA SameSettlement ==
  ASSUME NEW s, NEW in, NEW bidInput
  PROVE  Ledger!AuctionEnd(s, in, bidInput) = AuctionEnd(s, in, bidInput)
<1>1. \A e, award : Ledger!AwardCheck(s, e, award) = AwardCheck(s, e, award)
  BY DEF AwardCheck, Ledger!AwardCheck, EnergyExists, Ledger!EnergyExists
<1>2. \A e : Ledger!AwardFlaws(s, e, bidInput) = AwardFlaws(s, e, bidInput)
  BY <1>1 DEF AwardFlaws, Ledger!AwardFlaws
<1>3. Ledger!Awarded(bidInput) = Awarded(bidInput)
  BY DEF Awarded, Ledger!Awarded
<1>0. \A S : Ledger!Max(S) = Max(S)
  BY DEF Max, Ledger!Max
<1>4. \A e, n : Ledger!Settle(s, e, n, bidInput) = Settle(s, e, n, bidInput)
  BY <1>0, <1>3 DEF Settle, Ledger!Settle, AfterSale, Ledger!AfterSale, AfterAward, Ledger!AfterAward,
         AwardTo, Ledger!AwardTo
<1>5. \A S : Ledger!Min(S) = Min(S)
  BY DEF Min, Ledger!Min
<1>6. \A reads : Ledger!Error(reads) = Error(reads)
  BY DEF Error, Ledger!Error, NoWrite, Ledger!NoWrite
<1>7. \A msg, reads, w : Ledger!Result(msg, reads, w) = Result(msg, reads, w)
  BY DEF Result, Ledger!Result
<1>8. \A e, reads : Ledger!Stopped(s, e, bidInput, reads) = Stopped(s, e, bidInput, reads)
  BY <1>1, <1>2, <1>5, <1>6, <1>7 DEF Stopped, Ledger!Stopped, NoWrite, Ledger!NoWrite
<1> QED
  BY <1>2, <1>3, <1>4, <1>6, <1>7, <1>8 DEF AuctionEnd, Ledger!AuctionEnd,
     EnergyExists, Ledger!EnergyExists, Expired, Ledger!Expired, Oversells, Ledger!Oversells,
     OldMessage, Ledger!OldMessage, NoWrite, Ledger!NoWrite

\* A transaction that commits is a call of the ledger.
LEMMA CommitIsACall ==
  ASSUME HouseInv, NEW tx \in pool, Commit(tx)
  PROVE  Ledger!Next
<1>1. ~tx.stale /\ TxOK(tx, ws)
  BY DEF HouseInv, PoolOK, Commit
<1>2. Endorsed(tx, ws) /\ tx.req \in HouseRequests
  BY <1>1 DEF TxOK
<1>3. ws' = Apply(ws, Execute(ws, tx.req).writes)
  BY <1>2 DEF Endorsed, Commit
<1> DEFINE req == tx.req
<1>4. CASE req \in Creations
  <2>1. /\ req.op = "CreateEnergyToken" /\ req.id \in Energies /\ req.producer \in Users
        /\ req.amount \in Portions /\ req.cat \in Categories /\ req.time \in Clock
    BY <1>4 DEF Creations
  <2>2. Execute(ws, req)
          = CreateEnergyToken(ws, req.id, req.producer, req.amount, req.cat, req.time)
    BY <2>1 DEF Execute
  <2>3. ws' = Ledger!Apply(ws, Ledger!CreateEnergyToken(ws, req.id, req.producer, req.amount,
                                                        req.cat, req.time).writes)
    BY <1>3, <2>2, SameApply, SameCreation
  <2> HIDE DEF req
  <2> QED BY <2>1, <2>3 DEF Ledger!Next, Ledger!InvokeCreateEnergyToken, Ledger!Invoke
<1>5. CASE req \in Placements
  <2>1. req.op = "BidOnEnergy" /\ req.bidList \in HouseBatches
    BY <1>5 DEF Placements
  <2>2. Execute(ws, req) = BidOnEnergy(ws, req.bidList)
    BY <2>1 DEF Execute
  <2>3. ws' = Ledger!Apply(ws, Ledger!BidOnEnergy(ws, req.bidList).writes)
    BY <1>3, <2>2, SameApply, SameBids
  <2> HIDE DEF req
  <2> QED BY <2>1, <2>3 DEF Ledger!Next, Ledger!InvokeBidOnEnergy, Ledger!Invoke
<1>6. CASE req \in Settlements
  <2>1. /\ req.op = "AuctionEnd" /\ req.bidInput \in HouseAwards
        /\ req.in \in [id : Energies, amount : Portions \cup {0}, time : Clock]
    BY <1>6 DEF Settlements
  <2>2. Execute(ws, req) = AuctionEnd(ws, req.in, req.bidInput)
    BY <2>1 DEF Execute
  <2>3. ws' = Ledger!Apply(ws, Ledger!AuctionEnd(ws, req.in, req.bidInput).writes)
    BY <1>3, <2>2, SameApply, SameSettlement
  <2>4. /\ req.in.id \in Energies /\ req.in.amount \in Portions \cup {0} /\ req.in.time \in Clock
        /\ req.in = [id |-> req.in.id, amount |-> req.in.amount, time |-> req.in.time]
    BY <2>1
  <2>5. ~(req.in.amount < 0)
    <3>1. Portions \cup {0} \subseteq Nat
      BY Numbers
    <3>2. \A n \in Nat : ~(n < 0)
      OBVIOUS
    <3>3. req.in.amount \in Nat
      BY <2>4, <3>1
    <3> QED BY <3>2, <3>3
  <2>6. \A out : ~Ledger!TakesBack(out, req.in.amount)
    BY <2>5 DEF Ledger!TakesBack
  <2>7. \A out : {} = {} \cup {r \in {req.in.id} : Ledger!TakesBack(out, req.in.amount)}
    BY <2>6
  <2> DEFINE e == req.in.id
             amount == req.in.amount
             time == req.in.time
             outcome == Ledger!AuctionEnd(ws, [id |-> e, amount |-> amount, time |-> time], req.bidInput)
  <2>8. /\ Ledger!Invoke(outcome)
        /\ {} = {} \cup {r \in {e} : Ledger!TakesBack(outcome, amount)}
    BY <2>3, <2>4, <2>7 DEF Ledger!Invoke
  <2>9. Ledger!InvokeAuctionEnd
    BY <2>1, <2>4, <2>8 DEF Ledger!InvokeAuctionEnd
  <2> QED BY <2>9 DEF Ledger!Next
<1> QED BY <1>2, <1>4, <1>5, <1>6 DEF HouseRequests

LEMMA LedgerInit == Init => Ledger!Init
<1>1. EmptyState = Ledger!EmptyState
  BY DEF EmptyState, Ledger!EmptyState, Keys, Ledger!Keys
<1>2. InitLedger(EmptyState) = Ledger!InitLedger(Ledger!EmptyState)
  BY DEF InitLedger, Ledger!InitLedger, Result, Ledger!Result
<1> QED BY <1>1, <1>2, SameApply DEF Init, GatewayInit, Ledger!Init

LEMMA LedgerStep == HouseInv /\ [Next]_vars => [Ledger!Next]_(Ledger!ledgerVars)
<1> SUFFICES ASSUME HouseInv, [Next]_vars, ws' # ws PROVE Ledger!Next
  BY DEF Ledger!ledgerVars
<1>1. CASE Network
  <2>1. PICK tx \in pool : Commit(tx)
    BY <1>1 DEF Network, GatewayNext, Invalidate, GiveUp, Drop, ClockTick
  <2> QED BY <2>1, CommitIsACall
<1>2. CASE PriceUpdate
  <2>1. PICK cat \in Categories, p \in NewPrices :
          ws' = Apply(ws, UpdateUnitPrice(ws, cat, p).writes)
    BY <1>2 DEF PriceUpdate
  <2>2. ws' = Ledger!Apply(ws, Ledger!UpdateUnitPrice(ws, cat, p).writes)
    BY <2>1, SameApply, SamePrice
  <2>3. p \in UnitPrices
    BY DEF UnitPrices
  <2> QED BY <2>2, <2>3 DEF Ledger!Next, Ledger!InvokeUpdateUnitPrice, Ledger!Invoke
<1>3. CASE Producers
  BY <1>3 DEF Producers, ProducerNext, ProducerStep, Produce, CreateToken, Created, CreateFailed,
              EndTimer, Tick, TimeUp, Query, SubmitEnd, Ended, EndFailed, QueryFailed, Submit,
              TakeReply, Evaluate, EvaluateFails, gatewayVars
<1>4. CASE BuyersStart \/ BuyersPlace
  BY <1>4 DEF BuyersStart, BuyersPlace, Bidding, StampBids, BuyerStep, SendBids, BidsPlaced,
              BidsFailed, Submit, TakeReply, gatewayVars
<1>5. CASE UNCHANGED vars
  BY <1>5 DEF vars
<1> QED BY <1>1, <1>2, <1>3, <1>4, <1>5 DEF Next

\* The world state only ever changes by one contract function executed as a
\* whole on the state it finds (ImplementsLedger): endorsing on an older state,
\* waiting, giving up and sending again are never visible in it.
THEOREM MarketImplementsLedger == Spec => ImplementsLedger
<1>1. Spec => [][Ledger!Next]_(Ledger!ledgerVars)
  BY HouseInvHolds, LedgerStep, PTL DEF Spec
<1> QED BY <1>1, LedgerInit, PTL DEF Spec, ImplementsLedger, Ledger!Spec

-----------------------------------------------------------------------------
(* What stays as it is, for any producers, buyers, tokens and bids, and any   *)
(* delays, failures and retries: a settled bid, the last answer to an         *)
(* auction, the bids a buyer counts on.                                       *)


-----------------------------------------------------------------------------
(* What a request that is no error writes.                                    *)

LEMMA CreationWrites ==
  ASSUME NEW s, World(s), NEW req \in Creations, ~Execute(s, req).err
  PROVE  /\ s[req.id] = Absent
         /\ Execute(s, req).writes
              = [k \in {req.id} |-> Generated(s, req.producer, req.amount, req.cat, req.time)]
         /\ Execute(s, req).reads = {req.cat, req.id}
<1>1. req.op = "CreateEnergyToken"
  BY DEF Creations
<1>2. Execute(s, req)
        = CreateEnergyToken(s, req.id, req.producer, req.amount, req.cat, req.time)
  BY <1>1 DEF Execute
<1> QED BY <1>2 DEF CreateEnergyToken, EnergyExists, Error, Result

LEMMA PlacementWrites ==
  ASSUME NEW s, World(s), NEW req \in Placements, ~Execute(s, req).err
  PROVE  /\ \A b \in DOMAIN req.bidList :
              /\ b \in Bids /\ req.bidList[b] \in HouseBids
              /\ s[b] = Absent /\ s[req.bidList[b].energy] # Absent
         /\ Execute(s, req).writes = [b \in DOMAIN req.bidList |-> NewBid(req.bidList[b])]
         /\ DOMAIN req.bidList \subseteq Execute(s, req).reads
<1>1. req.op = "BidOnEnergy" /\ req.bidList \in HouseBatches
  BY DEF Placements
<1>2. Execute(s, req) = BidOnEnergy(s, req.bidList)
  BY <1>1 DEF Execute
<1>3. \A b \in DOMAIN req.bidList : b \in Bids /\ req.bidList[b] \in HouseBids
  BY <1>1, BidsOutcome
<1>4. \A b \in DOMAIN req.bidList : ~BidRefused(s, b, req.bidList[b])
  BY <1>2 DEF BidOnEnergy, Error
<1>5. /\ Execute(s, req).writes = [b \in DOMAIN req.bidList |-> NewBid(req.bidList[b])]
      /\ DOMAIN req.bidList \subseteq Execute(s, req).reads
  BY <1>2, <1>4 DEF BidOnEnergy, Result
<1> QED BY <1>3, <1>4, <1>5 DEF BidRefused, EnergyExists

\* A settlement marks the token old, or stops without a write, or settles.
TurnsOld(s, in, out) ==
  /\ Expired(in.time, s[in.id].gen)
  /\ out.msg = OldMessage
  /\ out.writes = [k \in {in.id} |-> [s[in.id] EXCEPT !.status = "old"]]

Refuses(s, in, list, out) ==
  /\ ~Expired(in.time, s[in.id].gen)
  /\ out.writes = NoWrite
  /\ \/ out.msg = "energy amount is wrong"
     \/ \E i \in DOMAIN list : /\ out.msg = AwardCheck(s, in.id, list[i])
                               /\ out.msg \notin {"error", "fine"}

Settles(s, in, list, out) ==
  /\ ~Expired(in.time, s[in.id].gen)
  /\ ~Oversells(s[in.id], in.amount)
  /\ \A i \in DOMAIN list : AwardCheck(s, in.id, list[i]) = "fine"
  /\ out.msg = IF s[in.id].amount = s[in.id].sold + in.amount
               THEN "auction end" ELSE "auction continue"
  /\ out.writes = Settle(s, in.id, in.amount, list)
  /\ Awarded(list) \subseteq Bids
  /\ Awarded(list) \subseteq out.reads

LEMMA SettlementWrites ==
  ASSUME NEW s, World(s), NEW req \in Settlements, ~Execute(s, req).err
  PROVE  LET out == Execute(s, req) IN
         /\ req.in.id \in Energies /\ s[req.in.id] \in HouseToken /\ s[req.in.id] # Absent
         /\ req.in.id \in out.reads
         /\ \/ TurnsOld(s, req.in, out)
            \/ Refuses(s, req.in, req.bidInput, out)
            \/ Settles(s, req.in, req.bidInput, out)
<1> DEFINE in == req.in
           e == in.id
           list == req.bidInput
           reads == {e} \cup (Awarded(list) \ {OldId})
           out == AuctionEnd(s, in, list)
<1>1. /\ req.op = "AuctionEnd" /\ list \in HouseAwards
      /\ in \in [id : Energies, amount : Portions \cup {0}, time : Clock]
  BY DEF Settlements
<1>2. Execute(s, req) = out
  BY <1>1 DEF Execute
<1>3. EnergyExists(s, e)
  <2>1. SUFFICES ASSUME ~EnergyExists(s, e) PROVE FALSE
    OBVIOUS
  <2>2. out = Error({e})
    BY <2>1 DEF AuctionEnd
  <2>3. Execute(s, req).err = TRUE
    BY <1>2, <2>2 DEF Error
  <2> QED BY <2>3
<1>4. e \in Energies /\ s[e] \in HouseToken /\ s[e] # Absent
  BY <1>1, <1>3 DEF World, EnergyExists
<1>5. CASE Expired(in.time, s[e].gen)
  <2>1. out = Result(OldMessage, {e}, [k \in {e} |-> [s[e] EXCEPT !.status = "old"]])
    BY <1>3, <1>5 DEF AuctionEnd
  <2> QED BY <1>2, <1>4, <1>5, <2>1 DEF Result, TurnsOld
<1>6. CASE ~Expired(in.time, s[e].gen) /\ Oversells(s[e], in.amount)
  <2>1. out = Result("energy amount is wrong", {e}, NoWrite)
    BY <1>3, <1>6 DEF AuctionEnd
  <2> HIDE DEF out
  <2>2. out.msg = "energy amount is wrong" /\ out.writes = NoWrite /\ e \in out.reads
    BY <2>1 DEF Result
  <2> QED BY <1>2, <1>4, <1>6, <2>2 DEF Refuses, out
<1>7. CASE /\ ~Expired(in.time, s[e].gen) /\ ~Oversells(s[e], in.amount)
           /\ AwardFlaws(s, e, list) # {}
  <2>1. out = Stopped(s, e, list, reads)
    BY <1>3, <1>7 DEF AuctionEnd
  <2> DEFINE flaws == AwardFlaws(s, e, list)
             first == Min(flaws)
  <2>2. flaws \in SUBSET Nat /\ flaws # {}
    BY <1>1, <1>7, AwardFacts DEF AwardFlaws
  <2> HIDE DEF flaws
  <2>3. PICK least \in flaws : \A i \in flaws : least =< i
    BY <2>2, LeastOf
  <2>4. first \in flaws
    BY <2>3 DEF Min
  <2>5. first \in DOMAIN list /\ AwardCheck(s, e, list[first]) # "fine"
    BY <2>4 DEF AwardFlaws, flaws
  <2>6. AwardCheck(s, e, list[first]) # "error"
    BY <1>2, <2>1 DEF Stopped, Error, flaws
  <2>7. out = Result(AwardCheck(s, e, list[first]), reads, NoWrite)
    BY <2>1, <2>6 DEF Stopped, flaws
  <2> HIDE DEF first
  <2>8. /\ out.writes = NoWrite /\ e \in out.reads
        /\ out.msg = AwardCheck(s, e, list[first])
    BY <2>7 DEF Result
  <2> QED BY <1>2, <1>4, <1>7, <2>5, <2>6, <2>8 DEF Refuses
<1>8. CASE /\ ~Expired(in.time, s[e].gen) /\ ~Oversells(s[e], in.amount)
           /\ AwardFlaws(s, e, list) = {}
  <2>1. out = Result(IF s[e].amount = s[e].sold + in.amount
                     THEN "auction end" ELSE "auction continue",
                     reads, Settle(s, e, in.amount, list))
    BY <1>3, <1>8 DEF AuctionEnd
  <2>2. \A i \in DOMAIN list : AwardCheck(s, e, list[i]) = "fine"
    BY <1>8 DEF AwardFlaws
  <2>3. \A i \in DOMAIN list : list[i].id # OldId
    BY <2>2 DEF AwardCheck
  <2>4. Awarded(list) \subseteq Bids /\ OldId \notin Awarded(list)
    BY <1>1, <2>3, AwardFacts DEF Awarded
  <2> HIDE DEF out, reads
  <2>5. /\ out.msg = (IF s[e].amount = s[e].sold + in.amount
                      THEN "auction end" ELSE "auction continue")
        /\ out.writes = Settle(s, e, in.amount, list)
        /\ out.reads = reads
    BY <2>1 DEF Result
  <2>6. Awarded(list) \subseteq out.reads /\ e \in out.reads
    BY <2>4, <2>5 DEF reads
  <2> HIDE DEF in, list
  <2>7. Settles(s, in, list, out)
    BY <1>8, <2>2, <2>4, <2>5, <2>6 DEF Settles, e
  <2> QED BY <1>2, <1>4, <2>6, <2>7 DEF out, in, list
<1> QED BY <1>5, <1>6, <1>7, <1>8

-----------------------------------------------------------------------------
(* What an endorsed transaction that is not stale will write.                 *)

\* Fresh(tx): it is as good as executed on the world as it is.
Fresh(tx) == World(ws) /\ TxOK(tx, ws) /\ ~tx.stale

\* A key is only written by a function that has read it.
LEMMA WritesAreRead ==
  ASSUME NEW tx, Fresh(tx)
  PROVE  DOMAIN tx.writes \subseteq tx.reads
<1> DEFINE out == Execute(ws, tx.req)
<1>1. ~out.err /\ out.writes = tx.writes /\ out.reads = tx.reads /\ tx.req \in HouseRequests
  BY DEF Fresh, TxOK, Endorsed
<1>2. CASE tx.req \in Creations
  <2>1. /\ out.reads = {tx.req.cat, tx.req.id}
        /\ out.writes = [k \in {tx.req.id} |-> Generated(ws, tx.req.producer, tx.req.amount,
                                                       tx.req.cat, tx.req.time)]
    BY <1>1, <1>2, CreationWrites DEF Fresh
  <2> QED BY <1>1, <2>1
<1>3. CASE tx.req \in Placements
  <2>1. /\ DOMAIN tx.req.bidList \subseteq out.reads
        /\ out.writes = [b \in DOMAIN tx.req.bidList |-> NewBid(tx.req.bidList[b])]
    BY <1>1, <1>3, PlacementWrites DEF Fresh
  <2> QED BY <1>1, <2>1
<1>4. CASE tx.req \in Settlements
  <2>1. /\ tx.req.in.id \in out.reads
        /\ \/ TurnsOld(ws, tx.req.in, out)
           \/ Refuses(ws, tx.req.in, tx.req.bidInput, out)
           \/ Settles(ws, tx.req.in, tx.req.bidInput, out)
    BY <1>1, <1>4, SettlementWrites DEF Fresh
  <2>2. \/ DOMAIN out.writes = {}
        \/ DOMAIN out.writes = {tx.req.in.id}
        \/ /\ DOMAIN out.writes = {tx.req.in.id} \cup Awarded(tx.req.bidInput)
           /\ Awarded(tx.req.bidInput) \subseteq out.reads
    BY <2>1 DEF TurnsOld, Refuses, Settles, NoWrite, Settle
  <2> QED BY <1>1, <2>1, <2>2
<1> QED BY <1>1, <1>2, <1>3, <1>4 DEF HouseRequests

\* A bid is placed once, and settled for a token it is on.
LEMMA BidWritten ==
  ASSUME NEW tx, Fresh(tx), NEW b \in Bids, b \in DOMAIN tx.writes
  PROVE  \/ /\ tx.req \in Placements /\ b \in DOMAIN tx.req.bidList
            /\ ws[b] = Absent
            /\ ws[tx.req.bidList[b].energy] # Absent
            /\ tx.req.bidList[b].energy \in Energies
            /\ tx.writes[b] = NewBid(tx.req.bidList[b])
         \/ /\ tx.req \in Settlements
            /\ ws[b] \in HouseBid /\ ws[b] # Absent /\ ws[b].energy = tx.req.in.id
            /\ ws[tx.req.in.id] # Absent
            /\ \E i \in DOMAIN tx.req.bidInput :
                 /\ tx.req.bidInput[i].id = b
                 /\ tx.req.bidInput[i].amount =< ws[b].bidAmount
                 /\ tx.writes[b] = AfterAward(ws[b], tx.req.bidInput[i].amount,
                                              ws[tx.req.in.id].producer)
<1> DEFINE out == Execute(ws, tx.req)
           req == tx.req
<1>1. ~out.err /\ out.writes = tx.writes /\ req \in HouseRequests /\ World(ws)
  BY DEF Fresh, TxOK, Endorsed
<1>2. CASE req \in Creations
  <2>1. out.writes = [k \in {req.id} |-> Generated(ws, req.producer, req.amount, req.cat, req.time)]
    BY <1>1, <1>2, CreationWrites
  <2>2. b = req.id
    BY <1>1, <2>1
  <2>3. req.id \in Energies
    BY <1>2 DEF Creations
  <2> QED BY <2>2, <2>3, KeyKinds
<1>3. CASE req \in Placements
  <2>1. b \in DOMAIN req.bidList /\ out.writes = [k \in DOMAIN req.bidList |-> NewBid(req.bidList[k])]
    BY <1>1, <1>3, PlacementWrites
  <2>2. ws[b] = Absent /\ ws[req.bidList[b].energy] # Absent /\ req.bidList[b] \in HouseBids
    BY <1>1, <1>3, <2>1, PlacementWrites
  <2>3. req.bidList[b].energy \in Energies
    BY <2>2 DEF HouseBids
  <2> QED BY <1>1, <1>3, <2>1, <2>2, <2>3
<1>4. CASE req \in Settlements
  <2> DEFINE e == req.in.id
             list == req.bidInput
  <2>1. /\ e \in Energies /\ ws[e] # Absent
        /\ \/ TurnsOld(ws, req.in, out)
           \/ Refuses(ws, req.in, list, out)
           \/ Settles(ws, req.in, list, out)
    BY <1>1, <1>4, SettlementWrites
  <2>2. b # e
    BY <2>1, KeyKinds
  <2>3. ~TurnsOld(ws, req.in, out) /\ ~Refuses(ws, req.in, list, out)
    BY <1>1, <2>2 DEF TurnsOld, Refuses, NoWrite
  <2>4. Settles(ws, req.in, list, out)
    BY <2>1, <2>3
  <2>5. out.writes = Settle(ws, e, req.in.amount, list)
    BY <2>4 DEF Settles
  <2>6. list \in HouseAwards
    BY <1>4 DEF Settlements
  <2>7. PICK i \in DOMAIN list : list[i].id = b
    BY <1>1, <2>2, <2>5 DEF Settle, Awarded
  <2>8. tx.writes[b] = AfterAward(ws[b], AwardTo(list, b), ws[e].producer)
    BY <1>1, <2>2, <2>5 DEF Settle
  <2>9. AwardTo(list, b) = list[i].amount
    BY <2>6, <2>7, AwardFacts
  <2>10. AwardCheck(ws, e, list[i]) = "fine" /\ b # OldId
    BY <2>4, <2>7, KeyKinds DEF Settles
  <2>11. ws[b] # Absent /\ ws[b].energy = e /\ ~(list[i].amount > ws[b].bidAmount)
    BY <2>7, <2>10 DEF AwardCheck, EnergyExists
  <2>12. ws[b] \in HouseBid
    BY <1>1, <2>11 DEF World
  <2>13. list[i].amount =< ws[b].bidAmount
    <3>1. ws[b].bidAmount \in Nat /\ list[i].amount \in Nat
      BY <2>6, <2>12, AwardFacts, Numbers DEF HouseBid
    <3> QED BY <2>11, <3>1
  <2> QED BY <1>4, <2>1, <2>7, <2>8, <2>9, <2>11, <2>12, <2>13
<1> QED BY <1>1, <1>2, <1>3, <1>4 DEF HouseRequests

\* A token is created once, and a settlement keeps whose it is and how old.
LEMMA TokenWritten ==
  ASSUME NEW tx, Fresh(tx), NEW e \in Energies, e \in DOMAIN tx.writes
  PROVE  \/ /\ tx.req \in Creations /\ tx.req.id = e /\ ws[e] = Absent
            /\ tx.writes[e] \in HouseToken /\ tx.writes[e].gen = tx.req.time
         \/ /\ tx.req \in Settlements /\ tx.req.in.id = e /\ ws[e] # Absent
            /\ tx.writes[e] \in HouseToken
            /\ tx.writes[e].gen = ws[e].gen /\ tx.writes[e].producer = ws[e].producer
<1> DEFINE out == Execute(ws, tx.req)
           req == tx.req
<1>1. /\ ~out.err /\ out.writes = tx.writes /\ req \in HouseRequests /\ World(ws)
      /\ tx.writes[e] \in HouseToken
  BY DEF Fresh, TxOK, Endorsed, GoodWrites
<1>2. CASE req \in Creations
  <2>1. /\ ws[req.id] = Absent
        /\ out.writes = [k \in {req.id} |-> Generated(ws, req.producer, req.amount, req.cat, req.time)]
    BY <1>1, <1>2, CreationWrites
  <2>2. e = req.id /\ tx.writes[e] = Generated(ws, req.producer, req.amount, req.cat, req.time)
    BY <1>1, <2>1
  <2> QED BY <1>1, <1>2, <2>1, <2>2 DEF Generated
<1>3. CASE req \in Placements
  <2>1. /\ \A b \in DOMAIN req.bidList : b \in Bids
        /\ out.writes = [b \in DOMAIN req.bidList |-> NewBid(req.bidList[b])]
    BY <1>1, <1>3, PlacementWrites
  <2>2. e \in Bids
    BY <1>1, <2>1
  <2> QED BY <2>2, KeyKinds
<1>4. CASE req \in Settlements
  <2> DEFINE f == req.in.id
             list == req.bidInput
  <2>1. /\ f \in Energies /\ ws[f] \in HouseToken /\ ws[f] # Absent
        /\ \/ TurnsOld(ws, req.in, out)
           \/ Refuses(ws, req.in, list, out)
           \/ Settles(ws, req.in, list, out)
    BY <1>1, <1>4, SettlementWrites
  <2>2. CASE TurnsOld(ws, req.in, out)
    <3>1. e = f /\ tx.writes[e] = [ws[f] EXCEPT !.status = "old"]
      BY <1>1, <2>2 DEF TurnsOld
    <3> QED BY <1>1, <1>4, <2>1, <3>1 DEF HouseToken
  <2>3. CASE Refuses(ws, req.in, list, out)
    BY <1>1, <2>3 DEF Refuses, NoWrite
  <2>4. CASE Settles(ws, req.in, list, out)
    <3>1. out.writes = Settle(ws, f, req.in.amount, list) /\ Awarded(list) \subseteq Bids
      BY <2>4 DEF Settles
    <3>2. e \in {f} \cup Awarded(list)
      BY <1>1, <3>1 DEF Settle
    <3>3. e = f
      BY <3>1, <3>2, KeyKinds
    <3>4. tx.writes[e] = AfterSale(ws[f], req.in.amount)
      BY <1>1, <3>1, <3>3 DEF Settle
    <3> QED BY <1>1, <1>4, <2>1, <3>3, <3>4 DEF HouseToken, AfterSale
  <2> QED BY <2>1, <2>2, <2>3, <2>4
<1> QED BY <1>1, <1>2, <1>3, <1>4 DEF HouseRequests

-----------------------------------------------------------------------------
(* The invariant behind AwardsAreFinal.  A bid may be settled twice: when an  *)
(* answer is lost the settlement is sent again, and both may commit.  Both    *)
(* write the same record, because                                             *)
(*   - every settlement of a goroutine that can still write is the one it is  *)
(*     working on, or the goroutine is done (Current);                        *)
(*   - what the goroutine is working on agrees with what is settled           *)
(*     (OfferSound);                                                          *)
(*   - so does every transaction that is not stale (Lasting).                 *)

EndRequest(a) ==
  [op |-> "AuctionEnd", bidInput |-> a.offer,
   in |-> [id |-> a.id, amount |-> a.amount, time |-> a.ts]]

PlaceRequest(k) == [op |-> "BidOnEnergy", bidList |-> k.list]

\* Who sends what: tokens are created and settled by the goroutine they belong to.
Owned(tx) ==
  /\ tx.req \in Creations =>
       /\ tx.client \in Makers /\ tx.req.id \in TokenIds[tx.client]
       /\ auction[tx.client].pc # "idle" /\ tx.req.time = auction[tx.client].gen
  /\ tx.req \in Settlements => tx.client \in Makers /\ tx.req.in.id \in TokenIds[tx.client]
  /\ tx.req \in Placements => tx.client \in Buyers

\* A client that waits has no answer yet, waits for one transaction, and that is
\* the one it has sent last.
Awaiting(tx) ==
  tx.awaited =>
    /\ reply[tx.client].kind = "none"
    /\ \A other \in pool : other.awaited /\ other.client = tx.client => other = tx
    /\ tx.client \in Makers =>
         \/ auction[tx.client].pc = "creating"
         \/ auction[tx.client].pc = "submitted" /\ tx.req = EndRequest(auction[tx.client])
    /\ tx.client \in Buyers =>
         basket[tx.client].pc = "sent" /\ tx.req = PlaceRequest(basket[tx.client])

Effective(tx) == tx.req \in Settlements /\ ~tx.stale /\ DOMAIN tx.writes # {}

Current(tx) ==
  Effective(tx) =>
    \/ auction[tx.client].pc = "done"
    \/ /\ auction[tx.client].pc \in {"submit", "submitted"}
       /\ tx.req = EndRequest(auction[tx.client])
       /\ auction[tx.client].pc = "submitted" => reply[tx.client].kind # "ok"

Settled(v) == v # Absent /\ v.status = "success"

Lasting(tx) ==
  ~tx.stale => \A b \in Bids : b \in DOMAIN tx.writes /\ Settled(ws[b]) => tx.writes[b] = ws[b]

BidsSound ==
  \A b \in Bids : ws[b] # Absent =>
    /\ ws[ws[b].energy] # Absent
    /\ Settled(ws[b]) => ws[b].producer = ws[ws[b].energy].producer

OfferSound(a) ==
  a.pc \in {"submit", "submitted"} =>
    \A i \in DOMAIN a.offer :
      IF a.offer[i].id = OldId THEN a.ts > a.gen + TokenLife
      ELSE LET v == ws[a.offer[i].id] IN
           /\ v # Absent /\ v.energy = a.id
           /\ a.offer[i].amount =< v.bidAmount
           /\ Settled(v) => v.amount = a.offer[i].amount

FinalInv ==
  /\ HouseInv
  /\ DOMAIN reply = Clients
  /\ \A tx \in pool : Owned(tx) /\ Awaiting(tx) /\ Current(tx) /\ Lasting(tx)
  /\ BidsSound
  /\ \A m \in Makers : OfferSound(auction[m])

\* The kinds of requests and of answers.
LEMMA Kinds ==
  /\ \A req \in Creations : req \notin Placements /\ req \notin Settlements
  /\ \A req \in Placements : req \notin Creations /\ req \notin Settlements
  /\ \A req \in Settlements : req \notin Creations /\ req \notin Placements
  /\ NoReply.kind = "none" /\ Failed.kind = "error"
  /\ \A msg : Succeeded(msg).kind = "ok" /\ Succeeded(msg).msg = msg
<1>1. \A req \in Creations : req.op = "CreateEnergyToken"
  BY DEF Creations
<1>2. \A req \in Placements : req.op = "BidOnEnergy"
  BY DEF Placements
<1>3. \A req \in Settlements : req.op = "AuctionEnd"
  BY DEF Settlements
<1> QED BY <1>1, <1>2, <1>3 DEF NoReply, Failed, Succeeded

-----------------------------------------------------------------------------
(* A goroutine of a producer moves without sending anything.                  *)

LEMMA MakerMoves ==
  ASSUME FinalInv, NEW m \in Makers, NEW a,
         UNCHANGED <<ws, pool, basket>>,
         HouseInv',
         reply' \in {reply, [reply EXCEPT ![m] = NoReply]},
         auction' = [auction EXCEPT ![m] = a],
         \A tx \in pool : tx.client = m => ~tx.awaited,
         auction[m].pc # "idle" => a.pc # "idle" /\ a.gen = auction[m].gen,
         \A tx \in pool : tx.client = m /\ Effective(tx) =>
           \/ a.pc = "done"
           \/ /\ a.pc \in {"submit", "submitted"}
              /\ tx.req = EndRequest(a)
              /\ a.pc = "submitted" => reply'[m].kind # "ok",
         OfferSound(a)
  PROVE  FinalInv'
<1>1. \A n \in Makers : n # m => auction'[n] = auction[n]
  BY DEF FinalInv, HouseInv, AuctionsOK
<1>2. auction'[m] = a
  BY DEF FinalInv, HouseInv, AuctionsOK
<1>3. \A c \in Clients : c # m => reply'[c] = reply[c]
  BY DEF FinalInv
<1>4. DOMAIN reply' = Clients
  BY DEF FinalInv
<1>5. ASSUME NEW tx \in pool PROVE Owned(tx)' /\ Awaiting(tx)' /\ Current(tx)' /\ Lasting(tx)'
  <2>1. Owned(tx) /\ Awaiting(tx) /\ Current(tx) /\ Lasting(tx) /\ TxOK(tx, ws)
    BY DEF FinalInv, HouseInv, PoolOK
  <2>2. Owned(tx)'
    BY <1>1, <1>2, <2>1 DEF Owned
  <2>3. Awaiting(tx)'
    <3>1. CASE tx.awaited
      <4>1. tx.client # m /\ tx.client \in Clients
        BY <2>1, <3>1 DEF TxOK
      <4> QED BY <1>1, <1>3, <2>1, <4>1 DEF Awaiting
    <3> QED BY <3>1 DEF Awaiting
  <2>4. Current(tx)'
    <3>1. CASE Effective(tx)
      <4>1. tx.client \in Makers /\ tx.client \in Clients
        BY <2>1, <3>1, ProducerAssumption DEF Owned, Effective
      <4>2. CASE tx.client = m
        BY <1>2, <3>1, <4>2 DEF Current
      <4>3. CASE tx.client # m
        BY <1>1, <1>3, <2>1, <3>1, <4>1, <4>3 DEF Current
      <4> QED BY <4>2, <4>3
    <3>2. CASE ~Effective(tx)
      BY <3>2 DEF Current, Effective
    <3> QED BY <3>1, <3>2
  <2>5. Lasting(tx)'
    BY <2>1 DEF Lasting
  <2> QED BY <2>2, <2>3, <2>4, <2>5
<1>6. BidsSound'
  BY DEF FinalInv, BidsSound
<1>7. ASSUME NEW n \in Makers PROVE OfferSound(auction[n])'
  <2>1. CASE n = m
    BY <1>2, <2>1 DEF OfferSound
  <2>2. CASE n # m
    <3>1. OfferSound(auction[n])
      BY DEF FinalInv
    <3> QED BY <1>1, <2>2, <3>1 DEF OfferSound
  <2> QED BY <2>1, <2>2
<1> QED BY <1>4, <1>5, <1>6, <1>7 DEF FinalInv

\* What the invariant says of a goroutine that is not sending.
LEMMA NothingPending ==
  ASSUME FinalInv, NEW m \in Makers
  PROVE  /\ AuctionOK(auction[m], m)
         /\ auction[m].pc \notin {"creating", "submitted"} \/ reply[m].kind # "none" =>
              \A tx \in pool : tx.client = m => ~tx.awaited
         /\ auction[m].pc \notin {"submit", "submitted", "done"} =>
              \A tx \in pool : tx.client = m => ~Effective(tx)
         /\ auction[m].pc = "submitted" /\ reply[m].kind = "ok" =>
              \A tx \in pool : tx.client = m => ~Effective(tx)
         /\ auction[m].pc \in {"submit", "submitted"} =>
              \A tx \in pool : tx.client = m /\ Effective(tx) => tx.req = EndRequest(auction[m])
<1>1. AuctionOK(auction[m], m)
  BY DEF FinalInv, HouseInv, AuctionsOK
<1>2. \A tx \in pool : Awaiting(tx) /\ Current(tx)
  BY DEF FinalInv
<1>3. auction[m].pc \notin {"creating", "submitted"} \/ reply[m].kind # "none" =>
        \A tx \in pool : tx.client = m => ~tx.awaited
  BY <1>2 DEF Awaiting
<1> QED BY <1>1, <1>2, <1>3 DEF Current

LEMMA StartsOrWaits ==
  ASSUME FinalInv, HouseInv', NEW m \in Makers, UNCHANGED basket,
         Produce(m) \/ Created(m) \/ CreateFailed(m) \/ Tick(m)
  PROVE  FinalInv'
<1>1. /\ AuctionOK(auction[m], m)
      /\ auction[m].pc \notin {"submit", "submitted", "done"}
      /\ \A tx \in pool : tx.client = m => ~tx.awaited /\ ~Effective(tx)
  BY NothingPending DEF Produce, Created, CreateFailed, Tick, At
<1>2. UNCHANGED <<ws, pool>> /\ reply' \in {reply, [reply EXCEPT ![m] = NoReply]}
  BY DEF Produce, Created, CreateFailed, Tick, gatewayVars, TakeReply
<1>3. \E a : /\ auction' = [auction EXCEPT ![m] = a]
             /\ a.pc \in {"create", "wait", "query", "done"}
             /\ auction[m].pc # "idle" => a.gen = auction[m].gen
  <2>1. CASE Produce(m)
    <3> DEFINE a == [auction[m] EXCEPT !.pc = "create", !.gen = now]
    <3>1. auction' = [auction EXCEPT ![m] = a] /\ auction[m].pc = "idle"
      BY <2>1 DEF Produce, At
    <3>2. a.pc = "create"
      BY <1>1 DEF AuctionOK, AuctionFields
    <3> HIDE DEF a
    <3> QED BY <3>1, <3>2
  <2>2. CASE Created(m)
    <3> DEFINE due == auction[m].gen + Interval
               a == [auction[m] EXCEPT !.pc = "wait", !.tries = 0, !.due = due]
    <3>1. auction' = [auction EXCEPT ![m] = a]
      BY <2>2 DEF Created
    <3> HIDE DEF due
    <3>2. a.pc = "wait" /\ a.gen = auction[m].gen
      BY <1>1 DEF AuctionOK, AuctionFields
    <3> HIDE DEF a
    <3> QED BY <3>1, <3>2
  <2>3. CASE CreateFailed(m)
    <3> DEFINE tries == auction[m].tries + 1
               why == "many create error"
               a == [auction[m] EXCEPT !.pc = "create", !.id = NoId, !.tries = tries]
               f == [auction[m] EXCEPT !.pc = "done", !.tries = 0, !.due = 0, !.ts = 0,
                                       !.offer = NoOffer, !.amount = 0, !.last = why]
    <3>1. auction' = [auction EXCEPT ![m] = a] \/ auction' = [auction EXCEPT ![m] = f]
      BY <2>3 DEF CreateFailed, Finish
    <3> HIDE DEF tries, why
    <3>2. a.pc = "create" /\ a.gen = auction[m].gen /\ f.pc = "done" /\ f.gen = auction[m].gen
      BY <1>1 DEF AuctionOK, AuctionFields
    <3> HIDE DEF a, f
    <3> QED BY <3>1, <3>2
  <2>4. CASE Tick(m)
    <3> DEFINE ticks == auction[m].ticks + 1
               due == IF auction[m].ticks = 0 THEN now + Interval
                      ELSE auction[m].due
                             + Interval * (((now - auction[m].due) \div Interval) + 1)
               a == [auction[m] EXCEPT !.pc = "query", !.ts = now, !.ticks = ticks, !.due = due]
    <3>1. auction' = [auction EXCEPT ![m] = a]
      BY <2>4 DEF Tick
    <3> HIDE DEF ticks, due
    <3>2. a.pc = "query" /\ a.gen = auction[m].gen
      BY <1>1 DEF AuctionOK, AuctionFields
    <3> HIDE DEF a
    <3> QED BY <3>1, <3>2
  <2> QED BY <2>1, <2>2, <2>3, <2>4
<1>4. PICK a : /\ auction' = [auction EXCEPT ![m] = a]
               /\ a.pc \in {"create", "wait", "query", "done"}
               /\ auction[m].pc # "idle" => a.gen = auction[m].gen
  BY <1>3
<1>5. OfferSound(a)
  BY <1>4 DEF OfferSound
<1> QED BY <1>1, <1>2, <1>4, <1>5, MakerMoves

LEMMA FinishesOrContinues ==
  ASSUME FinalInv, NEW m \in Makers, NEW why,
         auction' = Finish(m, why) \/ auction' = Continue(m, why)
  PROVE  \E a : /\ auction' = [auction EXCEPT ![m] = a]
                /\ a.pc \in {"wait", "done"}
                /\ a.gen = auction[m].gen /\ a.id = auction[m].id /\ a.last = why
<1>1. AuctionOK(auction[m], m)
  BY NothingPending
<1> DEFINE f == [auction[m] EXCEPT !.pc = "done", !.tries = 0, !.due = 0, !.ts = 0,
                                   !.offer = NoOffer, !.amount = 0, !.last = why]
           a == [auction[m] EXCEPT !.pc = "wait", !.tries = 0, !.ts = 0,
                            !.offer = NoOffer, !.amount = 0, !.isSold = FALSE,
                            !.last = why]
<1>2. auction' = [auction EXCEPT ![m] = a] \/ auction' = [auction EXCEPT ![m] = f]
  BY DEF Finish, Waiting, Continue
<1>3. f.pc = "done" /\ f.gen = auction[m].gen /\ f.id = auction[m].id /\ f.last = why
  BY <1>1 DEF AuctionOK, AuctionFields
<1>4. a.pc = "wait" /\ a.gen = auction[m].gen /\ a.id = auction[m].id /\ a.last = why
  BY <1>1 DEF AuctionOK, AuctionFields
<1> HIDE DEF a, f
<1> QED BY <1>2, <1>3, <1>4

LEMMA Stops ==
  ASSUME FinalInv, HouseInv', NEW m \in Makers, UNCHANGED basket,
         EndTimer(m) \/ TimeUp(m) \/ Ended(m)
  PROVE  FinalInv'
<1>1. /\ AuctionOK(auction[m], m)
      /\ auction[m].pc # "idle"
      /\ \A tx \in pool : tx.client = m => ~tx.awaited
  BY NothingPending DEF EndTimer, TimeUp, Ended, At
<1>2. UNCHANGED <<ws, pool>> /\ reply' \in {reply, [reply EXCEPT ![m] = NoReply]}
  BY DEF EndTimer, TimeUp, Ended, gatewayVars, TakeReply
<1>3. \E a : /\ auction' = [auction EXCEPT ![m] = a]
             /\ a.pc \in {"wait", "done"} /\ a.gen = auction[m].gen
             /\ a.pc = "wait" => \A tx \in pool : tx.client = m => ~Effective(tx)
  <2>1. CASE EndTimer(m) \/ TimeUp(m)
    <3> DEFINE why == "time up"
               f == [auction[m] EXCEPT !.pc = "done", !.tries = 0, !.due = 0, !.ts = 0,
                                       !.offer = NoOffer, !.amount = 0, !.last = why]
    <3>1. auction' = [auction EXCEPT ![m] = f]
      BY <2>1 DEF EndTimer, TimeUp, Finish
    <3> HIDE DEF why
    <3>2. f.pc = "done" /\ f.gen = auction[m].gen
      BY <1>1 DEF AuctionOK, AuctionFields
    <3> HIDE DEF f
    <3> QED BY <3>1, <3>2
  <2>2. CASE Ended(m)
    <3>1. \A tx \in pool : tx.client = m => ~Effective(tx)
      BY <2>2, NothingPending DEF Ended, At
    <3>2. auction' = Finish(m, reply[m].msg) \/ auction' = Continue(m, reply[m].msg)
      BY <2>2 DEF Ended
    <3> QED BY <3>1, <3>2, FinishesOrContinues
  <2> QED BY <2>1, <2>2
<1>4. PICK a : /\ auction' = [auction EXCEPT ![m] = a]
               /\ a.pc \in {"wait", "done"} /\ a.gen = auction[m].gen
               /\ a.pc = "wait" => \A tx \in pool : tx.client = m => ~Effective(tx)
  BY <1>3
<1>5. OfferSound(a)
  BY <1>4 DEF OfferSound
<1> QED BY <1>1, <1>2, <1>4, <1>5, MakerMoves

\* What a tick offers is sound when it has just read the bids.
LEMMA OfferedIsSound ==
  ASSUME World(ws), NEW m \in Makers, NEW e, NEW ts,
         NEW q \in Rankings(AuctionEndQuery(ws, e, ts), ws),
         AuctionEndQuery(ws, e, ts) # {}
  PROVE  LET offer == Allocate(q, ws, Output[m]) IN
         \A i \in DOMAIN offer :
           /\ offer[i].id # OldId
           /\ ws[offer[i].id] # Absent /\ ws[offer[i].id].energy = e
           /\ ws[offer[i].id].status = "bid"
           /\ offer[i].amount =< ws[offer[i].id].bidAmount
<1> DEFINE open == AuctionEndQuery(ws, e, ts)
           offer == Allocate(q, ws, Output[m])
<1>1. /\ open \subseteq Bids
      /\ \A b \in open : ws[b] # Absent /\ ws[b].energy = e /\ ws[b].status = "bid"
  BY DEF AuctionEndQuery, BidsOn
<1> HIDE DEF open
<1>2. IsFiniteSet(open) /\ OldId \notin open
  BY <1>1, FS_Subset, ContractAssumption
<1>3. \A b \in open : ws[b].bidAmount \in Nat \ {0}
  BY <1>1, Numbers DEF World, HouseBid
<1>4. Output[m] \in Nat \ {0} /\ q \in Rankings(open, ws)
  BY Numbers DEF open
<1>5. OffersInOrder(offer, q, open, ws)
  BY <1>2, <1>3, <1>4, AllocationIsFair
<1> HIDE DEF offer
<1>6. ASSUME NEW i \in DOMAIN offer
      PROVE  offer[i].id \in open /\ offer[i].amount =< ws[offer[i].id].bidAmount
  <2>1. offer[i].id \in open /\ offer[i].amount \in 1..ws[offer[i].id].bidAmount
    BY <1>5 DEF OffersInOrder
  <2> QED BY <1>3, <2>1
<1> QED BY <1>1, <1>2, <1>6 DEF offer

LEMMA Offers ==
  ASSUME FinalInv, HouseInv', NEW m \in Makers, UNCHANGED basket, Query(m)
  PROVE  FinalInv'
<1> DEFINE open == AuctionEndQuery(ws, auction[m].id, auction[m].ts)
<1>1. /\ AuctionOK(auction[m], m) /\ World(ws)
      /\ auction[m].pc = "query"
      /\ \A tx \in pool : tx.client = m => ~tx.awaited /\ ~Effective(tx)
  BY NothingPending DEF Query, At, FinalInv, HouseInv
<1>2. UNCHANGED <<ws, pool>> /\ reply' = reply
  BY DEF Query, Evaluate, gatewayVars
<1>3. CASE auction' = Continue(m, "no bids")
  <2>1. PICK a : /\ auction' = [auction EXCEPT ![m] = a]
                 /\ a.pc \in {"wait", "done"} /\ a.gen = auction[m].gen
    BY <1>3, FinishesOrContinues
  <2>2. OfferSound(a)
    BY <2>1 DEF OfferSound
  <2> QED BY <1>1, <1>2, <2>1, <2>2, MakerMoves
<1>4. CASE /\ auction[m].ts > auction[m].gen + TokenLife \/ open # {}
           /\ \E q \in Rankings(open, ws) :
                auction' = [auction EXCEPT ![m] =
                  [@ EXCEPT !.pc = "submit", !.tries = 0,
                            !.offer = IF open = {} THEN <<[id |-> OldId, amount |-> 0]>>
                                      ELSE Allocate(q, ws, Output[m]),
                            !.amount = Allocated(q, ws, Output[m]),
                            !.isSold = TakesAll(q, ws, Output[m])]]
  <2>1. PICK q \in Rankings(open, ws) :
                auction' = [auction EXCEPT ![m] =
                  [@ EXCEPT !.pc = "submit", !.tries = 0,
                            !.offer = IF open = {} THEN <<[id |-> OldId, amount |-> 0]>>
                                      ELSE Allocate(q, ws, Output[m]),
                            !.amount = Allocated(q, ws, Output[m]),
                            !.isSold = TakesAll(q, ws, Output[m])]]
    BY <1>4
  <2> DEFINE offer == IF open = {} THEN <<[id |-> OldId, amount |-> 0]>>
                      ELSE Allocate(q, ws, Output[m])
             sold == Allocated(q, ws, Output[m])
             isSold == TakesAll(q, ws, Output[m])
             a == [auction[m] EXCEPT !.pc = "submit", !.tries = 0, !.offer = offer,
                                     !.amount = sold, !.isSold = isSold]
  <2>2. \A i \in DOMAIN offer :
          IF offer[i].id = OldId THEN auction[m].ts > auction[m].gen + TokenLife
          ELSE /\ ws[offer[i].id] # Absent /\ ws[offer[i].id].energy = auction[m].id
               /\ ws[offer[i].id].status = "bid"
               /\ offer[i].amount =< ws[offer[i].id].bidAmount
    <3>1. CASE open = {}
      <4>1. auction[m].ts > auction[m].gen + TokenLife
        BY <1>4, <3>1
      <4> HIDE DEF open
      <4>2. \A i \in DOMAIN offer : offer[i].id = OldId
        BY <3>1
      <4> QED BY <4>1, <4>2
    <3>2. CASE open # {}
      <4>1. offer = Allocate(q, ws, Output[m])
        BY <3>2
      <4> QED BY <1>1, <3>2, <4>1, OfferedIsSound
    <3> QED BY <3>1, <3>2
  <2>3. auction' = [auction EXCEPT ![m] = a]
    BY <2>1
  <2> HIDE DEF offer, sold, isSold
  <2>4. /\ a.pc = "submit" /\ a.gen = auction[m].gen
        /\ a.ts = auction[m].ts /\ a.id = auction[m].id /\ a.offer = offer
    BY <1>1 DEF AuctionOK, AuctionFields
  <2> HIDE DEF a
  <2>5. OfferSound(a)
    BY <2>2, <2>4 DEF OfferSound, Settled
  <2> QED BY <1>1, <1>2, <2>3, <2>4, <2>5, MakerMoves
<1> QED BY <1>3, <1>4 DEF Query, open

\* A failed call is made again, with what it was made with.
LEMMA CallAgain ==
  ASSUME FinalInv, NEW m \in Makers, NEW pc, CallFailed(m, pc)
  PROVE  \E a : /\ auction' = [auction EXCEPT ![m] = a]
                /\ a.pc \in {pc, auction[m].pc}
                /\ a.gen = auction[m].gen /\ a.id = auction[m].id /\ a.ts = auction[m].ts
                /\ a.offer = auction[m].offer /\ a.amount = auction[m].amount
                /\ a.last = auction[m].last
<1>1. AuctionOK(auction[m], m) /\ auction = [n \in Makers |-> auction[n]]
  BY NothingPending DEF FinalInv, HouseInv, AuctionsOK
<1>2. CASE auction' = auction
  <2>1. auction' = [auction EXCEPT ![m] = auction[m]]
    BY <1>1, <1>2
  <2> QED BY <2>1
<1>3. CASE auction' = [auction EXCEPT ![m] = [@ EXCEPT !.pc = pc, !.tries = auction[m].tries + 1]]
  <2> DEFINE tries == auction[m].tries + 1
             a == [auction[m] EXCEPT !.pc = pc, !.tries = tries]
  <2>1. auction' = [auction EXCEPT ![m] = a]
    BY <1>3
  <2> HIDE DEF tries
  <2>2. /\ a.pc = pc /\ a.gen = auction[m].gen /\ a.id = auction[m].id /\ a.ts = auction[m].ts
        /\ a.offer = auction[m].offer /\ a.amount = auction[m].amount
        /\ a.last = auction[m].last
    BY <1>1 DEF AuctionOK, AuctionFields
  <2> HIDE DEF a
  <2> QED BY <2>1, <2>2
<1> QED BY <1>2, <1>3 DEF CallFailed

LEMMA Retries ==
  ASSUME FinalInv, HouseInv', NEW m \in Makers, UNCHANGED basket,
         EndFailed(m) \/ QueryFailed(m)
  PROVE  FinalInv'
<1>1. CASE EndFailed(m)
  <2>1. /\ auction[m].pc = "submitted"
        /\ \A tx \in pool : tx.client = m => ~tx.awaited
        /\ \A tx \in pool : tx.client = m /\ Effective(tx) => tx.req = EndRequest(auction[m])
    BY <1>1, NothingPending DEF EndFailed, At
  <2>2. UNCHANGED <<ws, pool>> /\ reply' = [reply EXCEPT ![m] = NoReply]
    BY <1>1 DEF EndFailed, TakeReply
  <2>3. reply'[m].kind # "ok"
    <3>1. m \in DOMAIN reply
      BY ProducerAssumption DEF FinalInv
    <3> QED BY <2>2, <3>1, Kinds
  <2>4. PICK a : /\ auction' = [auction EXCEPT ![m] = a]
                 /\ a.pc \in {"submit", "submitted"}
                 /\ a.gen = auction[m].gen /\ a.id = auction[m].id /\ a.ts = auction[m].ts
                 /\ a.offer = auction[m].offer /\ a.amount = auction[m].amount
    BY <1>1, <2>1, CallAgain DEF EndFailed
  <2>5. OfferSound(auction[m])
    BY DEF FinalInv
  <2>6. OfferSound(a)
    BY <2>1, <2>4, <2>5 DEF OfferSound
  <2>7. EndRequest(a) = EndRequest(auction[m])
    BY <2>4 DEF EndRequest
  <2> QED BY <2>1, <2>2, <2>3, <2>4, <2>6, <2>7, MakerMoves
<1>2. CASE QueryFailed(m)
  <2>1. /\ auction[m].pc = "query"
        /\ \A tx \in pool : tx.client = m => ~tx.awaited /\ ~Effective(tx)
    BY <1>2, NothingPending DEF QueryFailed, At
  <2>2. UNCHANGED <<ws, pool, reply>>
    BY <1>2 DEF QueryFailed, EvaluateFails
  <2>3. PICK a : /\ auction' = [auction EXCEPT ![m] = a]
                 /\ a.pc = "query" /\ a.gen = auction[m].gen
    BY <1>2, <2>1, CallAgain DEF QueryFailed
  <2>4. OfferSound(a)
    BY <2>3 DEF OfferSound
  <2> QED BY <2>1, <2>2, <2>3, <2>4, MakerMoves
<1> QED BY <1>1, <1>2

-----------------------------------------------------------------------------
(* A client sends a request.                                                  *)

\* A call is refused at once, or its transaction joins the pool.
LEMMA Sent ==
  ASSUME FinalInv, NEW c \in Clients, NEW req \in HouseRequests, Submit(c, req)
  PROVE  /\ ws' = ws /\ DOMAIN reply' = Clients
         /\ \A d \in Clients : d # c => reply'[d] = reply[d]
         /\ reply'[c].kind # "ok"
         /\ \A tx \in pool' : tx \notin pool =>
              /\ tx.client = c /\ tx.req = req /\ tx.awaited = TRUE
              /\ Fresh(tx) /\ reply'[c].kind = "none"
              /\ \A other \in pool' : other \notin pool => other = tx
         /\ pool \subseteq pool'
<1> DEFINE out == Execute(ws, req)
<1>1. World(ws) /\ PoolOK(pool, ws) /\ DOMAIN reply = Clients
  BY DEF FinalInv, HouseInv
<1>2. /\ ws' = ws /\ DOMAIN reply' = Clients
      /\ \A d \in Clients : d # c => reply'[d] = reply[d]
  BY <1>1 DEF Submit
<1>3. PoolOK(pool', ws)
  BY <1>1, <1>2, SubmitStep
<1>4. CASE out.err /\ reply' = [reply EXCEPT ![c] = Failed] /\ pool' = pool
  <2>1. reply'[c] = Failed
    BY <1>1, <1>4
  <2> QED BY <1>2, <1>4, <2>1, Kinds
<1>5. CASE /\ ~out.err
           /\ reply' = [reply EXCEPT ![c] = NoReply]
           /\ pool' = pool \cup
               {[client |-> c, req |-> req, reads |-> out.reads, writes |-> out.writes,
                 msg |-> out.msg, stale |-> FALSE, awaited |-> TRUE]}
  <2>1. reply'[c] = NoReply
    BY <1>1, <1>5
  <2> DEFINE new == [client |-> c, req |-> req, reads |-> out.reads, writes |-> out.writes,
                     msg |-> out.msg, stale |-> FALSE, awaited |-> TRUE]
  <2>2. new.client = c /\ new.req = req /\ new.awaited = TRUE /\ new.stale = FALSE
    OBVIOUS
  <2>3. pool' = pool \cup {new}
    BY <1>5
  <2> HIDE DEF new
  <2>4. Fresh(new)
    BY <1>1, <1>3, <2>2, <2>3 DEF Fresh, PoolOK
  <2> QED BY <1>2, <2>1, <2>2, <2>3, <2>4, Kinds
<1> QED BY <1>4, <1>5 DEF Submit

LEMMA Sends ==
  ASSUME FinalInv, HouseInv', NEW c \in Clients, NEW req \in HouseRequests, Submit(c, req),
         \A tx \in pool : tx.client = c => ~tx.awaited,
         \A n \in Makers : n # c => auction'[n] = auction[n],
         \A d \in Buyers : d # c => basket'[d] = basket[d],
         c \in Makers =>
           /\ auction[c].pc # "idle" /\ auction'[c].pc # "idle"
           /\ auction'[c].gen = auction[c].gen
           /\ OfferSound(auction'[c])
           /\ \A tx \in pool : tx.client = c /\ Effective(tx) =>
                auction'[c].pc = "submitted" /\ tx.req = EndRequest(auction'[c]),
         req \in Creations =>
           /\ c \in Makers /\ req.id \in TokenIds[c] /\ req.time = auction'[c].gen
           /\ auction'[c].pc = "creating",
         req \in Settlements =>
           /\ c \in Makers /\ req.in.id \in TokenIds[c]
           /\ auction'[c].pc = "submitted" /\ req = EndRequest(auction'[c]),
         req \in Placements =>
           /\ c \in Buyers
           /\ basket'[c].pc = "sent" /\ req = PlaceRequest(basket'[c]),
         \A tx : Fresh(tx) /\ tx.req = req =>
           \A b \in Bids : b \in DOMAIN tx.writes /\ Settled(ws[b]) => tx.writes[b] = ws[b]
  PROVE  FinalInv'
<1>1. /\ ws' = ws /\ DOMAIN reply' = Clients
      /\ \A d \in Clients : d # c => reply'[d] = reply[d]
      /\ reply'[c].kind # "ok"
      /\ pool \subseteq pool'
  BY Sent
<1>2. \A tx \in pool' : tx \notin pool =>
        /\ tx.client = c /\ tx.req = req /\ tx.awaited = TRUE
        /\ Fresh(tx) /\ reply'[c].kind = "none"
        /\ \A other \in pool' : other \notin pool => other = tx
  BY Sent
<1>3. Makers \cap Buyers = {} /\ Makers \subseteq Clients /\ Buyers \subseteq Clients
  BY HouseAssumption, ProducerAssumption, BuyerAssumption
<1>4. req \in Creations \/ req \in Settlements \/ req \in Placements
  BY DEF HouseRequests
<1>5. ASSUME NEW tx \in pool', tx \notin pool
      PROVE  Owned(tx)' /\ Awaiting(tx)' /\ Current(tx)' /\ Lasting(tx)'
  <2>1. /\ tx.client = c /\ tx.req = req /\ tx.awaited = TRUE
        /\ Fresh(tx) /\ reply'[c].kind = "none"
        /\ \A other \in pool' : other \notin pool => other = tx
    BY <1>2, <1>5
  <2>2. Owned(tx)'
    BY <1>4, <2>1, Kinds DEF Owned
  <2>3. Awaiting(tx)'
    <3>1. \A other \in pool' : other.awaited /\ other.client = c => other = tx
      BY <2>1
    <3>2. c \in Makers => \/ auction'[c].pc = "creating"
                          \/ auction'[c].pc = "submitted" /\ req = EndRequest(auction'[c])
      BY <1>3, <1>4
    <3>3. c \in Buyers => basket'[c].pc = "sent" /\ req = PlaceRequest(basket'[c])
      BY <1>3, <1>4
    <3>4. EndRequest(auction[c])' = EndRequest(auction'[c])
      BY DEF EndRequest
    <3>5. PlaceRequest(basket[c])' = PlaceRequest(basket'[c])
      BY DEF PlaceRequest
    <3> QED BY <2>1, <3>1, <3>2, <3>3, <3>4, <3>5 DEF Awaiting
  <2>4. Current(tx)'
    <3>1. CASE Effective(tx)
      <4>1. req \in Settlements
        BY <2>1, <3>1 DEF Effective
      <4> QED BY <2>1, <4>1 DEF Current, EndRequest
    <3> QED BY <3>1 DEF Current, Effective
  <2>5. Lasting(tx)'
    BY <1>1, <2>1 DEF Lasting, Settled
  <2> QED BY <2>2, <2>3, <2>4, <2>5
<1>6. ASSUME NEW tx \in pool
      PROVE  Owned(tx)' /\ Awaiting(tx)' /\ Current(tx)' /\ Lasting(tx)'
  <2>1. Owned(tx) /\ Awaiting(tx) /\ Current(tx) /\ Lasting(tx) /\ TxOK(tx, ws)
    BY DEF FinalInv, HouseInv, PoolOK
  <2>2. Owned(tx)'
    BY <2>1 DEF Owned
  <2>3. Awaiting(tx)'
    <3>1. CASE tx.awaited
      <4>1. tx.client # c /\ tx.client \in Clients
        BY <2>1, <3>1 DEF TxOK
      <4>2. \A other \in pool' : other.awaited /\ other.client = tx.client => other \in pool
        BY <1>2, <4>1
      <4> QED BY <1>1, <2>1, <4>1, <4>2 DEF Awaiting, EndRequest, PlaceRequest
    <3> QED BY <3>1 DEF Awaiting
  <2>4. Current(tx)'
    <3>1. CASE Effective(tx)
      <4>1. tx.client \in Makers /\ tx.client \in Clients
        BY <1>3, <2>1, <3>1 DEF Owned, Effective
      <4>2. CASE tx.client = c
        BY <1>1, <3>1, <4>1, <4>2 DEF Current, EndRequest
      <4>3. CASE tx.client # c
        BY <1>1, <2>1, <3>1, <4>1, <4>3 DEF Current, EndRequest
      <4> QED BY <4>2, <4>3
    <3> QED BY <3>1 DEF Current, Effective
  <2>5. Lasting(tx)'
    BY <1>1, <2>1 DEF Lasting, Settled
  <2> QED BY <2>2, <2>3, <2>4, <2>5
<1>7. BidsSound'
  BY <1>1 DEF FinalInv, BidsSound, Settled
<1>8. ASSUME NEW n \in Makers PROVE OfferSound(auction[n])'
  <2>1. OfferSound(auction[n])
    BY DEF FinalInv
  <2>2. CASE n = c
    BY <1>1, <2>2 DEF OfferSound, Settled
  <2>3. CASE n # c
    BY <1>1, <2>1, <2>3 DEF OfferSound, Settled
  <2> QED BY <2>2, <2>3
<1> QED BY <1>1, <1>5, <1>6, <1>7, <1>8 DEF FinalInv

LEMMA CreationIsSent ==
  ASSUME FinalInv, HouseInv', NEW m \in Makers, UNCHANGED basket, CreateToken(m)
  PROVE  FinalInv'
<1>1. /\ AuctionOK(auction[m], m) /\ auction[m].pc = "create"
      /\ \A tx \in pool : tx.client = m => ~tx.awaited /\ ~Effective(tx)
  BY NothingPending DEF CreateToken, At
<1>2. PICK id \in TokenIds[m] :
        /\ Submit(m, [op |-> "CreateEnergyToken", id |-> id, producer |-> Owner[m],
                      amount |-> Output[m], cat |-> Kind[m], time |-> auction[m].gen])
        /\ auction' = [auction EXCEPT ![m] = [@ EXCEPT !.pc = "creating", !.id = id]]
  BY DEF CreateToken
<1> DEFINE req == [op |-> "CreateEnergyToken", id |-> id, producer |-> Owner[m],
                   amount |-> Output[m], cat |-> Kind[m], time |-> auction[m].gen]
           a == [auction[m] EXCEPT !.pc = "creating", !.id = id]
<1>3. req \in Creations
  <2>1. /\ id \in Energies /\ Owner[m] \in Users /\ Kind[m] \in Categories
        /\ Output[m] \in Portions /\ auction[m].gen \in Clock
    BY <1>1, Numbers, ProducerAssumption DEF AuctionOK
  <2> QED BY <2>1 DEF Creations
<1>4. req.id = id /\ req.time = auction[m].gen
  OBVIOUS
<1> HIDE DEF req
<1>5. Submit(m, req) /\ m \in Clients /\ req \in HouseRequests
  BY <1>2, <1>3, ProducerAssumption DEF req, HouseRequests
<1>6. a.pc = "creating" /\ a.gen = auction[m].gen
  BY <1>1 DEF AuctionOK, AuctionFields
<1>7. auction' = [auction EXCEPT ![m] = a]
  BY <1>2
<1> HIDE DEF a
<1>8. auction'[m] = a /\ \A n \in Makers : n # m => auction'[n] = auction[n]
  BY <1>7 DEF FinalInv, HouseInv, AuctionsOK
<1>9. OfferSound(a)
  BY <1>6 DEF OfferSound
<1>10. \A tx : Fresh(tx) /\ tx.req = req =>
         \A b \in Bids : b \in DOMAIN tx.writes /\ Settled(ws[b]) => tx.writes[b] = ws[b]
  BY <1>3, BidWritten, Kinds
<1>11. \A d \in Buyers : basket'[d] = basket[d]
  OBVIOUS
<1> QED BY <1>1, <1>3, <1>4, <1>5, <1>6, <1>8, <1>9, <1>10, <1>11, Kinds, Sends

\* A settlement that is sound writes a settled bid as it is.
LEMMA SoundSettlement ==
  ASSUME NEW a, a.pc = "submit", OfferSound(a), BidsSound,
         NEW tx, Fresh(tx), tx.req = EndRequest(a), tx.req \in Settlements,
         NEW b \in Bids, b \in DOMAIN tx.writes, Settled(ws[b])
  PROVE  tx.writes[b] = ws[b]
<1>1. tx.req.in.id = a.id /\ tx.req.bidInput = a.offer
  BY DEF EndRequest
<1>2. /\ ws[b] \in HouseBid /\ ws[b] # Absent /\ ws[b].energy = a.id
      /\ \E i \in DOMAIN a.offer :
           /\ a.offer[i].id = b
           /\ tx.writes[b] = AfterAward(ws[b], a.offer[i].amount, ws[a.id].producer)
  BY <1>1, BidWritten, Kinds
<1>3. PICK i \in DOMAIN a.offer :
        /\ a.offer[i].id = b
        /\ tx.writes[b] = AfterAward(ws[b], a.offer[i].amount, ws[a.id].producer)
  BY <1>2
<1>4. a.offer[i].amount = ws[b].amount
  BY <1>3, KeyKinds DEF OfferSound
<1>5. ws[b].producer = ws[a.id].producer /\ ws[b].status = "success"
  BY <1>2 DEF BidsSound, Settled
<1> DEFINE v == ws[b]
<1>6. tx.writes[b] = [v EXCEPT !.amount = v.amount, !.producer = v.producer, !.status = v.status]
  BY <1>3, <1>4, <1>5 DEF AfterAward
<1>7. v \in HouseBid
  BY <1>2
<1> HIDE DEF v
<1>8. v = [v EXCEPT !.amount = v.amount, !.producer = v.producer, !.status = v.status]
  BY <1>7 DEF HouseBid
<1> QED BY <1>6, <1>8 DEF v

\* A goroutine that is about to settle has a request the contract can be sent.
LEMMA EndRequestOK ==
  ASSUME FinalInv, NEW m \in Makers, auction[m].pc \in {"submit", "submitted"}
  PROVE  EndRequest(auction[m]) \in Settlements /\ EndRequest(auction[m]) \in HouseRequests
<1>1. AuctionOK(auction[m], m)
  BY NothingPending
<1>2. /\ auction[m].id \in Energies /\ auction[m].amount \in Portions \cup {0}
      /\ auction[m].ts \in Clock /\ auction[m].offer \in HouseAwards
  BY <1>1, ProducerAssumption DEF AuctionOK
<1> DEFINE in == [id |-> auction[m].id, amount |-> auction[m].amount, time |-> auction[m].ts]
           req == EndRequest(auction[m])
<1>3. in \in [id : Energies, amount : Portions \cup {0}, time : Clock]
  BY <1>2
<1>4. req = [op |-> "AuctionEnd", bidInput |-> auction[m].offer, in |-> in]
  BY DEF EndRequest
<1> HIDE DEF in, req
<1>5. req \in Settlements
  BY <1>2, <1>3, <1>4 DEF Settlements
<1> QED BY <1>5 DEF HouseRequests, req

LEMMA SettlementIsSent ==
  ASSUME FinalInv, HouseInv', NEW m \in Makers, UNCHANGED basket, SubmitEnd(m)
  PROVE  FinalInv'
<1> DEFINE a == [auction[m] EXCEPT !.pc = "submitted"]
           req == EndRequest(auction[m])
<1>1. /\ AuctionOK(auction[m], m) /\ auction[m].pc = "submit"
      /\ \A tx \in pool : tx.client = m => ~tx.awaited
      /\ \A tx \in pool : tx.client = m /\ Effective(tx) => tx.req = req
  BY NothingPending DEF SubmitEnd, At
<1>2. Submit(m, req) /\ auction' = [auction EXCEPT ![m] = a]
  BY DEF SubmitEnd, EndRequest
<1>3. req \in Settlements
  BY <1>1, EndRequestOK
<1>4. /\ a.pc = "submitted" /\ a.gen = auction[m].gen /\ a.id = auction[m].id
      /\ a.ts = auction[m].ts /\ a.offer = auction[m].offer /\ a.amount = auction[m].amount
  BY <1>1 DEF AuctionOK, AuctionFields
<1> HIDE DEF a
<1>5. auction'[m] = a /\ \A n \in Makers : n # m => auction'[n] = auction[n]
  BY <1>2 DEF FinalInv, HouseInv, AuctionsOK
<1>6. req = EndRequest(a) /\ req.in.id = auction[m].id
  BY <1>4 DEF EndRequest
<1>7. OfferSound(auction[m]) /\ BidsSound
  BY DEF FinalInv
<1>8. OfferSound(a)
  BY <1>1, <1>4, <1>7 DEF OfferSound
<1>9. \A tx : Fresh(tx) /\ tx.req = req =>
        \A b \in Bids : b \in DOMAIN tx.writes /\ Settled(ws[b]) => tx.writes[b] = ws[b]
  BY <1>1, <1>3, <1>7, SoundSettlement
<1>10. auction[m].id \in TokenIds[m] /\ m \in Clients /\ req \in HouseRequests
  BY <1>1, <1>3, ProducerAssumption DEF AuctionOK, HouseRequests
<1>11. \A d \in Buyers : basket'[d] = basket[d]
  OBVIOUS
<1> HIDE DEF req
<1> QED BY <1>1, <1>2, <1>3, <1>4, <1>5, <1>6, <1>8, <1>9, <1>10, <1>11, Kinds, Sends

LEMMA BidsAreSent ==
  ASSUME FinalInv, HouseInv', NEW c \in Buyers, UNCHANGED auction, SendBids(c)
  PROVE  FinalInv'
<1> DEFINE k == [basket[c] EXCEPT !.pc = "sent"]
           req == PlaceRequest(basket[c])
<1>1. /\ Submit(c, req) /\ basket[c].pc = "send" /\ basket' = [basket EXCEPT ![c] = k]
      /\ BasketOK(basket[c])
  BY DEF SendBids, Shopping, PlaceRequest, FinalInv, HouseInv, BasketsOK
<1>2. req \in Placements
  BY <1>1 DEF BasketOK, Placements, PlaceRequest
<1>3. k.pc = "sent" /\ k.list = basket[c].list
  BY <1>1 DEF BasketOK, BasketFields
<1> HIDE DEF k
<1>4. basket'[c] = k /\ \A d \in Buyers : d # c => basket'[d] = basket[d]
  BY <1>1 DEF FinalInv, HouseInv, BasketsOK
<1>5. req = PlaceRequest(k)
  BY <1>3 DEF PlaceRequest
<1>6. c \in Clients /\ c \notin Makers /\ req \in HouseRequests
  BY <1>2, BuyerAssumption, HouseAssumption DEF HouseRequests
<1>7. \A tx \in pool : tx.client = c => ~tx.awaited
  BY <1>1 DEF FinalInv, Awaiting
<1> HIDE DEF req
<1>8. \A tx : Fresh(tx) /\ tx.req = req =>
        \A b \in Bids : b \in DOMAIN tx.writes /\ Settled(ws[b]) => tx.writes[b] = ws[b]
  BY <1>2, BidWritten, Kinds DEF Settled
<1>9. \A n \in Makers : auction'[n] = auction[n]
  OBVIOUS
<1> QED BY <1>1, <1>2, <1>3, <1>4, <1>5, <1>6, <1>7, <1>8, <1>9, Kinds, Sends

-----------------------------------------------------------------------------
(* A buyer moves without sending anything.                                    *)

LEMMA BuyerMoves ==
  ASSUME FinalInv, HouseInv', NEW c \in Buyers, UNCHANGED auction,
         Bidding(c) \/ BidsPlaced(c) \/ BidsFailed(c)
  PROVE  FinalInv'
<1>1. UNCHANGED <<ws, pool>> /\ reply' \in {reply, [reply EXCEPT ![c] = NoReply]}
  BY DEF Bidding, StampBids, BidsPlaced, BidsFailed, TakeReply, gatewayVars
<1>2. \A tx \in pool : tx.client = c => ~tx.awaited
  <2>1. basket[c].pc # "sent" \/ reply[c].kind # "none"
    BY DEF Bidding, StampBids, BidsPlaced, BidsFailed, Shopping
  <2>2. \A tx \in pool : Awaiting(tx)
    BY DEF FinalInv
  <2> QED BY <2>1, <2>2 DEF Awaiting
<1>3. \A d \in Buyers : d # c => basket'[d] = basket[d]
  BY DEF Bidding, StampBids, BidsPlaced, BidsFailed, FinalInv, HouseInv, BasketsOK
<1>4. DOMAIN reply' = Clients /\ \A d \in Clients : d # c => reply'[d] = reply[d]
  BY <1>1 DEF FinalInv
<1>5. c \notin Makers /\ Makers \subseteq Clients
  BY HouseAssumption, ProducerAssumption
<1>6. ASSUME NEW tx \in pool PROVE Owned(tx)' /\ Awaiting(tx)' /\ Current(tx)' /\ Lasting(tx)'
  <2>1. Owned(tx) /\ Awaiting(tx) /\ Current(tx) /\ Lasting(tx) /\ TxOK(tx, ws)
    BY DEF FinalInv, HouseInv, PoolOK
  <2>2. Owned(tx)'
    BY <2>1 DEF Owned
  <2>3. Awaiting(tx)'
    <3>1. CASE tx.awaited
      <4>1. tx.client # c /\ tx.client \in Clients
        BY <1>2, <2>1, <3>1 DEF TxOK
      <4> QED BY <1>1, <1>3, <1>4, <2>1, <4>1 DEF Awaiting, EndRequest, PlaceRequest
    <3> QED BY <3>1 DEF Awaiting
  <2>4. Current(tx)'
    <3>1. CASE Effective(tx)
      <4>1. tx.client \in Makers
        BY <2>1, <3>1 DEF Owned, Effective
      <4> QED BY <1>4, <1>5, <2>1, <3>1, <4>1 DEF Current, EndRequest
    <3> QED BY <3>1 DEF Current, Effective
  <2>5. Lasting(tx)'
    BY <1>1, <2>1 DEF Lasting, Settled
  <2> QED BY <2>2, <2>3, <2>4, <2>5
<1>7. BidsSound'
  BY <1>1 DEF FinalInv, BidsSound, Settled
<1>8. ASSUME NEW n \in Makers PROVE OfferSound(auction[n])'
  <2>1. OfferSound(auction[n])
    BY DEF FinalInv
  <2> QED BY <1>1, <2>1 DEF OfferSound, Settled
<1> QED BY <1>1, <1>4, <1>6, <1>7, <1>8 DEF FinalInv

-----------------------------------------------------------------------------
(* The network moves.                                                         *)

\* F[tx] is what becomes of a transaction that stays in the pool.
LEMMA PoolMoves ==
  ASSUME FinalInv, HouseInv', UNCHANGED <<auction, basket>>,
         NEW S \in SUBSET pool, NEW F, pool' = {F[tx] : tx \in S},
         \A tx \in S : /\ F[tx].client = tx.client /\ F[tx].req = tx.req
                       /\ F[tx].writes = tx.writes
                       /\ F[tx].awaited => tx.awaited
                       /\ ~F[tx].stale => ~tx.stale,
         DOMAIN reply' = Clients,
         \A d \in Clients : reply'[d] # reply[d] =>
           /\ \A tx \in S : tx.client = d => ~F[tx].awaited
           /\ reply'[d].kind = "ok" /\ d \in Makers /\ auction[d].pc = "submitted" =>
                \A tx \in S : tx.client = d => ~Effective(F[tx]),
         \A tx \in S : Lasting(F[tx])',
         BidsSound',
         \A n \in Makers : OfferSound(auction[n])'
  PROVE  FinalInv'
<1>1. ASSUME NEW next \in pool'
      PROVE  Owned(next)' /\ Awaiting(next)' /\ Current(next)' /\ Lasting(next)'
  <2>1. PICK tx \in S : next = F[tx]
    BY <1>1
  <2>2. /\ next.client = tx.client /\ next.req = tx.req
        /\ next.writes = tx.writes
        /\ next.awaited => tx.awaited
        /\ ~next.stale => ~tx.stale
    BY <2>1
  <2>3. Owned(tx) /\ Awaiting(tx) /\ Current(tx) /\ TxOK(tx, ws)
    BY DEF FinalInv, HouseInv, PoolOK
  <2>4. Owned(next)'
    BY <2>2, <2>3 DEF Owned
  <2>5. Awaiting(next)'
    <3>1. CASE next.awaited
      <4>1. tx.awaited /\ tx.client \in Clients /\ reply'[tx.client] = reply[tx.client]
        BY <2>1, <2>2, <2>3, <3>1 DEF TxOK
      <4>2. ASSUME NEW other \in pool', other.awaited, other.client = next.client
            PROVE  other = next
        <5>1. PICK u \in S : other = F[u]
          BY <4>2
        <5>2. u.awaited /\ u.client = tx.client
          BY <2>2, <4>2, <5>1
        <5>3. u = tx
          BY <2>3, <4>1, <5>2 DEF Awaiting
        <5> QED BY <2>1, <5>1, <5>3
      <4> QED BY <2>2, <2>3, <4>1, <4>2 DEF Awaiting, EndRequest, PlaceRequest
    <3> QED BY <3>1 DEF Awaiting
  <2>6. Current(next)'
    <3>1. CASE Effective(next)
      <4>1. Effective(tx)
        BY <2>2, <3>1 DEF Effective
      <4>2. tx.client \in Makers /\ tx.client \in Clients
        BY <2>3, <4>1 DEF Owned, Effective, TxOK
      <4>3. CASE reply'[tx.client] = reply[tx.client]
        BY <2>2, <2>3, <4>1, <4>2, <4>3 DEF Current, EndRequest
      <4>4. CASE reply'[tx.client] # reply[tx.client]
        <5>1. ~(reply'[tx.client].kind = "ok" /\ auction[tx.client].pc = "submitted")
          BY <2>1, <3>1, <4>2, <4>4
        <5> QED BY <2>2, <2>3, <4>1, <5>1 DEF Current, EndRequest
      <4> QED BY <4>3, <4>4
    <3> QED BY <3>1 DEF Current, Effective
  <2>7. Lasting(next)'
    BY <2>1
  <2> QED BY <2>4, <2>5, <2>6, <2>7
<1> QED BY <1>1 DEF FinalInv

\* ... and the world state of tokens and bids stays as it is.
LEMMA LedgerStays ==
  ASSUME FinalInv, UNCHANGED <<auction, basket>>,
         \A k \in Energies \cup Bids : ws'[k] = ws[k]
  PROVE  /\ \A tx \in pool : \A next :
              next.writes = tx.writes /\ (~next.stale => ~tx.stale) => Lasting(next)'
         /\ BidsSound'
         /\ \A n \in Makers : OfferSound(auction[n])'
<1>1. \A b \in Bids : ws[b] # Absent => ws[b].energy \in Energies
  BY DEF FinalInv, HouseInv, World, HouseBid
<1>2. BidsSound'
  BY <1>1 DEF FinalInv, BidsSound, Settled
<1>3. ASSUME NEW n \in Makers PROVE OfferSound(auction[n])'
  <2>1. OfferSound(auction[n]) /\ AuctionOK(auction[n], n)
    BY DEF FinalInv, HouseInv, AuctionsOK
  <2>2. CASE auction[n].pc \in {"submit", "submitted"}
    <3>1. \A i \in DOMAIN auction[n].offer :
            auction[n].offer[i].id # OldId => auction[n].offer[i].id \in Bids
      BY <2>1, <2>2, AwardFacts DEF AuctionOK
    <3> QED BY <2>1, <2>2, <3>1 DEF OfferSound, Settled
  <2> QED BY <2>2 DEF OfferSound
<1>4. ASSUME NEW tx \in pool, NEW next, next.writes = tx.writes, ~next.stale => ~tx.stale
      PROVE  Lasting(next)'
  <2>1. Lasting(tx)
    BY DEF FinalInv
  <2> QED BY <1>4, <2>1 DEF Lasting, Settled
<1> QED BY <1>2, <1>3, <1>4

LEMMA PoolShrinks ==
  ASSUME FinalInv, HouseInv', NEW tx \in pool, UNCHANGED <<auction, basket>>,
         Invalidate(tx) \/ GiveUp(tx) \/ Drop(tx)
  PROVE  FinalInv'
<1>1. TxOK(tx, ws) /\ Awaiting(tx) /\ ws' = ws /\ DOMAIN reply = Clients
  BY DEF FinalInv, HouseInv, PoolOK, Invalidate, GiveUp, Drop
<1>2. /\ DOMAIN reply' = Clients
      /\ \A d \in Clients : reply'[d] # reply[d] =>
           tx.awaited /\ d = tx.client /\ reply'[d].kind = "error"
  BY <1>1, Kinds DEF Invalidate, GiveUp, Drop, Answer
<1>3. /\ \A other \in pool : \A next :
           next.writes = other.writes /\ (~next.stale => ~other.stale) => Lasting(next)'
      /\ BidsSound'
      /\ \A n \in Makers : OfferSound(auction[n])'
  BY <1>1, LedgerStays
<1>4. \A other \in pool : tx.awaited /\ other.awaited /\ other.client = tx.client => other = tx
  BY <1>1 DEF Awaiting
<1>5. CASE Invalidate(tx) \/ Drop(tx)
  <2>0. PICK S, F : S = pool \ {tx} /\ F = [other \in S |-> other]
    OBVIOUS
  <2>1. pool' = {F[other] : other \in S} /\ S \in SUBSET pool
    BY <1>5, <2>0 DEF Invalidate, Drop
  <2>2. \A other \in S : F[other] = other /\ other # tx
    BY <2>0
  <2>3. \A other \in S : Lasting(F[other])'
    BY <1>3, <2>1, <2>2
  <2> QED BY <1>2, <1>3, <1>4, <2>1, <2>2, <2>3, PoolMoves
<1>6. CASE GiveUp(tx)
  <2> DEFINE late == [tx EXCEPT !.awaited = FALSE]
  <2>1. /\ late.client = tx.client /\ late.req = tx.req /\ late.writes = tx.writes
        /\ late.stale = tx.stale /\ late.awaited = FALSE
    BY <1>1 DEF TxOK, TxFields
  <2>2. pool' = (pool \ {tx}) \cup {late}
    BY <1>6 DEF GiveUp
  <2> HIDE DEF late
  <2>3. PICK F : F = [other \in pool |-> IF other = tx THEN late ELSE other]
    OBVIOUS
  <2>4. pool' = {F[other] : other \in pool}
    BY <2>2, <2>3
  <2>5. \A other \in pool :
          /\ F[other].client = other.client /\ F[other].req = other.req
          /\ F[other].writes = other.writes
          /\ F[other].awaited => other.awaited /\ other # tx
          /\ ~F[other].stale => ~other.stale
    BY <2>1, <2>3
  <2>6. \A other \in pool : Lasting(F[other])'
    BY <1>3, <2>5
  <2>7. \A d \in Clients : reply'[d] # reply[d] =>
          /\ \A other \in pool : other.client = d => ~F[other].awaited
          /\ reply'[d].kind = "ok" /\ d \in Makers /\ auction[d].pc = "submitted" =>
               \A other \in pool : other.client = d => ~Effective(F[other])
    BY <1>2, <1>4, <2>5
  <2>8. pool \in SUBSET pool
    OBVIOUS
  <2>9. \A other \in pool :
          /\ F[other].client = other.client /\ F[other].req = other.req
          /\ F[other].writes = other.writes
          /\ F[other].awaited => other.awaited
          /\ ~F[other].stale => ~other.stale
    BY <2>5
  <2>10. DOMAIN reply' = Clients
    BY <1>2
  <2>11. BidsSound' /\ \A n \in Makers : OfferSound(auction[n])'
    BY <1>3
  <2> QED BY <2>4, <2>6, <2>7, <2>8, <2>9, <2>10, <2>11, PoolMoves, Zenon
<1> QED BY <1>5, <1>6

LEMMA ClockMoves ==
  ASSUME FinalInv, HouseInv', UNCHANGED <<auction, basket>>, ClockTick
  PROVE  FinalInv'
<1>0. PICK F : F = [tx \in pool |-> tx]
  OBVIOUS
<1>1. ws' = ws /\ reply' = reply /\ pool' = {F[tx] : tx \in pool} /\ DOMAIN reply' = Clients
  BY <1>0 DEF ClockTick, FinalInv
<1>2. \A tx \in pool : F[tx] = tx
  BY <1>0
<1>3. /\ \A other \in pool : \A next :
           next.writes = other.writes /\ (~next.stale => ~other.stale) => Lasting(next)'
      /\ BidsSound'
      /\ \A n \in Makers : OfferSound(auction[n])'
  BY <1>1, LedgerStays
<1>4. \A tx \in pool : Lasting(F[tx])'
  BY <1>2, <1>3
<1> QED BY <1>1, <1>2, <1>3, <1>4, PoolMoves

\* Marking a transaction as stale changes nothing else.
LEMMA Marked ==
  ASSUME NEW tx, DOMAIN tx = TxFields, NEW stale
  PROVE  LET next == [tx EXCEPT !.stale = stale] IN
         /\ next.client = tx.client /\ next.req = tx.req /\ next.reads = tx.reads
         /\ next.writes = tx.writes /\ next.awaited = tx.awaited /\ next.stale = stale
BY DEF TxFields

LEMMA PriceMoves ==
  ASSUME FinalInv, HouseInv', PriceUpdate
  PROVE  FinalInv'
<1>1. PICK cat \in Categories, p \in NewPrices :
        /\ ws' = Apply(ws, UpdateUnitPrice(ws, cat, p).writes)
        /\ pool' = {[tx EXCEPT !.stale = @ \/ cat \in tx.reads] : tx \in pool}
  BY DEF PriceUpdate
<1>2. UNCHANGED <<reply, auction, basket>> /\ DOMAIN reply = Clients
  BY DEF PriceUpdate, FinalInv
<1>3. DOMAIN UpdateUnitPrice(ws, cat, p).writes \subseteq {cat}
  BY DEF UpdateUnitPrice, Error, Result, NoWrite
<1>4. \A k \in Energies \cup Bids : ws'[k] = ws[k]
  BY <1>1, <1>3, KeyKinds DEF Apply
<1>5. /\ \A other \in pool : \A next :
           next.writes = other.writes /\ (~next.stale => ~other.stale) => Lasting(next)'
      /\ BidsSound'
      /\ \A n \in Makers : OfferSound(auction[n])'
  BY <1>2, <1>4, LedgerStays
<1>0. PICK F : F = [tx \in pool |-> [tx EXCEPT !.stale = tx.stale \/ cat \in tx.reads]]
  OBVIOUS
<1>6. pool' = {F[tx] : tx \in pool}
  BY <1>0, <1>1
<1>7. ASSUME NEW tx \in pool
      PROVE  /\ F[tx].client = tx.client /\ F[tx].req = tx.req /\ F[tx].writes = tx.writes
             /\ F[tx].awaited => tx.awaited
             /\ ~F[tx].stale => ~tx.stale
  <2> DEFINE stale == tx.stale \/ cat \in tx.reads
  <2>1. DOMAIN tx = TxFields
    BY DEF FinalInv, HouseInv, PoolOK, TxOK
  <2>2. F[tx] = [tx EXCEPT !.stale = stale]
    BY <1>0
  <2>3. ~stale => ~tx.stale
    OBVIOUS
  <2> HIDE DEF stale
  <2> QED BY <2>1, <2>2, <2>3, Marked
<1>8. \A tx \in pool : Lasting(F[tx])'
  BY <1>5, <1>7
<1> QED BY <1>2, <1>5, <1>6, <1>7, <1>8, PoolMoves

-----------------------------------------------------------------------------
(* A transaction commits.                                                     *)

\* A token that exists goes on to, and belongs to the same producer.
LEMMA TokenKept ==
  ASSUME FinalInv, NEW tx \in pool, Commit(tx), NEW e \in Energies, ws[e] # Absent
  PROVE  ws'[e] # Absent /\ ws'[e].producer = ws[e].producer
<1>1. Fresh(tx) /\ ws' = Apply(ws, tx.writes)
  BY DEF FinalInv, HouseInv, PoolOK, Commit, Fresh
<1>2. ws'[e] = IF e \in DOMAIN tx.writes THEN tx.writes[e] ELSE ws[e]
  BY <1>1, KeyKinds DEF Apply
<1>3. CASE e \in DOMAIN tx.writes
  <2>1. tx.writes[e] \in HouseToken /\ tx.writes[e].producer = ws[e].producer
    BY <1>1, <1>3, TokenWritten
  <2> QED BY <1>2, <1>3, <2>1, NoRecordIsAbsent
<1> QED BY <1>2, <1>3

\* What becomes of a bid: nothing, or it is placed, or settled.
LEMMA BidAfterCommit ==
  ASSUME FinalInv, NEW tx \in pool, Commit(tx), NEW b \in Bids
  PROVE  \/ ws'[b] = ws[b]
         \/ /\ ws[b] = Absent
            /\ ws'[b].energy \in Energies /\ ws[ws'[b].energy] # Absent
            /\ ~Settled(ws'[b])
         \/ /\ ws[b] # Absent /\ ws'[b] # Absent
            /\ ws'[b].energy = ws[b].energy /\ ws'[b].bidAmount = ws[b].bidAmount
            /\ ws[b].energy \in Energies /\ ws[ws[b].energy] # Absent
            /\ ws'[b].producer = ws[ws[b].energy].producer
            /\ Effective(tx) /\ ws[b].energy = tx.req.in.id
            /\ \E i \in DOMAIN tx.req.bidInput :
                 tx.req.bidInput[i].id = b /\ ws'[b].amount = tx.req.bidInput[i].amount
<1>1. Fresh(tx) /\ ws' = Apply(ws, tx.writes)
  BY DEF FinalInv, HouseInv, PoolOK, Commit, Fresh
<1>2. ws'[b] = IF b \in DOMAIN tx.writes THEN tx.writes[b] ELSE ws[b]
  BY <1>1, KeyKinds DEF Apply
<1>3. ASSUME b \in DOMAIN tx.writes, tx.req \in Placements,
             b \in DOMAIN tx.req.bidList, ws[b] = Absent,
             ws[tx.req.bidList[b].energy] # Absent,
             tx.req.bidList[b].energy \in Energies,
             tx.writes[b] = NewBid(tx.req.bidList[b])
      PROVE  /\ ws[b] = Absent
             /\ ws'[b].energy \in Energies /\ ws[ws'[b].energy] # Absent
             /\ ~Settled(ws'[b])
  BY <1>2, <1>3 DEF NewBid, Settled
<1>4. ASSUME b \in DOMAIN tx.writes, tx.req \in Settlements,
             ws[b] \in HouseBid, ws[b] # Absent, ws[b].energy = tx.req.in.id,
             ws[tx.req.in.id] # Absent,
             NEW i \in DOMAIN tx.req.bidInput, tx.req.bidInput[i].id = b,
             tx.writes[b] = AfterAward(ws[b], tx.req.bidInput[i].amount,
                                       ws[tx.req.in.id].producer)
      PROVE  /\ ws[b] # Absent /\ ws'[b] # Absent
             /\ ws'[b].energy = ws[b].energy /\ ws'[b].bidAmount = ws[b].bidAmount
             /\ ws[b].energy \in Energies /\ ws[ws[b].energy] # Absent
             /\ ws'[b].producer = ws[ws[b].energy].producer
             /\ Effective(tx) /\ ws[b].energy = tx.req.in.id
             /\ ws'[b].amount = tx.req.bidInput[i].amount
  <2> DEFINE v == ws[b]
             n == tx.req.bidInput[i].amount
             u == ws[tx.req.in.id].producer
  <2>1. ws'[b] = AfterAward(v, n, u) /\ v \in HouseBid
    BY <1>2, <1>4
  <2> HIDE DEF v, n, u
  <2>2. /\ AfterAward(v, n, u).energy = v.energy /\ AfterAward(v, n, u).bidAmount = v.bidAmount
        /\ AfterAward(v, n, u).producer = u /\ AfterAward(v, n, u).amount = n
        /\ v.energy \in Energies
    BY <2>1 DEF AfterAward, HouseBid
  <2>3. tx.writes[b] # Absent
    <3>1. tx.writes[b] \in HouseBid
      BY <1>1, <1>4 DEF Fresh, TxOK, GoodWrites
    <3> QED BY <3>1, NoRecordIsAbsent
  <2>4. Effective(tx)
    BY <1>1, <1>4 DEF Effective, Fresh
  <2> QED BY <1>2, <1>4, <2>1, <2>2, <2>3, <2>4 DEF v, n, u
<1>5. CASE b \in DOMAIN tx.writes
  <2>1. \/ /\ tx.req \in Placements /\ b \in DOMAIN tx.req.bidList
           /\ ws[b] = Absent
           /\ ws[tx.req.bidList[b].energy] # Absent
           /\ tx.req.bidList[b].energy \in Energies
           /\ tx.writes[b] = NewBid(tx.req.bidList[b])
        \/ /\ tx.req \in Settlements
           /\ ws[b] \in HouseBid /\ ws[b] # Absent /\ ws[b].energy = tx.req.in.id
           /\ ws[tx.req.in.id] # Absent
           /\ \E i \in DOMAIN tx.req.bidInput :
                /\ tx.req.bidInput[i].id = b
                /\ tx.req.bidInput[i].amount =< ws[b].bidAmount
                /\ tx.writes[b] = AfterAward(ws[b], tx.req.bidInput[i].amount,
                                             ws[tx.req.in.id].producer)
    BY <1>1, <1>5, BidWritten
  <2> QED BY <1>3, <1>4, <1>5, <2>1
<1> QED BY <1>2, <1>5

LEMMA BidsStaySound ==
  ASSUME FinalInv, NEW tx \in pool, Commit(tx)
  PROVE  BidsSound'
<1>1. SUFFICES ASSUME NEW b \in Bids, ws'[b] # Absent
               PROVE  /\ ws'[ws'[b].energy] # Absent
                      /\ Settled(ws'[b]) => ws'[b].producer = ws'[ws'[b].energy].producer
  BY DEF BidsSound, Settled
<1>2. CASE ws'[b] = ws[b]
  <2>1. /\ ws[b].energy \in Energies /\ ws[ws[b].energy] # Absent
        /\ Settled(ws[b]) => ws[b].producer = ws[ws[b].energy].producer
    BY <1>1, <1>2 DEF FinalInv, BidsSound, HouseInv, World, HouseBid
  <2>2. /\ ws'[ws[b].energy] # Absent
        /\ ws'[ws[b].energy].producer = ws[ws[b].energy].producer
    BY <2>1, TokenKept
  <2> QED BY <1>2, <2>1, <2>2
<1>3. CASE /\ ws'[b].energy \in Energies /\ ws[ws'[b].energy] # Absent
           /\ ~Settled(ws'[b])
  BY <1>3, TokenKept
<1>4. CASE /\ ws'[b].energy = ws[b].energy
           /\ ws[b].energy \in Energies /\ ws[ws[b].energy] # Absent
           /\ ws'[b].producer = ws[ws[b].energy].producer
  <2>1. /\ ws'[ws[b].energy] # Absent
        /\ ws'[ws[b].energy].producer = ws[ws[b].energy].producer
    BY <1>4, TokenKept
  <2> QED BY <1>4, <2>1
<1> QED BY <1>2, <1>3, <1>4, BidAfterCommit

\* An offer that is being settled is settled as it stands.
LEMMA OffersStaySound ==
  ASSUME FinalInv, NEW tx \in pool, Commit(tx), auction' = auction, NEW n \in Makers
  PROVE  OfferSound(auction[n])'
<1> DEFINE a == auction[n]
<1>1. OfferSound(a) /\ AuctionOK(a, n) /\ Owned(tx) /\ Current(tx)
  BY DEF FinalInv, HouseInv, AuctionsOK
<1>2. SUFFICES ASSUME a.pc \in {"submit", "submitted"}, NEW i \in DOMAIN a.offer, a.offer[i].id # OldId
               PROVE  /\ ws'[a.offer[i].id] # Absent /\ ws'[a.offer[i].id].energy = a.id
                      /\ a.offer[i].amount =< ws'[a.offer[i].id].bidAmount
                      /\ Settled(ws'[a.offer[i].id]) => ws'[a.offer[i].id].amount = a.offer[i].amount
  BY <1>1 DEF OfferSound, Settled
<1> DEFINE b == a.offer[i].id
<1>3. a.offer \in HouseAwards /\ b \in Bids /\ a.id \in TokenIds[n]
  BY <1>1, <1>2, AwardFacts DEF AuctionOK
<1>4. /\ ws[b] # Absent /\ ws[b].energy = a.id
      /\ a.offer[i].amount =< ws[b].bidAmount
      /\ Settled(ws[b]) => ws[b].amount = a.offer[i].amount
  BY <1>1, <1>2 DEF OfferSound
<1>5. CASE ws'[b] = ws[b]
  BY <1>4, <1>5
<1>6. ASSUME ws'[b] # Absent, ws'[b].energy = ws[b].energy, ws'[b].bidAmount = ws[b].bidAmount,
             Effective(tx), ws[b].energy = tx.req.in.id,
             NEW j \in DOMAIN tx.req.bidInput,
             tx.req.bidInput[j].id = b, ws'[b].amount = tx.req.bidInput[j].amount
      PROVE  ws'[b].amount = a.offer[i].amount
  <2>1. tx.client \in Makers /\ tx.req.in.id \in TokenIds[tx.client]
    BY <1>1, <1>6 DEF Owned, Effective
  <2>2. tx.client = n
    BY <1>3, <1>4, <1>6, <2>1, ProducerAssumption
  <2>3. tx.req = EndRequest(a)
    BY <1>1, <1>2, <1>6, <2>2 DEF Current
  <2>4. tx.req.bidInput = a.offer
    BY <2>3 DEF EndRequest
  <2> HIDE DEF a
  <2>5. AwardTo(a.offer, a.offer[j].id) = a.offer[j].amount /\ AwardTo(a.offer, a.offer[i].id) = a.offer[i].amount
    BY <1>3, <1>6, <2>4, AwardFacts
  <2> QED BY <1>6, <2>4, <2>5
<1> HIDE DEF a, b
<1> QED BY <1>3, <1>4, <1>5, <1>6, BidAfterCommit DEF b

\* Two transactions that are not stale and ask for the same write the same keys,
\* so that the first one to commit makes the other one stale.
LEMMA SameRequest ==
  ASSUME FinalInv, NEW tx \in pool, NEW other \in pool,
         ~tx.stale, ~other.stale, tx.req = other.req
  PROVE  tx.writes = other.writes /\ DOMAIN other.writes \subseteq other.reads
<1>1. Fresh(tx) /\ Fresh(other)
  BY DEF FinalInv, HouseInv, PoolOK, Fresh
<1>2. Execute(ws, tx.req).writes = tx.writes /\ Execute(ws, other.req).writes = other.writes
  BY <1>1 DEF Fresh, TxOK, Endorsed
<1> QED BY <1>1, <1>2, WritesAreRead

LEMMA CommitMoves ==
  ASSUME FinalInv, HouseInv', NEW tx \in pool, UNCHANGED <<auction, basket>>, Commit(tx)
  PROVE  FinalInv'
<1>1. /\ TxOK(tx, ws) /\ Awaiting(tx) /\ ~tx.stale /\ DOMAIN reply = Clients
      /\ ws' = Apply(ws, tx.writes)
  BY DEF FinalInv, HouseInv, PoolOK, Commit
<1>2. PICK S, F :
        /\ S = pool \ {tx}
        /\ F = [other \in S |->
                  [other EXCEPT !.stale = other.stale \/ other.reads \cap DOMAIN tx.writes # {}]]
  OBVIOUS
<1>3. pool' = {F[other] : other \in S} /\ S \in SUBSET pool
  BY <1>2 DEF Commit, Remaining
<1>4. ASSUME NEW other \in S
      PROVE  /\ F[other].client = other.client /\ F[other].req = other.req
             /\ F[other].writes = other.writes
             /\ F[other].awaited => other.awaited
             /\ ~F[other].stale => ~other.stale /\ other.reads \cap DOMAIN tx.writes = {}
  <2> DEFINE stale == other.stale \/ other.reads \cap DOMAIN tx.writes # {}
  <2>1. DOMAIN other = TxFields
    BY <1>2 DEF FinalInv, HouseInv, PoolOK, TxOK
  <2>2. F[other] = [other EXCEPT !.stale = stale]
    BY <1>2
  <2>3. ~stale => ~other.stale /\ other.reads \cap DOMAIN tx.writes = {}
    OBVIOUS
  <2> HIDE DEF stale
  <2>4. /\ F[other].client = other.client /\ F[other].req = other.req
        /\ F[other].writes = other.writes /\ F[other].awaited = other.awaited
        /\ F[other].stale = stale
    BY <2>1, <2>2, Marked
  <2> QED BY <2>3, <2>4
<1>5. /\ DOMAIN reply' = Clients
      /\ \A d \in Clients : reply'[d] # reply[d] => tx.awaited /\ d = tx.client
  BY <1>1 DEF Commit, Answer
<1>6. ASSUME NEW d \in Clients, reply'[d] # reply[d]
      PROVE  /\ \A other \in S : other.client = d => ~F[other].awaited
             /\ reply'[d].kind = "ok" /\ d \in Makers /\ auction[d].pc = "submitted" =>
                  \A other \in S : other.client = d => ~Effective(F[other])
  <2>1. tx.awaited /\ d = tx.client
    BY <1>5, <1>6
  <2>2. \A other \in S : other.client = d => ~F[other].awaited
    BY <1>1, <1>2, <1>4, <2>1 DEF Awaiting
  <2>3. ASSUME d \in Makers, auction[d].pc = "submitted", NEW other \in S, other.client = d,
               Effective(F[other])
        PROVE  FALSE
    <3>1. tx.req = EndRequest(auction[d])
      BY <1>1, <2>1, <2>3 DEF Awaiting
    <3>2. Effective(other) /\ ~other.stale /\ other.reads \cap DOMAIN tx.writes = {}
      BY <1>4, <2>3 DEF Effective
    <3>3. Current(other) /\ other \in pool
      BY <1>3 DEF FinalInv
    <3>4. other.req = EndRequest(auction[d])
      BY <2>3, <3>2, <3>3 DEF Current
    <3>5. tx.writes = other.writes /\ DOMAIN other.writes \subseteq other.reads
      BY <1>1, <3>1, <3>2, <3>3, <3>4, SameRequest
    <3>6. DOMAIN other.writes # {}
      BY <3>2 DEF Effective
    <3> QED BY <3>2, <3>5, <3>6
  <2> QED BY <2>2, <2>3
<1>7. ASSUME NEW other \in S PROVE Lasting(F[other])'
  <2>1. SUFFICES ASSUME ~F[other].stale, NEW b \in Bids, b \in DOMAIN F[other].writes, Settled(ws'[b])
                 PROVE  F[other].writes[b] = ws'[b]
    BY DEF Lasting, Settled
  <2>2. /\ F[other].writes = other.writes /\ ~other.stale
        /\ other.reads \cap DOMAIN tx.writes = {}
    BY <1>4, <2>1
  <2>3. DOMAIN other.writes \subseteq other.reads /\ Lasting(other)
    BY <1>3, <2>2, SameRequest DEF FinalInv
  <2>4. ws'[b] = ws[b]
    BY <1>1, <2>1, <2>2, <2>3, KeyKinds DEF Apply
  <2> QED BY <2>1, <2>2, <2>3, <2>4 DEF Lasting
<1>8. BidsSound' /\ \A n \in Makers : OfferSound(auction[n])'
  BY BidsStaySound, OffersStaySound
<1>9. \A other \in S :
        /\ F[other].client = other.client /\ F[other].req = other.req
        /\ F[other].writes = other.writes
        /\ F[other].awaited => other.awaited
        /\ ~F[other].stale => ~other.stale
  BY <1>4
<1>10. DOMAIN reply' = Clients
  BY <1>5
<1>11. BidsSound'
  BY <1>8
<1>12. \A n \in Makers : OfferSound(auction[n])'
  BY <1>8
<1> QED BY <1>3, <1>6, <1>7, <1>9, <1>10, <1>11, <1>12, PoolMoves, Zenon

-----------------------------------------------------------------------------
LEMMA FinalInvInit == Init => FinalInv
<1> SUFFICES ASSUME Init PROVE FinalInv
  OBVIOUS
<1>1. HouseInv
  BY HouseInvInit
<1>2. pool = {} /\ DOMAIN reply = Clients
  BY DEF Init, GatewayInit
<1>3. BidsSound
  <2>1. ASSUME NEW b \in Bids PROVE ws[b] = Absent
    <3> DEFINE w == InitLedger(EmptyState).writes
    <3>1. ws = Apply(EmptyState, w) /\ DOMAIN w = Categories
      BY DEF Init, GatewayInit, InitLedger, Result
    <3> HIDE DEF w
    <3> QED BY <3>1, KeyKinds DEF Apply, EmptyState
  <2> QED BY <2>1 DEF BidsSound
<1>4. \A m \in Makers : OfferSound(auction[m])
  <2>1. \A m \in Makers : auction[m].pc = "idle"
    BY DEF Init, ProducerInit, Idle
  <2> QED BY <2>1 DEF OfferSound
<1> QED BY <1>1, <1>2, <1>3, <1>4 DEF FinalInv

LEMMA FinalInvStep == FinalInv /\ [Next]_vars => FinalInv'
<1> SUFFICES ASSUME FinalInv, [Next]_vars PROVE FinalInv'
  OBVIOUS
<1>1. HouseInv'
  BY HouseInvStep DEF FinalInv
<1>2. CASE UNCHANGED vars
  BY <1>1, <1>2 DEF vars, FinalInv, Owned, Awaiting, Current, Effective, Lasting, BidsSound,
                    OfferSound, Settled, EndRequest, PlaceRequest
<1>3. CASE Network
  BY <1>1, <1>3, CommitMoves, PoolShrinks, ClockMoves DEF Network, GatewayNext
<1>4. CASE Producers
  BY <1>1, <1>4, CreationIsSent, SettlementIsSent, StartsOrWaits, Stops, Offers, Retries
     DEF Producers, ProducerNext, ProducerStep
<1>5. CASE BuyersStart \/ BuyersPlace
  BY <1>1, <1>5, BidsAreSent, BuyerMoves DEF BuyersStart, BuyersPlace, BuyerStep
<1>6. CASE PriceUpdate
  BY <1>1, <1>6, PriceMoves
<1> QED BY <1>2, <1>3, <1>4, <1>5, <1>6 DEF Next

LEMMA FinalInvHolds == Spec => []FinalInv
BY FinalInvInit, FinalInvStep, PTL DEF Spec

\* A settled bid is final, whatever is lost, delayed, retried and reordered
\* (AwardsAreFinal; auctionEnd sends the same settlement again until it is
\* answered, producerAppAuction.go:195, and the contract settles a bid that is
\* settled already, smartcontract.go:293-331).
THEOREM AwardsStayFinal == Spec => AwardsAreFinal
<1>1. ASSUME FinalInv, [Next]_vars, NEW b \in Bids, Settled(ws[b])
      PROVE  ws'[b] = ws[b]
  <2>1. ASSUME NEW tx \in pool, Commit(tx) PROVE ws'[b] = ws[b]
    <3>1. Lasting(tx)
      BY <1>1, <2>1 DEF FinalInv
    <3>2. ~tx.stale /\ ws' = Apply(ws, tx.writes)
      BY <2>1 DEF Commit
    <3> QED BY <1>1, <3>1, <3>2, KeyKinds DEF Lasting, Apply
  <2>2. CASE PriceUpdate
    <3>1. PICK cat \in Categories, p \in NewPrices :
            ws' = Apply(ws, UpdateUnitPrice(ws, cat, p).writes)
      BY <2>2 DEF PriceUpdate
    <3>2. DOMAIN UpdateUnitPrice(ws, cat, p).writes \subseteq {cat}
      BY DEF UpdateUnitPrice, Error, Result, NoWrite
    <3> QED BY <3>1, <3>2, KeyKinds DEF Apply
  <2>3. ASSUME UNCHANGED ws PROVE ws'[b] = ws[b]
    BY <2>3
  <2>4. CASE Network
    BY <2>1, <2>3, <2>4 DEF Network, GatewayNext, Invalidate, GiveUp, Drop, ClockTick
  <2>5. CASE Producers
    BY <2>3, <2>5 DEF Producers, ProducerNext, ProducerStep, Produce, CreateToken, Created,
         CreateFailed, EndTimer, Tick, TimeUp, Query, SubmitEnd, Ended, EndFailed, QueryFailed,
         Submit, TakeReply, Evaluate, EvaluateFails, gatewayVars
  <2>6. CASE BuyersStart \/ BuyersPlace
    BY <2>3, <2>6 DEF BuyersStart, BuyersPlace, Bidding, StampBids, BuyerStep, SendBids,
         BidsPlaced, BidsFailed, Submit, TakeReply, gatewayVars
  <2>7. CASE UNCHANGED vars
    BY <2>3, <2>7 DEF vars
  <2> QED BY <1>1, <2>2, <2>4, <2>5, <2>6, <2>7 DEF Next
<1>2. FinalInv /\ [Next]_vars =>
        [\A b \in Bids : ws[b] # Absent /\ ws[b].status = "success" => ws'[b] = ws[b]]_ws
  BY <1>1 DEF Settled
<1> QED BY <1>2, FinalInvHolds, PTL DEF Spec, AwardsAreFinal

-----------------------------------------------------------------------------
(* The invariant.  An answer is true when its transaction commits; it stays   *)
(* true because every other copy of the settlement becomes stale by that      *)
(* commit, and because nobody but this goroutine writes its token.            *)

Refusals == {"the energy is alive", "energy ID is wrong", "bid amount is wrong"}
Last == {"auction end", OldMessage}

\* A token of a goroutine carries the time the goroutine has started with.
AgesOK ==
  \A m \in Makers : \A e \in TokenIds[m] : ws[e] # Absent =>
    auction[m].pc # "idle" /\ ws[e].gen = auction[m].gen

\* What msg says of token e is so.
Says(msg, e) ==
  /\ msg = "auction end" => ws[e] # Absent /\ ws[e].status = "sold"
  /\ msg = OldMessage => ws[e] # Absent /\ ws[e].status = "old"

Quiet(m) == \A tx \in pool : tx.client = m => ~Effective(tx)

AnswerOK(m) ==
  /\ auction[m].pc = "done" =>
       /\ Says(auction[m].last, auction[m].id)
       /\ auction[m].last \in Last => auction[m].id \in TokenIds[m] /\ Quiet(m)
  /\ auction[m].pc = "submitted" /\ reply[m].kind = "ok" =>
       /\ Says(reply[m].msg, auction[m].id)
       /\ ContractLife =< TokenLife => reply[m].msg \notin Refusals
  /\ ContractLife =< TokenLife => auction[m].last \notin Refusals

\* The batch of a buyer has just been accepted.
Accepted(c) == basket[c].pc = "sent" /\ reply[c].kind = "ok"

PlacedOK(c) ==
  /\ \A b \in basket[c].placed : b \in Bids /\ ws[b] # Absent
  /\ Accepted(c) => \A b \in DOMAIN basket[c].list : b \in Bids /\ ws[b] # Absent

Knows(c, b) == b \in basket[c].placed \/ (Accepted(c) /\ b \in DOMAIN basket[c].list)

\* As long as no call has failed.
NothingForgotten ==
  faults = 0 => /\ \A tx \in pool : tx.awaited
                /\ \A b \in Bids : ws[b] # Absent => \E c \in Buyers : Knows(c, b)

AnswerInv ==
  /\ FinalInv
  /\ faults \in Nat
  /\ AgesOK
  /\ \A m \in Makers : AnswerOK(m)
  /\ \A c \in Buyers : PlacedOK(c)
  /\ NothingForgotten

-----------------------------------------------------------------------------
(* A goroutine of a producer moves without sending anything.                  *)

LEMMA MakerIsTold ==
  ASSUME AnswerInv, FinalInv', NEW m \in Makers, NEW a,
         UNCHANGED <<ws, pool, basket>>,
         faults' \in {faults, faults + 1},
         reply' \in {reply, [reply EXCEPT ![m] = NoReply]},
         auction' = [auction EXCEPT ![m] = a],
         auction[m].pc # "idle" => a.pc # "idle" /\ a.gen = auction[m].gen,
         a.pc = "submitted" => reply'[m].kind # "ok",
         a.pc = "done" => /\ Says(a.last, a.id)
                          /\ a.last \in Last => a.id \in TokenIds[m] /\ Quiet(m),
         ContractLife =< TokenLife => a.last \notin Refusals
  PROVE  AnswerInv'
<1>1. auction'[m] = a /\ \A n \in Makers : n # m => auction'[n] = auction[n]
  BY DEF AnswerInv, FinalInv, HouseInv, AuctionsOK
<1>2. \A c \in Clients : c # m => reply'[c] = reply[c]
  BY DEF AnswerInv, FinalInv
<1>3. Makers \subseteq Clients /\ Buyers \subseteq Clients /\ m \notin Buyers
  BY HouseAssumption, ProducerAssumption, BuyerAssumption
<1>4. AgesOK'
  BY <1>1 DEF AnswerInv, AgesOK
<1>5. ASSUME NEW n \in Makers PROVE AnswerOK(n)'
  <2>1. CASE n = m
    BY <1>1, <2>1 DEF AnswerOK, Says, Quiet, Effective
  <2>2. CASE n # m
    <3>1. AnswerOK(n)
      BY DEF AnswerInv
    <3>2. auction'[n] = auction[n] /\ reply'[n] = reply[n]
      BY <1>1, <1>2, <1>3, <2>2
    <3> QED BY <3>1, <3>2 DEF AnswerOK, Says, Quiet, Effective
  <2> QED BY <2>1, <2>2
<1>6. \A c \in Buyers : reply'[c] = reply[c]
  BY <1>2, <1>3
<1>7. \A c \in Buyers : PlacedOK(c)'
  BY <1>6 DEF AnswerInv, PlacedOK, Accepted
<1>8. faults' \in Nat /\ (faults' = 0 => faults = 0)
  BY DEF AnswerInv
<1>9. NothingForgotten'
  BY <1>6, <1>8 DEF AnswerInv, NothingForgotten, Knows, Accepted
<1> QED BY <1>4, <1>5, <1>7, <1>8, <1>9 DEF AnswerInv

LEMMA Words ==
  /\ "auction end" # OldMessage
  /\ \A w \in {"time up", "no bids", "many create error", "auction continue",
                "energy amount is wrong"} : w \notin Last /\ w \notin Refusals
  /\ \A w \in Last : w \notin Refusals
BY DEF OldMessage, Last, Refusals

\* The goroutine ends or waits, and why is nothing it has been told.
LEMMA EndsUntold ==
  ASSUME AnswerInv, FinalInv', NEW m \in Makers, auction[m].pc # "idle",
         UNCHANGED <<ws, pool, basket>>,
         faults' \in {faults, faults + 1},
         reply' \in {reply, [reply EXCEPT ![m] = NoReply]},
         NEW why \in {"time up", "no bids", "many create error"},
         auction' = Finish(m, why) \/ auction' = Continue(m, why)
  PROVE  AnswerInv'
<1>1. PICK a : /\ auction' = [auction EXCEPT ![m] = a]
               /\ a.pc \in {"wait", "done"}
               /\ a.gen = auction[m].gen /\ a.id = auction[m].id /\ a.last = why
  BY FinishesOrContinues DEF AnswerInv
<1>2. a.last \notin Last /\ a.last \notin Refusals
  BY <1>1, Words
<1>3. Says(a.last, a.id)
  BY <1>2 DEF Says, Last
<1> QED BY <1>1, <1>2, <1>3, MakerIsTold

LEMMA MovesUntold ==
  ASSUME AnswerInv, FinalInv', NEW m \in Makers, UNCHANGED basket,
         Produce(m) \/ Created(m) \/ CreateFailed(m) \/ Tick(m)
  PROVE  AnswerInv'
<1>1. AuctionOK(auction[m], m) /\ AnswerOK(m)
  BY NothingPending DEF AnswerInv
<1>2. /\ UNCHANGED <<ws, pool, faults>> /\ reply' \in {reply, [reply EXCEPT ![m] = NoReply]}
  BY DEF Produce, Created, CreateFailed, Tick, gatewayVars, TakeReply
<1>3. ASSUME NEW a, auction' = [auction EXCEPT ![m] = a],
             a.pc \in {"create", "wait", "query"}, a.last = auction[m].last,
             auction[m].pc # "idle" => a.gen = auction[m].gen
      PROVE  AnswerInv'
  BY <1>1, <1>2, <1>3, MakerIsTold DEF AnswerOK
<1>4. CASE Produce(m)
  <2> DEFINE a == [auction[m] EXCEPT !.pc = "create", !.gen = now]
  <2>1. auction' = [auction EXCEPT ![m] = a] /\ auction[m].pc = "idle"
    BY <1>4 DEF Produce, At
  <2>2. a.pc = "create" /\ a.last = auction[m].last
    BY <1>1 DEF AuctionOK, AuctionFields
  <2> HIDE DEF a
  <2> QED BY <1>3, <2>1, <2>2
<1>5. CASE Created(m)
  <2> DEFINE due == auction[m].gen + Interval
             a == [auction[m] EXCEPT !.pc = "wait", !.tries = 0, !.due = due]
  <2>1. auction' = [auction EXCEPT ![m] = a]
    BY <1>5 DEF Created
  <2> HIDE DEF due
  <2>2. a.pc = "wait" /\ a.gen = auction[m].gen /\ a.last = auction[m].last
    BY <1>1 DEF AuctionOK, AuctionFields
  <2> HIDE DEF a
  <2> QED BY <1>3, <2>1, <2>2
<1>6. CASE CreateFailed(m)
  <2> DEFINE tries == auction[m].tries + 1
             a == [auction[m] EXCEPT !.pc = "create", !.id = NoId, !.tries = tries]
  <2>1. auction' = [auction EXCEPT ![m] = a] \/ auction' = Finish(m, "many create error")
    BY <1>6 DEF CreateFailed
  <2>2. auction[m].pc # "idle"
    BY <1>6 DEF CreateFailed, At
  <2> HIDE DEF tries
  <2>3. a.pc = "create" /\ a.gen = auction[m].gen /\ a.last = auction[m].last
    BY <1>1 DEF AuctionOK, AuctionFields
  <2> HIDE DEF a
  <2> QED BY <1>2, <1>3, <2>1, <2>2, <2>3, EndsUntold
<1>7. CASE Tick(m)
  <2> DEFINE ticks == auction[m].ticks + 1
             due == IF auction[m].ticks = 0 THEN now + Interval
                    ELSE auction[m].due
                           + Interval * (((now - auction[m].due) \div Interval) + 1)
             a == [auction[m] EXCEPT !.pc = "query", !.ts = now, !.ticks = ticks, !.due = due]
  <2>1. auction' = [auction EXCEPT ![m] = a]
    BY <1>7 DEF Tick
  <2> HIDE DEF ticks, due
  <2>2. a.pc = "query" /\ a.gen = auction[m].gen /\ a.last = auction[m].last
    BY <1>1 DEF AuctionOK, AuctionFields
  <2> HIDE DEF a
  <2> QED BY <1>3, <2>1, <2>2
<1> QED BY <1>4, <1>5, <1>6, <1>7

LEMMA StopsOrOffers ==
  ASSUME AnswerInv, FinalInv', NEW m \in Makers, UNCHANGED basket,
         EndTimer(m) \/ TimeUp(m) \/ Query(m)
  PROVE  AnswerInv'
<1>1. AuctionOK(auction[m], m) /\ AnswerOK(m) /\ auction[m].pc # "idle"
  BY NothingPending DEF AnswerInv, EndTimer, TimeUp, Query, At
<1>2. UNCHANGED <<ws, pool, faults, reply>>
  BY DEF EndTimer, TimeUp, Query, Evaluate, gatewayVars
<1>3. CASE auction' = Finish(m, "time up") \/ auction' = Continue(m, "no bids")
  BY <1>1, <1>2, <1>3, EndsUntold
<1>4. CASE \E offer, sold, isSold :
             auction' = [auction EXCEPT ![m] =
               [@ EXCEPT !.pc = "submit", !.tries = 0, !.offer = offer,
                         !.amount = sold, !.isSold = isSold]]
  <2>1. PICK offer, sold, isSold :
             auction' = [auction EXCEPT ![m] =
               [@ EXCEPT !.pc = "submit", !.tries = 0, !.offer = offer,
                         !.amount = sold, !.isSold = isSold]]
    BY <1>4
  <2> DEFINE a == [auction[m] EXCEPT !.pc = "submit", !.tries = 0, !.offer = offer,
                                     !.amount = sold, !.isSold = isSold]
  <2>2. auction' = [auction EXCEPT ![m] = a]
    BY <2>1
  <2>3. a.pc = "submit" /\ a.gen = auction[m].gen /\ a.last = auction[m].last
    BY <1>1 DEF AuctionOK, AuctionFields
  <2> HIDE DEF a
  <2> QED BY <1>1, <1>2, <2>2, <2>3, MakerIsTold DEF AnswerOK
<1>5. CASE EndTimer(m) \/ TimeUp(m)
  BY <1>3, <1>5 DEF EndTimer, TimeUp
<1>6. CASE Query(m)
  BY <1>3, <1>4, <1>6 DEF Query
<1> QED BY <1>5, <1>6

\* The goroutine reads the answer.
LEMMA IsTold ==
  ASSUME AnswerInv, FinalInv', NEW m \in Makers, UNCHANGED basket, Ended(m)
  PROVE  AnswerInv'
<1>1. /\ AuctionOK(auction[m], m) /\ AnswerOK(m)
      /\ auction[m].pc = "submitted" /\ reply[m].kind = "ok"
      /\ Quiet(m)
  BY NothingPending DEF AnswerInv, Ended, At, Quiet
<1>2. UNCHANGED <<ws, pool, faults>> /\ reply' = [reply EXCEPT ![m] = NoReply]
  BY DEF Ended, TakeReply
<1>3. PICK a : /\ auction' = [auction EXCEPT ![m] = a]
               /\ a.pc \in {"wait", "done"}
               /\ a.gen = auction[m].gen /\ a.id = auction[m].id /\ a.last = reply[m].msg
  <2> DEFINE msg == reply[m].msg
  <2>1. auction' = Finish(m, msg) \/ auction' = Continue(m, msg)
    BY DEF Ended
  <2> HIDE DEF msg
  <2>2. \E a : /\ auction' = [auction EXCEPT ![m] = a]
               /\ a.pc \in {"wait", "done"}
               /\ a.gen = auction[m].gen /\ a.id = auction[m].id /\ a.last = msg
    BY <2>1, FinishesOrContinues DEF AnswerInv
  <2> QED BY <2>2 DEF msg
<1>4. Says(a.last, a.id) /\ (ContractLife =< TokenLife => a.last \notin Refusals)
  BY <1>1, <1>3 DEF AnswerOK
<1>5. a.id \in TokenIds[m]
  BY <1>1, <1>3 DEF AuctionOK
<1> QED BY <1>1, <1>2, <1>3, <1>4, <1>5, MakerIsTold

LEMMA CallsAgain ==
  ASSUME AnswerInv, FinalInv', NEW m \in Makers, UNCHANGED basket,
         EndFailed(m) \/ QueryFailed(m)
  PROVE  AnswerInv'
<1>1. /\ AuctionOK(auction[m], m) /\ AnswerOK(m) /\ DOMAIN reply = Clients /\ m \in Clients
      /\ auction[m].pc # "idle" /\ faults \in Nat
  BY NothingPending, ProducerAssumption DEF AnswerInv, FinalInv, EndFailed, QueryFailed, At
<1>2. CASE EndFailed(m)
  <2>1. CallFailed(m, "submit") /\ auction[m].pc = "submitted"
    BY <1>2 DEF EndFailed, At
  <2>2. PICK a : /\ auction' = [auction EXCEPT ![m] = a]
                 /\ a.pc \in {"submit", "submitted"}
                 /\ a.gen = auction[m].gen /\ a.last = auction[m].last
    BY <2>1, CallAgain DEF AnswerInv
  <2>3. UNCHANGED <<ws, pool, faults>> /\ reply' = [reply EXCEPT ![m] = NoReply]
    BY <1>2 DEF EndFailed, TakeReply
  <2>4. reply'[m].kind # "ok"
    BY <1>1, <2>3, Kinds
  <2> QED BY <1>1, <2>2, <2>3, <2>4, MakerIsTold DEF AnswerOK
<1>3. CASE QueryFailed(m)
  <2>1. CallFailed(m, "query") /\ auction[m].pc = "query"
    BY <1>3 DEF QueryFailed, At
  <2>2. PICK a : /\ auction' = [auction EXCEPT ![m] = a]
                 /\ a.pc = "query"
                 /\ a.gen = auction[m].gen /\ a.last = auction[m].last
    BY <2>1, CallAgain DEF AnswerInv
  <2>3. UNCHANGED <<ws, pool, reply>> /\ faults' = faults + 1
    BY <1>3 DEF QueryFailed, EvaluateFails
  <2> QED BY <1>1, <2>2, <2>3, MakerIsTold DEF AnswerOK
<1> QED BY <1>2, <1>3

-----------------------------------------------------------------------------
(* A client sends a request: no answer yet.                                   *)

LEMMA SendsOnce ==
  ASSUME AnswerInv, FinalInv', NEW c \in Clients, NEW req \in HouseRequests, Submit(c, req),
         \A n \in Makers : n # c => auction'[n] = auction[n],
         \A d \in Buyers : d # c => basket'[d] = basket[d],
         c \in Makers =>
           /\ auction[c].pc # "idle" /\ auction'[c].pc \in {"creating", "submitted"}
           /\ auction'[c].gen = auction[c].gen /\ auction'[c].last = auction[c].last,
         c \in Buyers => basket[c].pc # "sent" /\ basket'[c].placed = basket[c].placed
  PROVE  AnswerInv'
<1>1. /\ ws' = ws /\ faults' = faults
      /\ \A d \in Clients : d # c => reply'[d] = reply[d]
      /\ reply'[c].kind # "ok"
      /\ \A tx \in pool' : tx \notin pool => tx.client = c /\ tx.awaited = TRUE
  <2>1. FinalInv
    BY DEF AnswerInv
  <2>2. faults' = faults
    BY DEF Submit
  <2> QED BY <2>1, <2>2, Sent
<1>2. Makers \subseteq Clients /\ Buyers \subseteq Clients
  BY ProducerAssumption, BuyerAssumption
<1>3. AgesOK'
  <2>1. \A m \in Makers : auction[m].pc # "idle" =>
          auction'[m].pc # "idle" /\ auction'[m].gen = auction[m].gen
    BY <1>2
  <2> QED BY <1>1, <2>1 DEF AnswerInv, AgesOK
<1>4. ASSUME NEW m \in Makers PROVE AnswerOK(m)'
  <2>1. AnswerOK(m)
    BY DEF AnswerInv
  <2>2. CASE m = c
    BY <1>1, <2>1, <2>2 DEF AnswerOK
  <2>3. CASE m # c
    <3>1. auction'[m] = auction[m] /\ reply'[m] = reply[m]
      BY <1>1, <1>2, <2>3
    <3>2. Quiet(m) => Quiet(m)'
      BY <1>1, <2>3 DEF Quiet, Effective
    <3> QED BY <1>1, <2>1, <3>1, <3>2 DEF AnswerOK, Says
  <2> QED BY <2>2, <2>3
<1>5. ASSUME NEW d \in Buyers
      PROVE  /\ basket'[d].placed = basket[d].placed
             /\ d # c => Accepted(d)' = Accepted(d) /\ basket'[d] = basket[d]
             /\ d = c => ~Accepted(d) /\ ~Accepted(d)'
  BY <1>1, <1>2 DEF Accepted
<1>6. ASSUME NEW d \in Buyers PROVE PlacedOK(d)'
  <2>1. PlacedOK(d)
    BY DEF AnswerInv
  <2> QED BY <1>1, <1>5, <2>1 DEF PlacedOK
<1>7. \A d \in Buyers : \A b : Knows(d, b) => Knows(d, b)'
  BY <1>5 DEF Knows
<1>8. NothingForgotten'
  BY <1>1, <1>7 DEF AnswerInv, NothingForgotten
<1> QED BY <1>1, <1>3, <1>4, <1>6, <1>8 DEF AnswerInv

LEMMA CreationIsAsked ==
  ASSUME AnswerInv, FinalInv', NEW m \in Makers, UNCHANGED basket, CreateToken(m)
  PROVE  AnswerInv'
<1>1. AuctionOK(auction[m], m) /\ auction[m].pc = "create"
  BY NothingPending DEF AnswerInv, CreateToken, At
<1>2. PICK id \in TokenIds[m] :
        /\ Submit(m, [op |-> "CreateEnergyToken", id |-> id, producer |-> Owner[m],
                      amount |-> Output[m], cat |-> Kind[m], time |-> auction[m].gen])
        /\ auction' = [auction EXCEPT ![m] = [@ EXCEPT !.pc = "creating", !.id = id]]
  BY DEF CreateToken
<1> DEFINE req == [op |-> "CreateEnergyToken", id |-> id, producer |-> Owner[m],
                   amount |-> Output[m], cat |-> Kind[m], time |-> auction[m].gen]
           a == [auction[m] EXCEPT !.pc = "creating", !.id = id]
<1>3. req \in Creations
  <2>1. /\ id \in Energies /\ Owner[m] \in Users /\ Kind[m] \in Categories
        /\ Output[m] \in Portions /\ auction[m].gen \in Clock
    BY <1>1, Numbers, ProducerAssumption DEF AuctionOK
  <2> QED BY <2>1 DEF Creations
<1> HIDE DEF req
<1>4. Submit(m, req) /\ m \in Clients /\ m \notin Buyers /\ req \in HouseRequests
  BY <1>2, <1>3, ProducerAssumption, HouseAssumption DEF req, HouseRequests
<1>5. a.pc = "creating" /\ a.gen = auction[m].gen /\ a.last = auction[m].last
  BY <1>1 DEF AuctionOK, AuctionFields
<1>6. auction' = [auction EXCEPT ![m] = a]
  BY <1>2
<1> HIDE DEF a
<1>7. auction'[m] = a /\ \A n \in Makers : n # m => auction'[n] = auction[n]
  BY <1>6 DEF AnswerInv, FinalInv, HouseInv, AuctionsOK
<1>8. \A d \in Buyers : basket'[d] = basket[d]
  OBVIOUS
<1> QED BY <1>1, <1>4, <1>5, <1>7, <1>8, SendsOnce

LEMMA SettlementIsAsked ==
  ASSUME AnswerInv, FinalInv', NEW m \in Makers, UNCHANGED basket, SubmitEnd(m)
  PROVE  AnswerInv'
<1> DEFINE a == [auction[m] EXCEPT !.pc = "submitted"]
           req == EndRequest(auction[m])
<1>1. AuctionOK(auction[m], m) /\ auction[m].pc = "submit"
  BY NothingPending DEF AnswerInv, SubmitEnd, At
<1>2. Submit(m, req) /\ auction' = [auction EXCEPT ![m] = a]
  BY DEF SubmitEnd, EndRequest
<1>3. req \in HouseRequests
  BY <1>1, EndRequestOK DEF AnswerInv
<1>4. a.pc = "submitted" /\ a.gen = auction[m].gen /\ a.last = auction[m].last
  BY <1>1 DEF AuctionOK, AuctionFields
<1> HIDE DEF a, req
<1>5. auction'[m] = a /\ \A n \in Makers : n # m => auction'[n] = auction[n]
  BY <1>2 DEF AnswerInv, FinalInv, HouseInv, AuctionsOK
<1>6. m \in Clients /\ m \notin Buyers
  BY ProducerAssumption, HouseAssumption
<1>7. \A d \in Buyers : basket'[d] = basket[d]
  OBVIOUS
<1> QED BY <1>1, <1>2, <1>3, <1>4, <1>5, <1>6, <1>7, SendsOnce

LEMMA BidsAreAsked ==
  ASSUME AnswerInv, FinalInv', NEW c \in Buyers, UNCHANGED auction, SendBids(c)
  PROVE  AnswerInv'
<1> DEFINE k == [basket[c] EXCEPT !.pc = "sent"]
           req == PlaceRequest(basket[c])
<1>1. /\ Submit(c, req) /\ basket[c].pc = "send" /\ basket' = [basket EXCEPT ![c] = k]
      /\ BasketOK(basket[c])
  BY DEF SendBids, Shopping, PlaceRequest, AnswerInv, FinalInv, HouseInv, BasketsOK
<1>2. req \in HouseRequests
  BY <1>1 DEF BasketOK, Placements, PlaceRequest, HouseRequests
<1>3. k.placed = basket[c].placed
  BY <1>1 DEF BasketOK, BasketFields
<1> HIDE DEF k, req
<1>4. basket'[c] = k /\ \A d \in Buyers : d # c => basket'[d] = basket[d]
  BY <1>1 DEF AnswerInv, FinalInv, HouseInv, BasketsOK
<1>5. c \in Clients /\ c \notin Makers
  BY BuyerAssumption, HouseAssumption
<1>6. \A n \in Makers : auction'[n] = auction[n]
  OBVIOUS
<1> QED BY <1>1, <1>2, <1>3, <1>4, <1>5, <1>6, SendsOnce

-----------------------------------------------------------------------------
(* A buyer moves without sending anything.                                    *)

LEMMA BuyerIsTold ==
  ASSUME AnswerInv, FinalInv', NEW c \in Buyers, NEW k,
         UNCHANGED <<ws, pool, faults, auction>>,
         reply' \in {reply, [reply EXCEPT ![c] = NoReply]},
         basket' = [basket EXCEPT ![c] = k],
         k.pc # "sent",
         \/ ~Accepted(c) /\ k.placed = basket[c].placed
         \/ Accepted(c) /\ k.placed = basket[c].placed \cup DOMAIN basket[c].list
  PROVE  AnswerInv'
<1>1. basket'[c] = k /\ \A d \in Buyers : d # c => basket'[d] = basket[d]
  BY DEF AnswerInv, FinalInv, HouseInv, BasketsOK
<1>2. \A d \in Clients : d # c => reply'[d] = reply[d]
  BY DEF AnswerInv, FinalInv
<1>3. Makers \subseteq Clients /\ Buyers \subseteq Clients /\ c \notin Makers
  BY HouseAssumption, ProducerAssumption, BuyerAssumption
<1>4. AgesOK'
  BY DEF AnswerInv, AgesOK
<1>5. ASSUME NEW m \in Makers PROVE AnswerOK(m)'
  <2>1. AnswerOK(m) /\ reply'[m] = reply[m]
    BY <1>2, <1>3 DEF AnswerInv
  <2> QED BY <2>1 DEF AnswerOK, Says, Quiet, Effective
<1>6. ASSUME NEW d \in Buyers, d # c
      PROVE  PlacedOK(d)' /\ \A b : Knows(d, b) => Knows(d, b)'
  <2>1. PlacedOK(d) /\ basket'[d] = basket[d] /\ reply'[d] = reply[d]
    BY <1>1, <1>2, <1>3, <1>6 DEF AnswerInv
  <2> QED BY <2>1 DEF PlacedOK, Accepted, Knows
<1>7. PlacedOK(c)' /\ \A b : Knows(c, b) => Knows(c, b)'
  <2>1. PlacedOK(c) /\ ~Accepted(c)'
    BY <1>1 DEF AnswerInv, Accepted
  <2> QED BY <1>1, <2>1 DEF PlacedOK, Knows
<1>8. NothingForgotten'
  <2>1. \A d \in Buyers : \A b : Knows(d, b) => Knows(d, b)'
    BY <1>6, <1>7
  <2> QED BY <2>1 DEF AnswerInv, NothingForgotten
<1> QED BY <1>4, <1>5, <1>6, <1>7, <1>8 DEF AnswerInv

LEMMA BuyerGoesOn ==
  ASSUME AnswerInv, FinalInv', NEW c \in Buyers, UNCHANGED auction,
         Bidding(c) \/ BidsPlaced(c) \/ BidsFailed(c)
  PROVE  AnswerInv'
<1> DEFINE k == basket[c]
<1>1. BasketOK(k)
  BY DEF AnswerInv, FinalInv, HouseInv, BasketsOK
<1>2. CASE Bidding(c)
  <2>1. /\ k.pc = "idle" /\ UNCHANGED <<ws, pool, faults, reply>>
        /\ \E drawn, list :
             basket' = [basket EXCEPT ![c] =
               [@ EXCEPT !.pc = "send", !.tries = 0, !.drawn = drawn, !.list = list]]
    BY <1>2 DEF Bidding, StampBids, Shopping, gatewayVars
  <2>2. PICK drawn, list :
          basket' = [basket EXCEPT ![c] =
            [@ EXCEPT !.pc = "send", !.tries = 0, !.drawn = drawn, !.list = list]]
    BY <2>1
  <2> DEFINE next == [k EXCEPT !.pc = "send", !.tries = 0, !.drawn = drawn, !.list = list]
  <2>3. next.pc = "send" /\ next.placed = k.placed
    BY <1>1 DEF BasketOK, BasketFields
  <2>4. basket' = [basket EXCEPT ![c] = next]
    BY <2>2
  <2> HIDE DEF next
  <2>5. ~Accepted(c)
    BY <2>1 DEF Accepted
  <2> QED BY <2>1, <2>3, <2>4, <2>5, BuyerIsTold
<1>3. CASE BidsPlaced(c)
  <2> DEFINE placed == k.placed \cup DOMAIN k.list
             next == [k EXCEPT !.pc = "idle", !.list = <<>>, !.tries = 0, !.placed = placed]
  <2>1. UNCHANGED <<ws, pool, faults>> /\ reply' = [reply EXCEPT ![c] = NoReply]
    BY <1>3 DEF BidsPlaced, TakeReply
  <2>2. Accepted(c) /\ basket' = [basket EXCEPT ![c] = next]
    BY <1>3 DEF BidsPlaced, Shopping, Accepted
  <2> HIDE DEF placed
  <2>3. next.pc = "idle" /\ next.placed = placed
    BY <1>1 DEF BasketOK, BasketFields
  <2> HIDE DEF next
  <2> QED BY <2>1, <2>2, <2>3, BuyerIsTold DEF placed
<1>4. CASE BidsFailed(c)
  <2> DEFINE tries == k.tries + 1
             stop == [k EXCEPT !.pc = "idle", !.list = <<>>, !.tries = 0]
             again == [k EXCEPT !.pc = "send", !.tries = tries]
  <2>1. UNCHANGED <<ws, pool, faults>> /\ reply' = [reply EXCEPT ![c] = NoReply]
    BY <1>4 DEF BidsFailed, TakeReply
  <2>2. /\ ~Accepted(c)
        /\ basket' = [basket EXCEPT ![c] = stop] \/ basket' = [basket EXCEPT ![c] = again]
    BY <1>4 DEF BidsFailed, Accepted
  <2> HIDE DEF tries
  <2>3. /\ stop.pc = "idle" /\ stop.placed = k.placed
        /\ again.pc = "send" /\ again.placed = k.placed
    BY <1>1 DEF BasketOK, BasketFields
  <2> HIDE DEF stop, again
  <2> QED BY <2>1, <2>2, <2>3, BuyerIsTold
<1> QED BY <1>2, <1>3, <1>4

-----------------------------------------------------------------------------
(* The network moves and commits nothing.                                     *)

LEMMA NetworkIsSilent ==
  ASSUME AnswerInv, FinalInv', UNCHANGED <<auction, basket>>,
         \A k \in Energies \cup Bids : ws'[k] = ws[k],
         faults' \in {faults, faults + 1},
         \A d \in Clients : reply'[d] = reply[d] \/ (reply[d].kind = "none" /\ reply'[d].kind = "error"),
         \A next \in pool' : \E tx \in pool :
           /\ next.client = tx.client
           /\ Effective(next) => Effective(tx)
           /\ faults' = 0 /\ tx.awaited => next.awaited
  PROVE  AnswerInv'
<1>1. Makers \subseteq Clients /\ Buyers \subseteq Clients
  BY ProducerAssumption, BuyerAssumption
<1>2. faults' \in Nat /\ (faults' = 0 => faults = 0)
  BY DEF AnswerInv
<1>3. AgesOK'
  <2>1. \A m \in Makers : TokenIds[m] \subseteq Energies
    BY ProducerAssumption
  <2> QED BY <2>1 DEF AnswerInv, AgesOK
<1>4. ASSUME NEW m \in Makers PROVE AnswerOK(m)'
  <2>1. AnswerOK(m) /\ AuctionOK(auction[m], m) /\ TokenIds[m] \subseteq Energies
    BY NothingPending, ProducerAssumption DEF AnswerInv
  <2>2. Quiet(m) => Quiet(m)'
    BY DEF Quiet, Effective
  <2>3. reply'[m].kind = "ok" => reply'[m] = reply[m]
    BY <1>1
  <2>4. CASE auction[m].pc = "submitted"
    <3>1. ws'[auction[m].id] = ws[auction[m].id]
      BY <2>1, <2>4 DEF AuctionOK
    <3> QED BY <2>1, <2>3, <2>4, <3>1 DEF AnswerOK, Says
  <2>5. CASE auction[m].pc = "done" /\ auction[m].last \in Last
    <3>1. ws'[auction[m].id] = ws[auction[m].id]
      BY <2>1, <2>5 DEF AnswerOK
    <3> QED BY <2>1, <2>2, <2>5, <3>1 DEF AnswerOK, Says
  <2>6. CASE auction[m].pc = "done" /\ auction[m].last \notin Last
    BY <2>1, <2>6 DEF AnswerOK, Says, Last
  <2>7. CASE auction[m].pc \notin {"submitted", "done"}
    BY <2>1, <2>7 DEF AnswerOK
  <2> QED BY <2>4, <2>5, <2>6, <2>7
<1>5. ASSUME NEW c \in Buyers PROVE PlacedOK(c)' /\ \A b : Knows(c, b) => Knows(c, b)'
  <2>1. PlacedOK(c)
    BY DEF AnswerInv
  <2>2. Accepted(c)' = Accepted(c)
    BY <1>1 DEF Accepted
  <2> QED BY <2>1, <2>2 DEF PlacedOK, Knows
<1>6. NothingForgotten'
  BY <1>2, <1>5 DEF AnswerInv, NothingForgotten
<1> QED BY <1>2, <1>3, <1>4, <1>5, <1>6 DEF AnswerInv

LEMMA NothingCommitted ==
  ASSUME AnswerInv, FinalInv', UNCHANGED <<auction, basket>>,
         ClockTick \/ \E tx \in pool : Invalidate(tx) \/ GiveUp(tx) \/ Drop(tx)
  PROVE  AnswerInv'
<1>1. faults \in Nat /\ DOMAIN reply = Clients
  BY DEF AnswerInv, FinalInv
<1>2. CASE ClockTick
  <2>1. UNCHANGED <<ws, pool, reply, faults>>
    BY <1>2 DEF ClockTick
  <2>2. \A next \in pool' : \E tx \in pool :
          /\ next.client = tx.client
          /\ Effective(next) => Effective(tx)
          /\ faults' = 0 /\ tx.awaited => next.awaited
    BY <2>1
  <2> QED BY <2>1, <2>2, NetworkIsSilent
<1>3. ASSUME NEW tx \in pool, Invalidate(tx) \/ Drop(tx) PROVE AnswerInv'
  <2>1. ws' = ws /\ faults' = faults /\ pool' \subseteq pool
    BY <1>3 DEF Invalidate, Drop
  <2>2. \A d \in Clients :
          reply'[d] = reply[d] \/ (reply[d].kind = "none" /\ reply'[d].kind = "error")
    <3>1. tx.awaited => reply[tx.client].kind = "none"
      BY DEF AnswerInv, FinalInv, Awaiting
    <3>2. reply' = reply \/ (tx.awaited /\ reply' = [reply EXCEPT ![tx.client] = Failed])
      BY <1>3 DEF Invalidate, Drop, Answer
    <3> QED BY <1>1, <3>1, <3>2, Kinds
  <2> QED BY <2>1, <2>2, NetworkIsSilent
<1>4. ASSUME NEW tx \in pool, GiveUp(tx) PROVE AnswerInv'
  <2> DEFINE late == [tx EXCEPT !.awaited = FALSE]
  <2>1. ws' = ws /\ faults' = faults + 1 /\ faults' # 0 /\ pool' = (pool \ {tx}) \cup {late}
    BY <1>1, <1>4 DEF GiveUp
  <2>2. Awaiting(tx) /\ DOMAIN tx = TxFields
    BY DEF AnswerInv, FinalInv, HouseInv, PoolOK, TxOK
  <2>3. \A d \in Clients :
          reply'[d] = reply[d] \/ (reply[d].kind = "none" /\ reply'[d].kind = "error")
    <3>1. reply[tx.client].kind = "none" /\ reply' = [reply EXCEPT ![tx.client] = Failed]
      BY <1>4, <2>2 DEF GiveUp, Awaiting
    <3> QED BY <1>1, <3>1, Kinds
  <2>4. late.client = tx.client /\ (Effective(late) => Effective(tx))
    BY <2>2 DEF Effective, TxFields
  <2> HIDE DEF late
  <2> QED BY <2>1, <2>3, <2>4, NetworkIsSilent
<1> QED BY <1>2, <1>3, <1>4

LEMMA PriceIsSilent ==
  ASSUME AnswerInv, FinalInv', PriceUpdate
  PROVE  AnswerInv'
<1>1. PICK cat \in Categories, p \in NewPrices :
        /\ ws' = Apply(ws, UpdateUnitPrice(ws, cat, p).writes)
        /\ pool' = {[tx EXCEPT !.stale = @ \/ cat \in tx.reads] : tx \in pool}
  BY DEF PriceUpdate
<1>2. UNCHANGED <<reply, faults, auction, basket>>
  BY DEF PriceUpdate
<1>3. DOMAIN UpdateUnitPrice(ws, cat, p).writes \subseteq {cat}
  BY DEF UpdateUnitPrice, Error, Result, NoWrite
<1>4. \A k \in Energies \cup Bids : ws'[k] = ws[k]
  BY <1>1, <1>3, KeyKinds DEF Apply
<1>5. ASSUME NEW next \in pool'
      PROVE  \E tx \in pool : /\ next.client = tx.client
                              /\ Effective(next) => Effective(tx)
                              /\ faults' = 0 /\ tx.awaited => next.awaited
  <2>1. PICK tx \in pool : next = [tx EXCEPT !.stale = tx.stale \/ cat \in tx.reads]
    BY <1>1, <1>5
  <2>2. DOMAIN tx = TxFields
    BY DEF AnswerInv, FinalInv, HouseInv, PoolOK, TxOK
  <2>3. /\ next.client = tx.client /\ next.req = tx.req /\ next.writes = tx.writes
        /\ next.awaited = tx.awaited /\ next.stale = (tx.stale \/ cat \in tx.reads)
    BY <2>1, <2>2, Marked
  <2> QED BY <2>3 DEF Effective
<1>6. \A d \in Clients :
        reply'[d] = reply[d] \/ (reply[d].kind = "none" /\ reply'[d].kind = "error")
  BY <1>2
<1> QED BY <1>2, <1>4, <1>5, <1>6, NetworkIsSilent

-----------------------------------------------------------------------------
(* A transaction commits, and its client is told.                             *)

LEMMA CommitFacts ==
  ASSUME AnswerInv, NEW tx \in pool, Commit(tx)
  PROVE  /\ Fresh(tx) /\ Owned(tx) /\ Awaiting(tx) /\ faults' = faults
         /\ \A k \in Keys : ws'[k] = IF k \in DOMAIN tx.writes THEN tx.writes[k] ELSE ws[k]
         /\ \A c \in Clients : \/ reply'[c] = reply[c] /\ ~(tx.awaited /\ tx.client = c)
                               \/ /\ tx.awaited /\ tx.client = c
                                  /\ reply'[c].kind = "ok" /\ reply'[c].msg = tx.msg
         /\ \A next \in pool' : \E other \in pool :
              /\ next.client = other.client /\ next.awaited = other.awaited
              /\ Effective(next) => Effective(other)
<1>1. Fresh(tx) /\ Owned(tx) /\ Awaiting(tx) /\ faults' = faults
  BY DEF AnswerInv, FinalInv, HouseInv, PoolOK, Commit, Fresh
<1>2. \A k \in Keys : ws'[k] = IF k \in DOMAIN tx.writes THEN tx.writes[k] ELSE ws[k]
  BY DEF Commit, Apply
<1>3. ASSUME NEW c \in Clients
      PROVE  \/ reply'[c] = reply[c] /\ ~(tx.awaited /\ tx.client = c)
             \/ /\ tx.awaited /\ tx.client = c
                /\ reply'[c].kind = "ok" /\ reply'[c].msg = tx.msg
  <2>1. \/ ~tx.awaited /\ reply' = reply
        \/ tx.awaited /\ reply' = [reply EXCEPT ![tx.client] = Succeeded(tx.msg)]
    BY DEF Commit, Answer
  <2>2. DOMAIN reply = Clients
    BY DEF AnswerInv, FinalInv
  <2> QED BY <2>1, <2>2, Kinds
<1>4. ASSUME NEW next \in pool'
      PROVE  \E other \in pool :
               /\ next.client = other.client /\ next.awaited = other.awaited
               /\ Effective(next) => Effective(other)
  <2>1. PICK other \in pool :
          next = [other EXCEPT !.stale = other.stale \/ other.reads \cap DOMAIN tx.writes # {}]
    BY <1>4 DEF Commit, Remaining
  <2>2. DOMAIN other = TxFields
    BY DEF AnswerInv, FinalInv, HouseInv, PoolOK, TxOK
  <2>3. /\ next.client = other.client /\ next.req = other.req /\ next.writes = other.writes
        /\ next.awaited = other.awaited
        /\ next.stale = (other.stale \/ other.reads \cap DOMAIN tx.writes # {})
    BY <2>1, <2>2, Marked
  <2> QED BY <2>3 DEF Effective
<1> QED BY <1>1, <1>2, <1>3, <1>4

LEMMA AgesStay ==
  ASSUME AnswerInv, NEW tx \in pool, Commit(tx), UNCHANGED auction
  PROVE  AgesOK'
<1>1. SUFFICES ASSUME NEW m \in Makers, NEW e \in TokenIds[m], ws'[e] # Absent
               PROVE  auction[m].pc # "idle" /\ ws'[e].gen = auction[m].gen
  BY DEF AgesOK
<1>2. e \in Energies /\ e \in Keys /\ Fresh(tx) /\ Owned(tx)
  BY CommitFacts, KeyKinds, ProducerAssumption
<1>3. CASE e \notin DOMAIN tx.writes
  <2>1. ws'[e] = ws[e]
    BY <1>2, <1>3, CommitFacts
  <2> QED BY <1>1, <2>1 DEF AnswerInv, AgesOK
<1>4. CASE e \in DOMAIN tx.writes
  <2>1. ws'[e] = tx.writes[e]
    BY <1>2, <1>4, CommitFacts
  <2>2. \/ /\ tx.req \in Creations /\ tx.req.id = e
           /\ tx.writes[e].gen = tx.req.time
        \/ ws[e] # Absent /\ tx.writes[e].gen = ws[e].gen
    BY <1>2, <1>4, TokenWritten
  <2>3. CASE tx.req \in Creations /\ tx.req.id = e /\ tx.writes[e].gen = tx.req.time
    <3>1. /\ tx.client \in Makers /\ e \in TokenIds[tx.client]
          /\ auction[tx.client].pc # "idle" /\ tx.req.time = auction[tx.client].gen
      BY <1>2, <2>3 DEF Owned
    <3>2. tx.client = m
      BY <3>1, ProducerAssumption
    <3> QED BY <2>1, <2>3, <3>1, <3>2
  <2>4. CASE ws[e] # Absent /\ tx.writes[e].gen = ws[e].gen
    BY <2>1, <2>4 DEF AnswerInv, AgesOK
  <2> QED BY <2>2, <2>3, <2>4
<1> QED BY <1>3, <1>4

\* Nobody but its goroutine writes a token.
LEMMA QuietToken ==
  ASSUME AnswerInv, NEW tx \in pool, Commit(tx), NEW m \in Makers, Quiet(m),
         NEW e \in TokenIds[m], ws[e] # Absent
  PROVE  ws'[e] = ws[e]
<1>1. e \in Energies /\ e \in Keys /\ Fresh(tx) /\ Owned(tx)
  BY CommitFacts, KeyKinds, ProducerAssumption
<1>2. CASE e \in DOMAIN tx.writes
  <2>1. tx.req \in Settlements /\ tx.req.in.id = e
    BY <1>1, <1>2, TokenWritten
  <2>2. tx.client \in Makers /\ e \in TokenIds[tx.client]
    BY <1>1, <2>1 DEF Owned
  <2>3. tx.client = m
    BY <2>2, ProducerAssumption
  <2>4. Effective(tx)
    BY <1>1, <1>2, <2>1 DEF Effective, Fresh
  <2> QED BY <2>3, <2>4 DEF Quiet
<1> QED BY <1>1, <1>2, CommitFacts

\* The answer the goroutine waits for is true, and no refusal of its bids.
LEMMA FreshAnswer ==
  ASSUME AnswerInv, NEW tx \in pool, Commit(tx), NEW m \in Makers,
         tx.awaited, tx.client = m, auction[m].pc = "submitted"
  PROVE  /\ tx.msg = "auction end" =>
              ws'[auction[m].id] # Absent /\ ws'[auction[m].id].status = "sold"
         /\ tx.msg = OldMessage =>
              ws'[auction[m].id] # Absent /\ ws'[auction[m].id].status = "old"
         /\ ContractLife =< TokenLife => tx.msg \notin Refusals
<1> DEFINE a == auction[m]
           e == a.id
           t == ws[e]
           in == tx.req.in
           out == Execute(ws, tx.req)
<1>1. /\ Fresh(tx) /\ tx.req = EndRequest(a) /\ OfferSound(a) /\ AuctionOK(a, m)
      /\ tx.req \in Settlements
  <2>1. Awaiting(tx) /\ Fresh(tx)
    BY CommitFacts
  <2>2. tx.req = EndRequest(a)
    BY <2>1 DEF Awaiting
  <2>3. FinalInv
    BY DEF AnswerInv
  <2> QED BY <2>1, <2>2, <2>3, EndRequestOK, NothingPending DEF FinalInv
<1>2. in.id = e /\ in.time = a.ts /\ tx.req.bidInput = a.offer
  BY <1>1 DEF EndRequest
<1>3. /\ World(ws) /\ ~out.err /\ out.writes = tx.writes /\ out.msg = tx.msg
      /\ GoodWrites(tx.writes)
  BY <1>1 DEF Fresh, TxOK, Endorsed
<1>4. /\ e \in Energies /\ t \in HouseToken /\ t # Absent
      /\ \/ TurnsOld(ws, in, out)
         \/ Refuses(ws, in, a.offer, out)
         \/ Settles(ws, in, a.offer, out)
  BY <1>1, <1>2, <1>3, SettlementWrites
<1>5. /\ e \in Keys
      /\ e \in DOMAIN tx.writes => ws'[e] = tx.writes[e] /\ ws'[e] # Absent
  <2>1. e \in Keys
    BY <1>4, KeyKinds
  <2>2. e \in DOMAIN tx.writes => tx.writes[e] # Absent
    BY <1>3, <1>4, NoRecordIsAbsent DEF GoodWrites
  <2> QED BY <2>1, <2>2, CommitFacts
<1>6. CASE TurnsOld(ws, in, out)
  <2>1. tx.msg = OldMessage /\ e \in DOMAIN tx.writes
        /\ tx.writes[e] = [t EXCEPT !.status = "old"]
    BY <1>2, <1>3, <1>6 DEF TurnsOld
  <2>2. tx.writes[e].status = "old"
    BY <1>4, <2>1 DEF HouseToken
  <2>3. tx.msg \notin Refusals /\ tx.msg # "auction end"
    BY <2>1, Words DEF Last
  <2> QED BY <1>5, <2>1, <2>2, <2>3
<1>7. CASE Refuses(ws, in, a.offer, out)
  <2>1. /\ ~Expired(a.ts, t.gen)
        /\ \/ tx.msg = "energy amount is wrong"
           \/ \E i \in DOMAIN a.offer : /\ tx.msg = AwardCheck(ws, e, a.offer[i])
                                        /\ tx.msg \notin {"error", "fine"}
    BY <1>2, <1>3, <1>7 DEF Refuses
  <2>2. CASE tx.msg = "energy amount is wrong"
    BY <2>2, Words DEF Last
  <2>3. ASSUME NEW i \in DOMAIN a.offer, tx.msg = AwardCheck(ws, e, a.offer[i]),
               tx.msg \notin {"error", "fine"}
        PROVE  tx.msg \in Refusals /\ ~(ContractLife =< TokenLife)
    <3>1. tx.msg \in Refusals
      BY <2>3 DEF AwardCheck, Refusals
    <3>2. CASE a.offer[i].id = OldId
      <4>1. a.ts > a.gen + TokenLife
        BY <1>1, <3>2 DEF OfferSound
      <4>2. t.gen = a.gen
        BY <1>1, <1>4 DEF AnswerInv, AgesOK, AuctionOK
      <4>3. a.ts \in Nat /\ a.gen \in Nat /\ ContractLife \in Nat /\ TokenLife \in Nat
        BY <1>1, Numbers, ContractAssumption, ProducerAssumption DEF AuctionOK
      <4>4. ~(a.ts - ContractLife > a.gen)
        BY <2>1, <4>2 DEF Expired
      <4> HIDE DEF a
      <4> QED BY <3>1, <4>1, <4>3, <4>4
    <3>3. CASE a.offer[i].id # OldId
      <4> DEFINE v == ws[a.offer[i].id]
      <4>1. v # Absent /\ v.energy = e /\ a.offer[i].amount =< v.bidAmount
        BY <1>1, <3>3 DEF OfferSound
      <4>2. v \in HouseBid /\ a.offer[i].amount \in Nat
        BY <1>1, <1>3, <3>3, <4>1, AwardFacts DEF AuctionOK, World
      <4>3. v.bidAmount \in Nat
        BY <4>2, Numbers DEF HouseBid
      <4> HIDE DEF a, e
      <4>4. ~(a.offer[i].amount > v.bidAmount)
        BY <4>1, <4>2, <4>3
      <4>5. AwardCheck(ws, e, a.offer[i]) = "fine"
        BY <3>3, <4>1, <4>4 DEF AwardCheck, EnergyExists
      <4> QED BY <2>3, <4>5
    <3> QED BY <3>2, <3>3
  <2>4. ASSUME NEW i \in DOMAIN a.offer, tx.msg = AwardCheck(ws, e, a.offer[i]),
               tx.msg \notin {"error", "fine"}
        PROVE  tx.msg \notin Last /\ ~(ContractLife =< TokenLife)
    BY <2>3, <2>4, Words
  <2> QED BY <2>1, <2>2, <2>4 DEF Last
<1>8. CASE Settles(ws, in, a.offer, out)
  <2>1. /\ tx.msg = IF t.amount = t.sold + in.amount THEN "auction end" ELSE "auction continue"
        /\ tx.writes = Settle(ws, e, in.amount, a.offer)
    BY <1>2, <1>3, <1>8 DEF Settles
  <2>2. e \in DOMAIN tx.writes /\ tx.writes[e] = AfterSale(t, in.amount)
    BY <2>1 DEF Settle
  <2>3. tx.msg = "auction end" => tx.writes[e].status = "sold"
    <3>1. tx.msg = "auction end" => t.amount = t.sold + in.amount
      BY <2>1
    <3>2. t.amount = t.sold + in.amount => AfterSale(t, in.amount).status = "sold"
      BY <1>4 DEF AfterSale, HouseToken
    <3> QED BY <2>2, <3>1, <3>2
  <2>4. tx.msg # OldMessage /\ tx.msg \notin Refusals
    BY <2>1, Words DEF Last
  <2> QED BY <1>5, <2>2, <2>3, <2>4
<1> QED BY <1>4, <1>6, <1>7, <1>8

LEMMA AnswersStay ==
  ASSUME AnswerInv, NEW tx \in pool, Commit(tx), UNCHANGED auction, NEW m \in Makers
  PROVE  AnswerOK(m)'
<1> DEFINE a == auction[m]
<1>1. AnswerOK(m) /\ AuctionOK(a, m) /\ m \in Clients
  BY NothingPending, ProducerAssumption DEF AnswerInv
<1>2. Quiet(m) => Quiet(m)'
  <2>1. \A next \in pool' : \E other \in pool :
          next.client = other.client /\ (Effective(next) => Effective(other))
    BY CommitFacts
  <2> QED BY <2>1 DEF Quiet, Effective
<1>3. CASE a.pc = "done" /\ a.last \in Last
  <2>1. Quiet(m) /\ a.id \in TokenIds[m] /\ Says(a.last, a.id)
    BY <1>1, <1>3 DEF AnswerOK
  <2>2. ws[a.id] # Absent
    BY <1>3, <2>1 DEF Says, Last
  <2>3. ws'[a.id] = ws[a.id]
    BY <2>1, <2>2, QuietToken
  <2> QED BY <1>1, <1>2, <1>3, <2>1, <2>3 DEF AnswerOK, Says
<1>4. CASE a.pc = "done" /\ a.last \notin Last
  BY <1>1, <1>4 DEF AnswerOK, Says, Last
<1>5. CASE a.pc = "submitted" /\ reply'[m].kind = "ok"
  <2>1. CASE reply'[m] = reply[m]
    <3>1. Quiet(m) /\ a.id \in TokenIds[m] /\ Says(reply[m].msg, a.id)
      BY <1>1, <1>5, <2>1, NothingPending DEF AnswerOK, AuctionOK, Quiet, AnswerInv
    <3>2. CASE reply[m].msg \in Last
      <4>1. ws[a.id] # Absent
        BY <3>1, <3>2 DEF Says, Last
      <4>2. ws'[a.id] = ws[a.id]
        BY <3>1, <4>1, QuietToken
      <4> QED BY <1>1, <1>5, <2>1, <3>1, <4>2 DEF AnswerOK, Says
    <3>3. CASE reply[m].msg \notin Last
      BY <1>1, <1>5, <2>1, <3>3 DEF AnswerOK, Says, Last
    <3> QED BY <3>2, <3>3
  <2>2. CASE /\ tx.awaited /\ tx.client = m
             /\ reply'[m].kind = "ok" /\ reply'[m].msg = tx.msg
    <3>1. /\ tx.msg = "auction end" => ws'[a.id] # Absent /\ ws'[a.id].status = "sold"
          /\ tx.msg = OldMessage => ws'[a.id] # Absent /\ ws'[a.id].status = "old"
          /\ ContractLife =< TokenLife => tx.msg \notin Refusals
      BY <1>5, <2>2, FreshAnswer
    <3> QED BY <1>1, <1>5, <2>2, <3>1 DEF AnswerOK, Says
  <2> QED BY <1>1, <2>1, <2>2, CommitFacts
<1>6. CASE a.pc # "done" /\ ~(a.pc = "submitted" /\ reply'[m].kind = "ok")
  BY <1>1, <1>6 DEF AnswerOK
<1> QED BY <1>3, <1>4, <1>5, <1>6

\* A bid that is on the ledger stays there.
LEMMA BidStays ==
  ASSUME AnswerInv, NEW tx \in pool, Commit(tx), NEW b \in Bids, ws[b] # Absent
  PROVE  ws'[b] # Absent
<1>1. FinalInv
  BY DEF AnswerInv
<1>2. ws'[b] = ws[b] \/ ws[b] = Absent \/ ws'[b] # Absent
  BY <1>1, BidAfterCommit
<1> QED BY <1>2

\* An accepted batch is on the ledger.
LEMMA BatchIsPlaced ==
  ASSUME AnswerInv, NEW tx \in pool, Commit(tx), tx.awaited, tx.client \in Buyers
  PROVE  /\ basket[tx.client].pc = "sent" /\ tx.req = PlaceRequest(basket[tx.client])
         /\ \A b \in DOMAIN basket[tx.client].list : b \in Bids /\ ws'[b] # Absent
<1> DEFINE out == Execute(ws, tx.req)
<1>1. Fresh(tx) /\ Owned(tx) /\ Awaiting(tx)
  BY CommitFacts
<1>2. basket[tx.client].pc = "sent" /\ tx.req = PlaceRequest(basket[tx.client])
  BY <1>1 DEF Awaiting
<1>3. ~out.err /\ out.writes = tx.writes /\ GoodWrites(tx.writes) /\ World(ws) /\ tx.req \in HouseRequests
  BY <1>1 DEF Fresh, TxOK, Endorsed
<1>4. tx.req \in Placements
  BY <1>1, <1>3, HouseAssumption DEF Owned, HouseRequests
<1>5. /\ \A b \in DOMAIN tx.req.bidList : b \in Bids
      /\ DOMAIN tx.writes = DOMAIN tx.req.bidList
  <2>1. /\ \A b \in DOMAIN tx.req.bidList : b \in Bids
        /\ out.writes = [b \in DOMAIN tx.req.bidList |-> NewBid(tx.req.bidList[b])]
    BY <1>3, <1>4, PlacementWrites
  <2> HIDE DEF out
  <2> QED BY <1>3, <2>1
<1>6. ASSUME NEW b \in DOMAIN tx.req.bidList PROVE ws'[b] # Absent
  <2>1. b \in Bids /\ b \in Keys /\ b \in DOMAIN tx.writes
    BY <1>5, <1>6, KeyKinds
  <2>2. tx.writes[b] # Absent
    BY <1>3, <2>1, NoRecordIsAbsent DEF GoodWrites
  <2> QED BY <2>1, <2>2, CommitFacts
<1>7. tx.req.bidList = basket[tx.client].list
  BY <1>2 DEF PlaceRequest
<1> QED BY <1>2, <1>5, <1>6, <1>7

LEMMA CommitIsTold ==
  ASSUME AnswerInv, FinalInv', NEW tx \in pool, Commit(tx), UNCHANGED <<auction, basket>>
  PROVE  AnswerInv'
<1>1. /\ Fresh(tx) /\ Owned(tx) /\ Awaiting(tx) /\ faults' = faults /\ faults \in Nat
      /\ Buyers \subseteq Clients
  BY CommitFacts, BuyerAssumption DEF AnswerInv
<1>2. AgesOK' /\ \A m \in Makers : AnswerOK(m)'
  BY AgesStay, AnswersStay
<1>3. \A c \in Buyers : \/ reply'[c] = reply[c]
                        \/ tx.awaited /\ tx.client = c /\ reply'[c].kind = "ok"
  BY <1>1, CommitFacts
<1>4. ASSUME NEW c \in Buyers PROVE PlacedOK(c)'
  <2>1. PlacedOK(c)
    BY DEF AnswerInv
  <2>2. \A b \in basket[c].placed : b \in Bids /\ ws'[b] # Absent
    BY <2>1, BidStays DEF PlacedOK
  <2>3. Accepted(c)' => \A b \in DOMAIN basket[c].list : b \in Bids /\ ws'[b] # Absent
    <3>1. CASE reply'[c] = reply[c]
      <4>1. Accepted(c)' = Accepted(c)
        BY <3>1 DEF Accepted
      <4> QED BY <2>1, <4>1, BidStays DEF PlacedOK
    <3>2. CASE tx.awaited /\ tx.client = c
      BY <3>2, BatchIsPlaced
    <3> QED BY <1>3, <3>1, <3>2
  <2> QED BY <2>2, <2>3 DEF PlacedOK
<1>5. ASSUME NEW c \in Buyers, NEW b, Knows(c, b) PROVE Knows(c, b)'
  <2>1. Accepted(c) => Accepted(c)'
    BY <1>3 DEF Accepted
  <2> QED BY <1>5, <2>1 DEF Knows
<1>6. ASSUME faults = 0
      PROVE  /\ \A next \in pool' : next.awaited
             /\ \A b \in Bids : ws'[b] # Absent => \E c \in Buyers : Knows(c, b)'
  <2>1. /\ \A other \in pool : other.awaited
        /\ \A b \in Bids : ws[b] # Absent => \E c \in Buyers : Knows(c, b)
    BY <1>6 DEF AnswerInv, NothingForgotten
  <2>2. \A next \in pool' : next.awaited
    <3>1. \A next \in pool' : \E other \in pool : next.awaited = other.awaited
      BY CommitFacts
    <3> QED BY <2>1, <3>1
  <2>3. ASSUME NEW b \in Bids, ws'[b] # Absent, ws[b] = Absent
        PROVE  \E c \in Buyers : Knows(c, b)'
    <3>1. b \in DOMAIN tx.writes
      BY <2>3, CommitFacts, KeyKinds
    <3>2. tx.req \in Placements /\ b \in DOMAIN tx.req.bidList
      BY <1>1, <2>3, <3>1, BidWritten
    <3>3. tx.client \in Buyers /\ tx.awaited
      BY <1>1, <2>1, <3>2 DEF Owned
    <3>4. basket[tx.client].pc = "sent" /\ tx.req = PlaceRequest(basket[tx.client])
      BY <3>3, BatchIsPlaced
    <3>5. reply'[tx.client].kind = "ok"
      BY <1>1, <3>3, CommitFacts
    <3>6. b \in DOMAIN basket[tx.client].list
      BY <3>2, <3>4 DEF PlaceRequest
    <3>7. Knows(tx.client, b)'
      BY <3>4, <3>5, <3>6 DEF Knows, Accepted
    <3> QED BY <3>3, <3>7
  <2>4. ASSUME NEW b \in Bids, ws'[b] # Absent, ws[b] # Absent
        PROVE  \E c \in Buyers : Knows(c, b)'
    BY <1>5, <2>1, <2>4
  <2> QED BY <2>2, <2>3, <2>4
<1>7. NothingForgotten'
  BY <1>1, <1>6 DEF NothingForgotten
<1> QED BY <1>1, <1>2, <1>4, <1>7 DEF AnswerInv

-----------------------------------------------------------------------------
LEMMA AnswerInvInit == Init => AnswerInv
<1> SUFFICES ASSUME Init PROVE AnswerInv
  OBVIOUS
<1>1. FinalInv
  BY FinalInvInit
<1>2. faults = 0 /\ pool = {}
  BY DEF Init, GatewayInit
<1>3. \A e \in Energies \cup Bids : ws[e] = Absent
  <2> DEFINE w == InitLedger(EmptyState).writes
  <2>1. ws = Apply(EmptyState, w) /\ DOMAIN w = Categories
    BY DEF Init, GatewayInit, InitLedger, Result
  <2> HIDE DEF w
  <2> QED BY <2>1, KeyKinds DEF Apply, EmptyState
<1>4. AgesOK
  BY <1>3, ProducerAssumption DEF AgesOK
<1>5. ASSUME NEW m \in Makers PROVE AnswerOK(m)
  <2>1. auction[m].pc = "idle" /\ auction[m].last = "none"
    BY DEF Init, ProducerInit, Idle
  <2>2. "none" \notin Refusals
    BY DEF Refusals
  <2> QED BY <2>1, <2>2 DEF AnswerOK
<1>6. ASSUME NEW c \in Buyers PROVE PlacedOK(c)
  <2>1. basket[c].pc = "idle" /\ basket[c].placed = {}
    BY DEF Init, BuyerInit, EmptyBasket
  <2> QED BY <2>1 DEF PlacedOK, Accepted
<1>7. NothingForgotten
  BY <1>2, <1>3 DEF NothingForgotten
<1> QED BY <1>1, <1>2, <1>4, <1>5, <1>6, <1>7 DEF AnswerInv

LEMMA AnswerInvStep == AnswerInv /\ [Next]_vars => AnswerInv'
<1> SUFFICES ASSUME AnswerInv, [Next]_vars PROVE AnswerInv'
  OBVIOUS
<1>1. FinalInv'
  BY FinalInvStep DEF AnswerInv
<1>2. CASE UNCHANGED vars
  BY <1>1, <1>2 DEF vars, AnswerInv, AgesOK, AnswerOK, Says, Quiet, Effective, PlacedOK,
                    Accepted, NothingForgotten, Knows
<1>3. CASE Network
  BY <1>1, <1>3, CommitIsTold, NothingCommitted DEF Network, GatewayNext
<1>4. CASE Producers
  BY <1>1, <1>4, CreationIsAsked, SettlementIsAsked, MovesUntold, StopsOrOffers, IsTold, CallsAgain
     DEF Producers, ProducerNext, ProducerStep
<1>5. CASE BuyersStart \/ BuyersPlace
  BY <1>1, <1>5, BidsAreAsked, BuyerGoesOn DEF BuyersStart, BuyersPlace, BuyerStep
<1>6. CASE PriceUpdate
  BY <1>1, <1>6, PriceIsSilent
<1> QED BY <1>2, <1>3, <1>4, <1>5, <1>6 DEF Next

LEMMA AnswerInvHolds == Spec => []AnswerInv
BY AnswerInvInit, AnswerInvStep, PTL DEF Spec

\* The answer an auction has ended with stays true, whatever copies of its last
\* settlement are still under way (FinalAnswerStands; auctionEnd stops at
\* "auction end" and at the message about the age, producerAppAuction.go:218).
THEOREM LastAnswerStays == Spec => []FinalAnswerStands
<1>1. AnswerInv => FinalAnswerStands
  BY DEF AnswerInv, AnswerOK, Says, FinalAnswerStands
<1> QED BY <1>1, AnswerInvHolds, PTL

\* As long as a token does not live longer in the contract than in the producer
\* (both are 30 minutes in the code), the contract refuses no award list for its
\* age, its token or its bids (AwardListsAreAccepted; smartcontract.go:296-308).
THEOREM AwardListsStayAccepted ==
  ASSUME ContractLife =< TokenLife
  PROVE  Spec => []AwardListsAreAccepted
<1>1. AnswerInv => AwardListsAreAccepted
  BY DEF AnswerInv, AnswerOK, Refusals, AwardListsAreAccepted
<1> QED BY <1>1, AnswerInvHolds, PTL

\* The bids a buyer counts on are on the ledger, and without a failed call it
\* counts on all of its own (BuyersKnowTheirBids; bidOnEnergy returns the ids of
\* the batch it has sent last, consumerAppBuy.go:286).
THEOREM BuyersStayInformed == Spec => []BuyersKnowTheirBids
<1>1. AnswerInv => BuyersKnowTheirBids
  BY DEF AnswerInv, PlacedOK, NothingForgotten, Knows, BuyersKnowTheirBids
<1> QED BY <1>1, AnswerInvHolds, PTL

=============================================================================
