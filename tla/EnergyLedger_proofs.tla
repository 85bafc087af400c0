------------------------ MODULE EnergyLedger_proofs -------------------------
(***************************************************************************)
(* The contract's guarantees hold for any number of tokens, bids, users    *)
(* and categories, any amounts, prices and times, negative ones too, and   *)
(* any calls of its functions.                                             *)
(*                                                                         *)
(* Every invariant is about one token, or about one bid and its token, so  *)
(* the argument is local: a transaction writes a few keys, each lemma says *)
(* what one function writes to them, and the theorem looks at a token and  *)
(* a bid at a time.                                                        *)
(***************************************************************************)
EXTENDS EnergyLedger, Sums_proofs

\* What NeverOversold and SoldIsExhausted say of the token t kept under e, when
\* energy was taken back from the tokens in back.
SoundToken(t, e, back) ==
  t # Absent =>
    /\ t.sold > 0 => t.sold <= t.amount
    /\ t.status = "sold" /\ e \notin back => t.sold = t.amount
    /\ t.status = "generated" /\ t.amount > 0 => t.sold < t.amount

\* What AwardWithinBid says of a bid v on the token t.
SoundBid(v, t) ==
  v # Absent =>
    /\ t # Absent
    /\ IF v.status = "success"
       THEN v.amount <= v.bidAmount /\ v.producer = t.producer
       ELSE v.amount = 0

\* The inductive invariant: the invariants the model checker checks are enough,
\* once types say that a bid's token is a token.
IInv ==
  /\ TypeOK
  /\ \A e \in Energies : SoundToken(ws[e], e, returned)
  /\ \A b \in Bids : ws[b] # Absent => SoundBid(ws[b], ws[ws[b].energy])

\* What the action property says of one step.
Kept ==
  /\ \A e \in Energies : TokenKept(ws[e], ws'[e])
  /\ \A e \in Energies \ returned' : SalesKept(ws[e], ws'[e])
  /\ \A b \in Bids : BidKept(ws[b], ws'[b])

LEMMA ApplyAt ==
  ASSUME NEW s, NEW w, NEW k \in Keys
  PROVE  Apply(s, w)[k] = IF k \in DOMAIN w THEN w[k] ELSE s[k]
BY DEF Apply

\* A failed or read-only transaction changes no key.
LEMMA NoWriteAt ==
  ASSUME NEW s, NEW k \in Keys
  PROVE  Apply(s, NoWrite)[k] = s[k]
BY ApplyAt DEF NoWrite

\* The three kinds of keys are kept apart.
LEMMA KeyKinds ==
  /\ Categories \subseteq Keys /\ Energies \subseteq Keys /\ Bids \subseteq Keys
  /\ \A c \in Categories : c \notin Energies /\ c \notin Bids
  /\ \A e \in Energies : e \notin Categories /\ e \notin Bids
  /\ \A b \in Bids : b \notin Categories /\ b \notin Energies
BY ContractAssumption, LedgerAssumption DEF Keys

\* What an invocation leaves behind at each key.
LEMMA InvokeAt ==
  ASSUME NEW out, Invoke(out)
  PROVE  /\ DOMAIN ws' = Keys
         /\ \A k \in Keys : ws'[k] = IF k \in DOMAIN out.writes THEN out.writes[k] ELSE ws[k]
BY ApplyAt DEF Invoke, Apply

\* A bid stays sound when its token changes nothing but status and sold amount.
LEMMA SameProducer ==
  ASSUME NEW v, NEW t, NEW u, SoundBid(v, t), t # Absent => u # Absent /\ u.producer = t.producer
  PROVE  SoundBid(v, u)
BY DEF SoundBid

\* What does not change is kept.
LEMMA SameIsKept ==
  /\ \A t \in AnyToken \cup {Absent} : TokenKept(t, t) /\ SalesKept(t, t)
  /\ \A v \in AnyBid \cup {Absent} : BidKept(v, v)
BY DEF TokenKept, SalesKept, BidKept, AnyToken

-----------------------------------------------------------------------------
\* The ledger starts without tokens and bids.
LEMMA InitIInv == Init => IInv
<1> SUFFICES ASSUME Init PROVE IInv
  OBVIOUS
<1> USE KeyKinds, ContractAssumption, LedgerAssumption
<1>1. /\ DOMAIN ws = Keys
      /\ \A k \in Energies \cup Bids : ws[k] = Absent
      /\ \A c \in Categories :
           ws[c] \in {Absent, [cat |-> c, price |-> InitPrice]}
  BY DEF Init, EmptyState, Apply, InitLedger, Result
<1>2. TypeOK
  BY <1>1 DEF TypeOK, AnyCost, Init
<1> QED BY <1>1, <1>2 DEF IInv, SoundToken, SoundBid

\* A token stays sound when more tokens have had energy taken back.
LEMMA SoundLater ==
  ASSUME NEW t, NEW e, NEW was, NEW back, SoundToken(t, e, was), was \subseteq back
  PROVE  SoundToken(t, e, back)
BY DEF SoundToken

\* A step that leaves tokens and bids alone.
LEMMA CostStep ==
  ASSUME IInv, DOMAIN ws' = Keys, returned \subseteq returned', returned' \subseteq Energies,
         \A c \in Categories : ws'[c] \in AnyCost \cup {Absent},
         \A k \in Energies \cup Bids : ws'[k] = ws[k]
  PROVE  IInv' /\ Kept
<1>1. TypeOK'
  BY DEF IInv, TypeOK
<1>2. \A b \in Bids : ws[b] # Absent => ws[b].energy \in Energies
  BY DEF IInv, TypeOK, AnyBid
<1>3. ASSUME NEW e \in Energies PROVE SoundToken(ws'[e], e, returned')
  <2>1. SoundToken(ws'[e], e, returned)
    BY DEF IInv
  <2> QED BY <2>1, SoundLater
<1>4. \A b \in Bids : ws'[b] # Absent => SoundBid(ws'[b], ws'[ws'[b].energy])
  BY <1>2 DEF IInv
<1>5. Kept
  BY SameIsKept DEF IInv, TypeOK, Kept
<1> QED BY <1>1, <1>3, <1>4, <1>5 DEF IInv

LEMMA InitLedgerStep == IInv /\ InvokeInitLedger => IInv' /\ Kept
<1> SUFFICES ASSUME IInv, InvokeInitLedger PROVE IInv' /\ Kept
  OBVIOUS
<1> USE KeyKinds, ContractAssumption, LedgerAssumption
<1>1. /\ DOMAIN ws' = Keys
      /\ \A k \in Keys : ws'[k] = IF k \in Categories
                                  THEN [cat |-> k, price |-> InitPrice]
                                  ELSE ws[k]
  <2>1. Invoke(InitLedger(ws))
    BY DEF InvokeInitLedger
  <2>2. /\ DOMAIN ws' = Keys
        /\ \A k \in Keys : ws'[k] = IF k \in DOMAIN InitLedger(ws).writes
                                    THEN InitLedger(ws).writes[k] ELSE ws[k]
    BY <2>1, InvokeAt
  <2>3. InitLedger(ws).writes
          = [c \in Categories |-> [cat |-> c, price |-> InitPrice]]
    BY DEF InitLedger, Result
  <2> QED BY <2>2, <2>3
<1>2. \A c \in Categories : ws'[c] \in AnyCost \cup {Absent}
  BY <1>1 DEF AnyCost
<1>3. returned' = returned /\ returned \subseteq Energies
  BY DEF InvokeInitLedger, IInv, TypeOK
<1>4. \A k \in Energies \cup Bids : ws'[k] = ws[k]
  BY <1>1
<1> QED BY <1>1, <1>2, <1>3, <1>4, CostStep

LEMMA UpdateUnitPriceStep == IInv /\ InvokeUpdateUnitPrice => IInv' /\ Kept
<1> SUFFICES ASSUME IInv, NEW cat \in Categories, NEW p \in Prices,
                    Invoke(UpdateUnitPrice(ws, cat, p)), UNCHANGED returned
             PROVE  IInv' /\ Kept
  BY DEF InvokeUpdateUnitPrice
<1> USE KeyKinds, LedgerAssumption
<1>1. /\ DOMAIN ws' = Keys
      /\ \A k \in Keys : \/ ws'[k] = ws[k]
                         \/ k = cat /\ ws[cat] # Absent
                            /\ ws'[k] = [ws[cat] EXCEPT !.price = p]
  <2>1. CASE ws[cat] = Absent
    BY <2>1, InvokeAt DEF UpdateUnitPrice, EnergyExists, Error, NoWrite
  <2>2. CASE ws[cat] # Absent
    <3>1. UpdateUnitPrice(ws, cat, p).writes
            = [k \in {cat} |-> [ws[cat] EXCEPT !.price = p]]
      BY <2>2 DEF UpdateUnitPrice, EnergyExists, Result
    <3>2. /\ DOMAIN ws' = Keys
          /\ \A k \in Keys : ws'[k] = IF k \in DOMAIN UpdateUnitPrice(ws, cat, p).writes
                                      THEN UpdateUnitPrice(ws, cat, p).writes[k] ELSE ws[k]
      BY InvokeAt
    <3> QED BY <2>2, <3>1, <3>2
  <2> QED BY <2>1, <2>2
<1>2. \A c \in Categories : ws'[c] \in AnyCost \cup {Absent}
  BY <1>1 DEF IInv, TypeOK, AnyCost
<1>3. returned \subseteq Energies
  BY DEF IInv, TypeOK
<1>4. \A k \in Energies \cup Bids : ws'[k] = ws[k]
  BY <1>1
<1> QED BY <1>1, <1>2, <1>3, <1>4, CostStep

LEMMA CreateEnergyTokenStep == IInv /\ InvokeCreateEnergyToken => IInv' /\ Kept
<1> SUFFICES ASSUME IInv, NEW e \in Energies, NEW u \in Users, NEW amount \in Amounts,
                    NEW cat \in Categories, NEW time \in Times,
                    Invoke(CreateEnergyToken(ws, e, u, amount, cat, time)), UNCHANGED returned
             PROVE  IInv' /\ Kept
  BY DEF InvokeCreateEnergyToken
<1> USE KeyKinds, LedgerAssumption
<1> DEFINE t == [producer |-> u, cat |-> cat, amount |-> amount,
                 sold |-> 0, status |-> "generated", gen |-> time, price |-> ws[cat].price]
<1>1. /\ DOMAIN ws' = Keys
      /\ \/ \A k \in Keys : ws'[k] = ws[k]
         \/ /\ ws[cat] # Absent /\ ws[e] = Absent
            /\ ws'[e] = t
            /\ \A k \in Keys : k # e => ws'[k] = ws[k]
  <2>1. CASE EnergyExists(ws, cat) /\ ~EnergyExists(ws, e)
    BY <2>1, InvokeAt DEF CreateEnergyToken, Generated, Result, EnergyExists
  <2>2. CASE ~(EnergyExists(ws, cat) /\ ~EnergyExists(ws, e))
    BY <2>2, InvokeAt DEF CreateEnergyToken, Error, NoWrite
  <2> QED BY <2>1, <2>2
<1>2. CASE \A k \in Keys : ws'[k] = ws[k]
  BY <1>1, <1>2, CostStep DEF IInv, TypeOK
<1>3. CASE /\ ws[cat] # Absent /\ ws[e] = Absent
           /\ ws'[e] = t
           /\ \A k \in Keys : k # e => ws'[k] = ws[k]
  <2>1. t \in AnyToken
    BY <1>3 DEF IInv, TypeOK, AnyCost, AnyToken
  <2>2. TypeOK'
    BY <1>1, <1>3, <2>1 DEF IInv, TypeOK
  <2>3. SoundToken(t, e, returned)
    BY <2>1 DEF SoundToken, AnyToken
  <2>4. \A d \in Energies : SoundToken(ws'[d], d, returned')
    BY <1>3, <2>3 DEF IInv
  <2>5. ASSUME NEW b \in Bids, ws'[b] # Absent
        PROVE  SoundBid(ws'[b], ws'[ws'[b].energy])
    <3>1. ws'[b] = ws[b] /\ ws[b].energy \in Energies
      BY <1>3, <2>5 DEF IInv, TypeOK, AnyBid
    <3>2. ws[b].energy # e
      BY <1>3, <2>5, <3>1 DEF IInv, SoundBid
    <3> QED BY <1>3, <2>5, <3>1, <3>2 DEF IInv
  <2>6. Kept
    BY <1>3, SameIsKept DEF IInv, TypeOK, Kept, TokenKept, SalesKept
  <2> QED BY <2>2, <2>4, <2>5, <2>6 DEF IInv
<1> QED BY <1>1, <1>2, <1>3


\* A new bid has won nothing.
LEMMA NewBidFields ==
  ASSUME NEW in
  PROVE  NewBid(in).energy = in.energy /\ NewBid(in).status = "bid" /\ NewBid(in).amount = 0
BY DEF NewBid

\* A batch of bids writes new bids on tokens that exist.
LEMMA BidOnEnergyStep == IInv /\ InvokeBidOnEnergy => IInv' /\ Kept
<1> SUFFICES ASSUME IInv, NEW bidList \in Batches, Invoke(BidOnEnergy(ws, bidList)),
                    UNCHANGED returned
             PROVE  IInv' /\ Kept
  BY DEF InvokeBidOnEnergy
<1> USE KeyKinds, LedgerAssumption
<1>1. DOMAIN bidList \subseteq Bids /\ \A b \in DOMAIN bidList : bidList[b] \in AnyBidInput
  OBVIOUS
<1>2. /\ DOMAIN ws' = Keys
      /\ \/ \A k \in Keys : ws'[k] = ws[k]
         \/ /\ \A b \in DOMAIN bidList : /\ ws[bidList[b].energy] # Absent
                                         /\ ws[b] = Absent
                                         /\ ws'[b] = NewBid(bidList[b])
            /\ \A k \in Keys : k \notin DOMAIN bidList => ws'[k] = ws[k]
  <2>1. CASE \E b \in DOMAIN bidList : BidRefused(ws, b, bidList[b])
    BY <2>1, InvokeAt DEF BidOnEnergy, Error, NoWrite
  <2>2. CASE ~ \E b \in DOMAIN bidList : BidRefused(ws, b, bidList[b])
    <3>1. BidOnEnergy(ws, bidList).writes = [b \in DOMAIN bidList |-> NewBid(bidList[b])]
      BY <2>2 DEF BidOnEnergy, Result
    <3>2. \A b \in DOMAIN bidList : ws[bidList[b].energy] # Absent /\ ws[b] = Absent
      BY <2>2 DEF BidRefused, EnergyExists
    <3>3. /\ DOMAIN ws' = Keys
          /\ \A k \in Keys : ws'[k] = IF k \in DOMAIN BidOnEnergy(ws, bidList).writes
                                      THEN BidOnEnergy(ws, bidList).writes[k] ELSE ws[k]
      BY InvokeAt
    <3> QED BY <1>1, <3>1, <3>2, <3>3
  <2> QED BY <2>1, <2>2
<1>3. CASE \A k \in Keys : ws'[k] = ws[k]
  BY <1>2, <1>3, CostStep DEF IInv, TypeOK
<1>4. CASE /\ \A b \in DOMAIN bidList : /\ ws[bidList[b].energy] # Absent
                                        /\ ws[b] = Absent
                                        /\ ws'[b] = NewBid(bidList[b])
           /\ \A k \in Keys : k \notin DOMAIN bidList => ws'[k] = ws[k]
  <2>1. \A b \in DOMAIN bidList : NewBid(bidList[b]) \in AnyBid
    BY <1>1 DEF NewBid, AnyBidInput, AnyBid
  <2>2. /\ \A e \in Energies : ws'[e] = ws[e]
        /\ \A c \in Categories : ws'[c] = ws[c]
    BY <1>1, <1>4
  <2>3. \A b \in Bids : ws'[b] \in AnyBid \cup {Absent}
    BY <1>1, <1>4, <2>1 DEF IInv, TypeOK
  <2>4. TypeOK'
    BY <1>2, <2>2, <2>3 DEF IInv, TypeOK
  <2>5. ASSUME NEW b \in Bids, ws'[b] # Absent
        PROVE  SoundBid(ws'[b], ws'[ws'[b].energy])
    <3>1. CASE b \in DOMAIN bidList
      <4>1. bidList[b].energy \in Energies
        BY <1>1, <3>1 DEF AnyBidInput
      <4>2. ws'[b] = NewBid(bidList[b])
        BY <1>4, <3>1
      <4>3. /\ ws'[b].energy = bidList[b].energy
            /\ ws'[b].status = "bid" /\ ws'[b].amount = 0
        BY <4>2, NewBidFields
      <4> QED BY <1>4, <2>2, <3>1, <4>1, <4>3 DEF SoundBid
    <3>2. CASE b \notin DOMAIN bidList
      <4>1. ws'[b] = ws[b] /\ ws[b].energy \in Energies
        BY <1>4, <2>5, <3>2 DEF IInv, TypeOK, AnyBid
      <4> QED BY <2>2, <2>5, <4>1 DEF IInv
    <3> QED BY <3>1, <3>2
  <2>6. Kept
    BY <1>4, <2>2, SameIsKept DEF IInv, TypeOK, Kept, BidKept
  <2> QED BY <2>2, <2>4, <2>5, <2>6 DEF IInv
<1> QED BY <1>2, <1>3, <1>4

-----------------------------------------------------------------------------
\* An awarded id gets what the last element of the list that names it says.
LEMMA AwardToSome ==
  ASSUME NEW list \in Seq(AnyAward), NEW b \in Awarded(list)
  PROVE  \E i \in DOMAIN list : list[i].id = b /\ AwardTo(list, b) = list[i].amount
<1> DEFINE S == {i \in DOMAIN list : list[i].id = b}
<1>1. DOMAIN list = 1..Len(list) /\ Len(list) \in Nat
  OBVIOUS
<1>2. S \in SUBSET Nat /\ S # {} /\ \A i \in S : i <= Len(list)
  BY <1>1 DEF Awarded
<1>3. Max(S) \in S
  <2> HIDE DEF S
  <2> QED BY <1>1, <1>2, GreatestOf
<1> QED BY <1>3 DEF AwardTo

\* AuctionEnd writes nothing, or marks an expired token old, or settles bids of
\* the token within what it has left.
LEMMA AuctionEndWrites ==
  ASSUME NEW in, NEW list
  PROVE  LET e == in.id
             w == AuctionEnd(ws, in, list).writes
         IN  \/ w = NoWrite
             \/ ws[e] # Absent /\ w = [k \in {e} |-> [ws[e] EXCEPT !.status = "old"]]
             \/ /\ ws[e] # Absent
                /\ ~(ws[e].amount < ws[e].sold + in.amount)
                /\ AwardFlaws(ws, e, list) = {}
                /\ w = Settle(ws, e, in.amount, list)
                /\ AuctionEnd(ws, in, list).msg \in {"auction end", "auction continue"}
<1> DEFINE e == in.id
<1>1. CASE ~EnergyExists(ws, e)
  BY <1>1 DEF AuctionEnd, Oversells, Error
<1>2. CASE EnergyExists(ws, e) /\ Expired(in.time, ws[e].gen)
  BY <1>2 DEF AuctionEnd, Oversells, Result, EnergyExists
<1>3. CASE /\ EnergyExists(ws, e) /\ ~Expired(in.time, ws[e].gen)
           /\ ws[e].amount < ws[e].sold + in.amount
  BY <1>3 DEF AuctionEnd, Oversells, Result
<1>4. CASE /\ EnergyExists(ws, e) /\ ~Expired(in.time, ws[e].gen)
           /\ ~(ws[e].amount < ws[e].sold + in.amount)
           /\ AwardFlaws(ws, e, list) # {}
  BY <1>4 DEF AuctionEnd, Oversells, Stopped, Result, Error
<1>5. CASE /\ EnergyExists(ws, e) /\ ~Expired(in.time, ws[e].gen)
           /\ ~(ws[e].amount < ws[e].sold + in.amount)
           /\ AwardFlaws(ws, e, list) = {}
  BY <1>5 DEF AuctionEnd, Oversells, Result, EnergyExists
<1> QED BY <1>1, <1>2, <1>3, <1>4, <1>5

\* Selling within what is left keeps a token sound, and so does taking energy back
\* from a token that is known for it.
LEMMA AfterSaleSound ==
  ASSUME NEW t \in AnyToken, NEW amount \in Int, ~(t.amount < t.sold + amount),
         NEW e, NEW was, NEW back, SoundToken(t, e, was),
         was \subseteq back, amount < 0 => e \in back
  PROVE  /\ AfterSale(t, amount) \in AnyToken
         /\ SoundToken(AfterSale(t, amount), e, back)
         /\ TokenKept(t, AfterSale(t, amount))
         /\ e \notin back => SalesKept(t, AfterSale(t, amount))
<1> DEFINE status == IF t.amount = t.sold + amount THEN "sold" ELSE t.status
           after  == [t EXCEPT !.sold = t.sold + amount, !.status = status]
<1>1. /\ t.amount \in Int /\ t.sold \in Int /\ t.sold + amount <= t.amount
      /\ t.status \in {"generated", "sold", "old"} /\ t # Absent
  BY LedgerAssumption DEF AnyToken
<1>2. /\ status \in {"generated", "sold", "old"} /\ t.sold + amount \in Int
      /\ t.status # "generated" => status # "generated"
  BY <1>1
<1>3. status = "generated" => t.sold + amount < t.amount
  BY <1>1
<1>4. status = "sold" /\ e \notin back => t.sold + amount = t.amount
  <2>1. SUFFICES ASSUME e \notin back, t.amount # t.sold + amount, t.status = "sold" PROVE FALSE
    OBVIOUS
  <2>2. t.sold = t.amount /\ ~(amount < 0)
    BY <1>1, <2>1 DEF SoundToken
  <2> QED BY <1>1, <2>1, <2>2
<1> HIDE DEF status
<1>5. after \in AnyToken
  BY <1>2 DEF AnyToken
<1>6. /\ after.sold = t.sold + amount /\ after.amount = t.amount
      /\ after.status = status /\ after.producer = t.producer
      /\ after.gen = t.gen /\ after.price = t.price
  BY DEF AnyToken
<1>7. AfterSale(t, amount) = after
  BY DEF AfterSale, status
<1>8. after # Absent /\ (e \notin back => t.sold <= t.sold + amount)
  BY <1>1, <1>5, LedgerAssumption
<1> HIDE DEF after
<1>9. SoundToken(after, e, back)
  BY <1>1, <1>3, <1>4, <1>6 DEF SoundToken
<1>10. TokenKept(t, after) /\ (e \notin back => SalesKept(t, after))
  BY <1>1, <1>2, <1>6, <1>8 DEF TokenKept, SalesKept
<1> QED BY <1>5, <1>7, <1>9, <1>10

\* An award within what the bid asks for keeps it sound.
LEMMA AfterAwardSound ==
  ASSUME NEW v \in AnyBid, NEW amount \in Int, amount <= v.bidAmount, NEW t \in AnyToken
  PROVE  /\ AfterAward(v, amount, t.producer) \in AnyBid
         /\ AfterAward(v, amount, t.producer).energy = v.energy
         /\ SoundBid(AfterAward(v, amount, t.producer), t)
         /\ BidKept(v, AfterAward(v, amount, t.producer))
<1>1. t.producer \in Users /\ t # Absent
  BY ContractAssumption, LedgerAssumption DEF AnyToken
<1>2. AfterAward(v, amount, t.producer) \in AnyBid
  BY <1>1 DEF AfterAward, AnyBid
<1>3. LET w == AfterAward(v, amount, t.producer)
      IN  /\ w.energy = v.energy /\ w.amount = amount /\ w.bidAmount = v.bidAmount
          /\ w.producer = t.producer /\ w.status = "success"
  BY DEF AfterAward, AnyBid
<1>4. BidKept(v, AfterAward(v, amount, t.producer))
  BY <1>2, ContractAssumption, LedgerAssumption DEF AfterAward, AnyBid, BidKept
<1> QED BY <1>1, <1>2, <1>3, <1>4 DEF SoundBid

\* A list without a flaw awards bids of the token, each at most what it asked.
LEMMA NoFlaws ==
  ASSUME IInv, NEW e \in Energies, NEW list \in AwardLists, AwardFlaws(ws, e, list) = {},
         NEW b \in Awarded(list)
  PROVE  /\ b \in Bids /\ ws[b] # Absent /\ ws[b].energy = e
         /\ AwardTo(list, b) \in Int /\ AwardTo(list, b) <= ws[b].bidAmount
<1>1. PICK i \in DOMAIN list : list[i].id = b /\ AwardTo(list, b) = list[i].amount
  BY AwardToSome, LedgerAssumption
<1>2. AwardCheck(ws, e, list[i]) = "fine"
  BY <1>1 DEF AwardFlaws
<1>3. list[i] \in AnyAward
  BY LedgerAssumption
<1>4. list[i].id # OldId /\ ws[b] # Absent /\ ws[b].energy = e
      /\ ~(list[i].amount > ws[b].bidAmount)
  BY <1>1, <1>2 DEF AwardCheck, EnergyExists
<1>5. b \in Bids /\ list[i].amount \in Int
  BY <1>1, <1>3, <1>4 DEF AnyAward
<1>6. ws[b].bidAmount \in Int
  BY <1>4, <1>5 DEF IInv, TypeOK, AnyBid
<1> QED BY <1>1, <1>4, <1>5, <1>6

\* A step that changes one token, but neither its producer nor its soundness, and
\* lets some of its bids win, is sound.
LEMMA TokenStep ==
  ASSUME IInv, DOMAIN ws' = Keys, NEW e \in Energies,
         ws[e] # Absent, ws'[e] \in AnyToken, SoundToken(ws'[e], e, returned'),
         TokenKept(ws[e], ws'[e]), e \notin returned' => SalesKept(ws[e], ws'[e]),
         returned \subseteq returned', returned' \subseteq Energies,
         \A b \in Bids : \/ ws'[b] = ws[b]
                        \/ /\ ws'[b] \in AnyBid /\ ws'[b].energy = e
                           /\ SoundBid(ws'[b], ws[e]) /\ BidKept(ws[b], ws'[b]),
         \A k \in Keys \ Bids : k # e => ws'[k] = ws[k]
  PROVE  IInv' /\ Kept
<1> USE KeyKinds
<1>1. /\ \A c \in Categories : ws'[c] = ws[c]
      /\ \A d \in Energies : d # e => ws'[d] = ws[d]
  OBVIOUS
<1>2. TypeOK'
  BY <1>1 DEF IInv, TypeOK
<1>3. ASSUME NEW d \in Energies PROVE SoundToken(ws'[d], d, returned')
  <2>1. CASE d = e
    BY <2>1
  <2>2. CASE d # e
    <3>1. SoundToken(ws'[d], d, returned)
      BY <1>1, <2>2 DEF IInv
    <3> QED BY <3>1, SoundLater
  <2> QED BY <2>1, <2>2
<1>4. ws'[e] # Absent /\ ws'[e].producer = ws[e].producer
  BY DEF TokenKept
<1>5. ASSUME NEW b \in Bids, ws'[b] # Absent
      PROVE  SoundBid(ws'[b], ws'[ws'[b].energy])
  <2>1. CASE ws'[b] # ws[b]
    BY <1>4, <2>1, SameProducer
  <2>2. CASE ws'[b] = ws[b]
    <3>1. /\ ws'[b] = ws[b] /\ ws[b].energy \in Energies
          /\ SoundBid(ws'[b], ws[ws[b].energy])
      BY <1>1, <1>5, <2>2 DEF IInv, TypeOK, AnyBid
    <3>2. CASE ws[b].energy = e
      BY <1>4, <3>1, <3>2, SameProducer
    <3>3. CASE ws[b].energy # e
      BY <1>1, <3>1, <3>3
    <3> QED BY <3>2, <3>3
  <2> QED BY <2>1, <2>2
<1>6. Kept
  BY <1>1, SameIsKept DEF IInv, TypeOK, Kept
<1> QED BY <1>2, <1>3, <1>5, <1>6 DEF IInv

\* A token marked old keeps its amounts; a settlement stays within the token and
\* within every bid it awards.
LEMMA AuctionEndStep == IInv /\ InvokeAuctionEnd => IInv' /\ Kept
<1> SUFFICES ASSUME IInv, NEW e \in Energies, NEW amount \in Amounts \cup {0},
                    NEW time \in Times, NEW list \in AwardLists,
                    Invoke(AuctionEnd(ws, [id |-> e, amount |-> amount, time |-> time], list)),
                    returned' = returned \cup {r \in {e} :
                      TakesBack(AuctionEnd(ws, [id |-> e, amount |-> amount, time |-> time], list), amount)}
             PROVE  IInv' /\ Kept
  BY DEF InvokeAuctionEnd
<1> DEFINE in  == [id |-> e, amount |-> amount, time |-> time]
           out == AuctionEnd(ws, in, list)
<1> USE KeyKinds, LedgerAssumption
<1>1. /\ DOMAIN ws' = Keys
      /\ \A k \in Keys : ws'[k] = IF k \in DOMAIN out.writes THEN out.writes[k] ELSE ws[k]
  BY InvokeAt
<1>0. /\ returned \subseteq returned' /\ returned' \subseteq Energies
      /\ out.msg \in {"auction end", "auction continue"} /\ amount < 0 => e \in returned'
  BY DEF TakesBack, IInv, TypeOK
<1>2. \/ out.writes = NoWrite
      \/ ws[e] # Absent /\ out.writes = [k \in {e} |-> [ws[e] EXCEPT !.status = "old"]]
      \/ /\ ws[e] # Absent
         /\ ~(ws[e].amount < ws[e].sold + amount)
         /\ AwardFlaws(ws, e, list) = {}
         /\ out.writes = Settle(ws, e, amount, list)
         /\ out.msg \in {"auction end", "auction continue"}
  <2>1. in.id = e /\ in.amount = amount
    OBVIOUS
  <2> HIDE DEF in
  <2> QED BY <2>1, AuctionEndWrites
<1> HIDE DEF out
<1>3. CASE out.writes = NoWrite
  <2>1. \A k \in Keys : ws'[k] = ws[k]
    BY <1>1, <1>3 DEF NoWrite
  <2> QED BY <1>0, <1>1, <2>1, CostStep DEF IInv, TypeOK
<1>4. CASE ws[e] # Absent /\ out.writes = [k \in {e} |-> [ws[e] EXCEPT !.status = "old"]]
  <2>1. /\ ws'[e] = [ws[e] EXCEPT !.status = "old"]
        /\ \A k \in Keys : k # e => ws'[k] = ws[k]
    BY <1>1, <1>4
  <2>2. ws[e] \in AnyToken
    BY <1>4 DEF IInv, TypeOK
  <2>3. /\ ws'[e] \in AnyToken /\ SoundToken(ws'[e], e, returned')
        /\ TokenKept(ws[e], ws'[e]) /\ SalesKept(ws[e], ws'[e])
    <3>1. ws'[e] \in AnyToken /\ SoundToken(ws[e], e, returned)
      BY <2>1, <2>2 DEF AnyToken, IInv
    <3>2. /\ ws'[e].sold = ws[e].sold /\ ws'[e].amount = ws[e].amount
          /\ ws'[e].status = "old" /\ ws'[e].producer = ws[e].producer
          /\ ws'[e].gen = ws[e].gen /\ ws'[e].price = ws[e].price
      BY <2>1, <2>2 DEF AnyToken
    <3>3. ws'[e] # Absent /\ ws[e].sold \in Int
      BY <2>2, <3>1, ContractAssumption, LedgerAssumption DEF AnyToken
    <3> QED BY <1>4, <3>1, <3>2, <3>3 DEF SoundToken, TokenKept, SalesKept
  <2>4. /\ \A b \in Bids : ws'[b] = ws[b]
        /\ \A k \in Keys \ Bids : k # e => ws'[k] = ws[k]
    BY <2>1
  <2> QED BY <1>0, <1>1, <1>4, <2>3, <2>4, TokenStep
<1>5. CASE /\ ws[e] # Absent
           /\ ~(ws[e].amount < ws[e].sold + amount)
           /\ AwardFlaws(ws, e, list) = {}
           /\ out.writes = Settle(ws, e, amount, list)
           /\ out.msg \in {"auction end", "auction continue"}
  <2>1. \A b \in Awarded(list) :
          /\ b \in Bids /\ ws[b] # Absent /\ ws[b].energy = e
          /\ AwardTo(list, b) \in Int /\ AwardTo(list, b) <= ws[b].bidAmount
    BY <1>5, NoFlaws
  <2>2. Awarded(list) \in SUBSET Bids
    BY <2>1
  <2>3. /\ ws'[e] = AfterSale(ws[e], amount)
        /\ \A b \in Awarded(list) :
             ws'[b] = AfterAward(ws[b], AwardTo(list, b), ws[e].producer)
        /\ \A k \in Keys : k # e /\ k \notin Awarded(list) => ws'[k] = ws[k]
    BY <1>1, <1>5, <2>1 DEF Settle
  <2>4. ws[e] \in AnyToken /\ SoundToken(ws[e], e, returned) /\ amount \in Int
    <3>1. ws[e] \in AnyToken /\ SoundToken(ws[e], e, returned)
      BY <1>5 DEF IInv, TypeOK
    <3>2. amount \in Int
      OBVIOUS
    <3> QED BY <3>1, <3>2
  <2>5. /\ ws'[e] \in AnyToken /\ SoundToken(ws'[e], e, returned')
        /\ TokenKept(ws[e], ws'[e]) /\ (e \notin returned' => SalesKept(ws[e], ws'[e]))
    <3>1. returned \subseteq returned' /\ (amount < 0 => e \in returned')
      BY <1>0, <1>5
    <3> DEFINE t == ws[e]
    <3>2. t \in AnyToken /\ SoundToken(t, e, returned) /\ ~(t.amount < t.sold + amount)
      BY <1>5, <2>4
    <3>3. ws'[e] = AfterSale(t, amount)
      BY <2>3
    <3> HIDE DEF t
    <3>4. amount \in Int
      BY <2>4
    <3>5. /\ AfterSale(t, amount) \in AnyToken
          /\ SoundToken(AfterSale(t, amount), e, returned')
          /\ TokenKept(t, AfterSale(t, amount))
          /\ e \notin returned' => SalesKept(t, AfterSale(t, amount))
      BY ONLY <3>1, <3>2, <3>4, AfterSaleSound
    <3> QED BY <3>3, <3>5 DEF t
  <2>6. ASSUME NEW b \in Awarded(list)
        PROVE  /\ ws'[b] \in AnyBid /\ ws'[b].energy = e
               /\ SoundBid(ws'[b], ws[e]) /\ BidKept(ws[b], ws'[b])
    <3>1. ws[b] \in AnyBid
      BY <2>1 DEF IInv, TypeOK
    <3> QED BY <2>1, <2>3, <2>4, <3>1, AfterAwardSound
  <2>7. /\ \A b \in Bids : \/ ws'[b] = ws[b]
                          \/ /\ ws'[b] \in AnyBid /\ ws'[b].energy = e
                             /\ SoundBid(ws'[b], ws[e]) /\ BidKept(ws[b], ws'[b])
        /\ \A k \in Keys \ Bids : k # e => ws'[k] = ws[k]
    BY <2>2, <2>3, <2>6
  <2> QED BY <1>0, <1>1, <1>5, <2>5, <2>7, TokenStep
<1> QED BY <1>2, <1>3, <1>4, <1>5

-----------------------------------------------------------------------------
\* Every transaction preserves the inductive invariant and keeps what there is.
LEMMA NextStep == IInv /\ Next => IInv' /\ Kept
BY InitLedgerStep, UpdateUnitPriceStep, CreateEnergyTokenStep, BidOnEnergyStep,
   AuctionEndStep DEF Next

\* The inductive invariant holds in every reachable state.
THEOREM Inductive == Spec => []IInv
<1>1. IInv /\ UNCHANGED ledgerVars => IInv'
  BY DEF IInv, TypeOK, ledgerVars
<1> QED BY InitIInv, NextStep, <1>1, PTL DEF Spec

\* The ledger only ever holds prices, tokens and bids, each at keys of its kind.
THEOREM TypeCorrect == Spec => []TypeOK
<1>1. IInv => TypeOK
  BY DEF IInv
<1> QED BY Inductive, <1>1, PTL

\* No more energy of a token is ever sold than was generated: the check of
\* AuctionEnd (smartcontract.go:284) suffices for any sequence of calls with any
\* amounts, although neither it nor CreateEnergyToken looks at a sign.
THEOREM NoOversale == Spec => []NeverOversold
<1>1. IInv => NeverOversold
  BY DEF IInv, SoundToken, NeverOversold
<1> QED BY Inductive, <1>1, PTL

\* The status of a token agrees with its amounts (smartcontract.go:287-293), but for
\* "sold" on a token whose energy a negative settlement took back.
THEOREM StatusAgrees == Spec => []SoldIsExhausted
<1>1. IInv => SoldIsExhausted
  BY DEF IInv, SoundToken, SoldIsExhausted
<1> QED BY Inductive, <1>1, PTL

\* No bid wins more than it asked for, or of another producer's token
\* (smartcontract.go:295-313).
THEOREM AwardsFit == Spec => []AwardWithinBid
<1>1. IInv => AwardWithinBid
  BY DEF IInv, SoundBid, AwardWithinBid
<1> QED BY Inductive, <1>1, PTL

\* Tokens and bids keep their identity, and what is off the market never comes back,
\* through every sequence of calls with any amounts; energy that was sold stays sold
\* unless a settlement had a negative amount.
THEOREM HistoryIsKept == Spec => NothingIsRewritten
<1>1. IInv /\ [Next]_ledgerVars => [Kept]_ledgerVars
  BY NextStep
<1> QED BY Inductive, <1>1, PTL DEF Spec, NothingIsRewritten, Kept

=============================================================================
