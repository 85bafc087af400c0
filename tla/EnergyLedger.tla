---------------------------- MODULE EnergyLedger ----------------------------
(***************************************************************************)
(* The ledger the contract keeps when transactions are executed one after  *)
(* another: the abstract specification of the market's state.  A client    *)
(* calls at any time and in any order with any amounts, prices and times,  *)
(* negative ones too, because no function checks a sign; what holds here   *)
(* is what the contract itself enforces, whatever the applications do.     *)
(*                                                                         *)
(* Two limits.  An id names a record of the kind the function is for: the  *)
(* functions do not check DocType, so AuctionEnd would also rewrite a bid, *)
(* but every application passes an id it has drawn or read for that kind.  *)
(* And the administrative functions ChangeToken and DeleteAsset, which no  *)
(* application calls, are not among the calls.                             *)
(***************************************************************************)
EXTENDS EnergyContract

CONSTANTS
  Times,      \* timestamps a client gives
  Amounts,    \* amounts a client gives
  Prices,     \* prices a client gives
  Batches,    \* bid batches a client sends
  AwardLists  \* award lists a client sends

\* What float64 and int64 arguments can be and leave on the ledger.
AnyCost == [cat : Categories, price : Int]
AnyToken == [producer : Users, cat : Categories, amount : Int, sold : Int,
             status : {"generated", "sold", "old"}, gen : Int, price : Int]
AnyBidInput == [energy : Energies, owner : Users, cat : Categories,
                bidAmount : Int, price : Int, prio : Int, time : Int]
AnyBid == [energy : Energies, owner : Users, cat : Categories,
           bidAmount : Int, price : Int, prio : Int, time : Int, amount : Int,
           producer : Users \cup {NoProducer}, status : {"bid", "success"}]
AnyAward == [id : Bids \cup {OldId}, amount : Int]

ASSUME LedgerAssumption ==
  /\ Times \cup Amounts \cup Prices \subseteq Int
  /\ \A batch \in Batches : /\ DOMAIN batch \in (SUBSET Bids) \ {{}}
                            /\ \A b \in DOMAIN batch : batch[b] \in AnyBidInput
  /\ AwardLists \subseteq Seq(AnyAward)
  /\ Absent \notin AnyCost \cup AnyToken \cup AnyBid

VARIABLES
  ws,       \* the world state
  returned  \* history: tokens a settlement with a negative amount took energy back from

ledgerVars == <<ws, returned>>

\* Empty, or as InitLedger leaves it.
Init ==
  /\ ws \in {EmptyState, Apply(EmptyState, InitLedger(EmptyState).writes)}
  /\ returned = {}

\* A transaction that committed; one that failed leaves the ledger alone.
Invoke(outcome) == ws' = Apply(ws, outcome.writes)

InvokeInitLedger == Invoke(InitLedger(ws)) /\ UNCHANGED returned

InvokeUpdateUnitPrice ==
  /\ \E cat \in Categories, p \in Prices : Invoke(UpdateUnitPrice(ws, cat, p))
  /\ UNCHANGED returned

InvokeCreateEnergyToken ==
  /\ \E e \in Energies, u \in Users, amount \in Amounts, cat \in Categories, time \in Times :
       Invoke(CreateEnergyToken(ws, e, u, amount, cat, time))
  /\ UNCHANGED returned

InvokeBidOnEnergy ==
  /\ \E bidList \in Batches : Invoke(BidOnEnergy(ws, bidList))
  /\ UNCHANGED returned

\* AuctionEnd has added the amount to what is sold, and taken energy back if it is negative.
TakesBack(outcome, amount) ==
  outcome.msg \in {"auction end", "auction continue"} /\ amount < 0

InvokeAuctionEnd ==
  \E e \in Energies, amount \in Amounts \cup {0}, time \in Times, bidInput \in AwardLists :
    LET outcome == AuctionEnd(ws, [id |-> e, amount |-> amount, time |-> time], bidInput) IN
    /\ Invoke(outcome)
    /\ returned' = returned \cup {r \in {e} : TakesBack(outcome, amount)}

Next ==
  \/ InvokeInitLedger
  \/ InvokeUpdateUnitPrice
  \/ InvokeCreateEnergyToken
  \/ InvokeBidOnEnergy
  \/ InvokeAuctionEnd

Spec == Init /\ [][Next]_ledgerVars

-----------------------------------------------------------------------------
\* Every key holds a record of its own kind or nothing.
TypeOK ==
  /\ DOMAIN ws = Keys
  /\ \A c \in Categories : ws[c] \in AnyCost \cup {Absent}
  /\ \A e \in Energies : ws[e] \in AnyToken \cup {Absent}
  /\ \A b \in Bids : ws[b] \in AnyBid \cup {Absent}
  /\ returned \subseteq Energies

\* However often a token is settled, with whatever amounts, negative ones too, and in
\* whatever order with bids and price changes, no more energy is sold than was
\* generated: a token that has sold anything has sold at most its amount (the amount
\* check of AuctionEnd, smartcontract.go:284).  A token that was created with a
\* negative amount, which CreateEnergyToken does not refuse, sells nothing.
NeverOversold ==
  \A e \in Energies : ws[e] # Absent /\ ws[e].sold > 0 => ws[e].sold <= ws[e].amount

\* The status a consumer searches by agrees with the amounts (smartcontract.go:287-293):
\* as long as a token with energy is neither sold nor old it has some left to sell, by
\* whatever calls; and one that is marked "sold" has none left, unless a settlement
\* with a negative amount took energy back, which leaves the mark.
SoldIsExhausted ==
  \A e \in Energies : ws[e] # Absent =>
    /\ ws[e].status = "sold" /\ e \notin returned => ws[e].sold = ws[e].amount
    /\ ws[e].status = "generated" /\ ws[e].amount > 0 => ws[e].sold < ws[e].amount

\* A winner never gets more than it asked for and its bid names the producer of
\* the token it bid on; a bid that has not won carries no energy
\* (smartcontract.go:228-230 and 303-311).
AwardWithinBid ==
  \A b \in Bids : ws[b] # Absent =>
    /\ ws[ws[b].energy] # Absent
    /\ IF ws[b].status = "success"
       THEN /\ ws[b].amount <= ws[b].bidAmount
            /\ ws[b].producer = ws[ws[b].energy].producer
       ELSE ws[b].amount = 0

\* What a token or a bid that exists keeps through every step, and what a token
\* keeps unless energy is taken back.
TokenKept(t, u) ==
  t # Absent =>
    /\ u # Absent
    /\ t.status # "generated" => u.status # "generated"
    /\ u.amount = t.amount /\ u.gen = t.gen /\ u.price = t.price
    /\ u.producer = t.producer

SalesKept(t, u) == t # Absent => t.sold <= u.sold

BidKept(v, w) ==
  v # Absent =>
    /\ w # Absent
    /\ v.status = "success" => w.status = "success"
    /\ w.energy = v.energy /\ w.owner = v.owner /\ w.bidAmount = v.bidAmount
    /\ w.price = v.price /\ w.time = v.time

\* No call, whatever its amounts, reissues or rewrites what was generated or asked
\* for: an id that is taken stays taken, with its amount, owner, price and time (the
\* exists checks of CreateEnergyToken and BidOnEnergy, smartcontract.go:133 and 224,
\* and the read-modify-write of AuctionEnd).  What is no longer for sale is never for
\* sale again, even when energy is taken back; and only settlements with a negative
\* amount take energy back (line 287).
NothingIsRewritten ==
  [][/\ \A e \in Energies : TokenKept(ws[e], ws'[e])
     /\ \A e \in Energies \ returned' : SalesKept(ws[e], ws'[e])
     /\ \A b \in Bids : BidKept(ws[b], ws'[b])]_ledgerVars

=============================================================================
