--------------------------- MODULE AuctionEndLoop ---------------------------
(***************************************************************************)
(* auctionEndQuery and auctionEnd of producer/producerAppAuction.go step   *)
(* by step: three stable sorts of the list the query returned, then a loop *)
(* that hands out the energy bid by bid.  BidAllocation says in one        *)
(* formula what these steps compute, and the auctions use that formula.    *)
(***************************************************************************)
EXTENDS BidAllocation

CONSTANTS
  MaxBids,    \* bound on the length of the list
  Offers,     \* bids the list may hold
  Outputs     \* amounts of energy to hand out

ASSUME LoopAssumption ==
  /\ MaxBids \in Nat
  /\ \A o \in Offers : o.bidAmount \in Nat \ {0} /\ {o.price, o.prio, o.time} \subseteq Nat
  /\ Outputs \subseteq Nat \ {0}

VARIABLES
  bid,        \* the query's list: bid[i] is its i-th bid
  list,       \* bidList: indices into bid, in the order of the list
  stage,         \* the next sort, "loop" or "done"
  output,     \* energy.Amount when auctionEnd is called
  left,       \* energy.Amount of its copy
  soldAmount, bidInput, isSold

loopVars == <<bid, list, stage, output, left, soldAmount, bidInput, isSold>>

LoopInit ==
  /\ bid \in UNION {[1..n -> Offers] : n \in 1..MaxBids}
  /\ list = [i \in DOMAIN bid |-> i]
  /\ stage = "time"
  /\ output \in Outputs
  /\ left = output
  /\ soldAmount = 0
  /\ bidInput = <<>>
  /\ isSold = FALSE

\* sort.SliceStable with a less that compares keys: elements of the same key keep
\* their order.
StableSort(s, key) ==
  LET before(i, j) == key[s[i]] < key[s[j]] \/ (key[s[i]] = key[s[j]] /\ i < j)
      place(i)     == Cardinality({j \in DOMAIN s : before(j, i)}) + 1
  IN  [n \in DOMAIN s |-> s[CHOOSE i \in DOMAIN s : place(i) = n]]

Sort(from, to, key) ==
  /\ stage = from
  /\ list' = StableSort(list, key)
  /\ stage' = to
  /\ UNCHANGED <<bid, output, left, soldAmount, bidInput, isSold>>

SortByTime == Sort("time", "priority", [i \in DOMAIN bid |-> bid[i].time])

\* From high to low.
SortByPriority == Sort("priority", "price", [i \in DOMAIN bid |-> -bid[i].prio])

\* Mutant: cheapest first.
SortByLowPrice == Sort("price", "loop", [i \in DOMAIN bid |-> bid[i].price])

SortByPrice == Sort("price", "loop", [i \in DOMAIN bid |-> -bid[i].price])

Current == list[Len(bidInput) + 1]

Award(amount) ==
  /\ bidInput' = Append(bidInput, [id |-> Current, amount |-> amount])
  /\ soldAmount' = soldAmount + amount
  /\ left' = left - amount
  /\ UNCHANGED <<bid, list, output>>

InLoop == stage = "loop" /\ Len(bidInput) < Len(list)

\* Mutant: the comparison is not strict.
TakeWholeOrAll ==
  /\ InLoop
  /\ bid[Current].bidAmount <= left
  /\ Award(bid[Current].bidAmount)
  /\ UNCHANGED <<stage, isSold>>

TakeWhole ==
  /\ InLoop
  /\ bid[Current].bidAmount < left
  /\ Award(bid[Current].bidAmount)
  /\ UNCHANGED <<stage, isSold>>

TakeRest ==
  /\ InLoop
  /\ bid[Current].bidAmount >= left
  /\ Award(left)
  /\ isSold' = TRUE
  /\ stage' = "done"

LoopEnds ==
  /\ stage = "loop" /\ Len(bidInput) = Len(list)
  /\ stage' = "done"
  /\ UNCHANGED <<bid, list, output, left, soldAmount, bidInput, isSold>>

LoopNext ==
  \/ SortByTime
  \/ SortByPriority
  \/ SortByPrice
  \/ TakeWhole
  \/ TakeRest
  \/ LoopEnds

LoopSpec == LoopInit /\ [][LoopNext]_loopVars

-----------------------------------------------------------------------------
\* Three sorts by one key each rank by price first, priority second and time
\* third, and bids that tie in all three keep the order of the query.
SortsRankBids ==
  stage \in {"loop", "done"} =>
    /\ list \in Rankings(DOMAIN bid, bid)
    /\ \A i, j \in DOMAIN list :
         i < j /\ ~Precedes(bid[list[i]], bid[list[j]]) => list[i] < list[j]

\* Sorting and the loop together compute what BidAllocation says: the awards,
\* their sum and whether the token is taken whole (producerAppAuction.go:90-104,
\* 156-170).
LoopAllocates ==
  /\ SortsRankBids
  /\ stage = "done" =>
       /\ bidInput = Allocate(list, bid, output)
       /\ soldAmount = Allocated(list, bid, output)
       /\ isSold = TakesAll(list, bid, output)

AwardOf(i) ==
  IF \E n \in DOMAIN bidInput : bidInput[n].id = i
  THEN bidInput[CHOOSE n \in DOMAIN bidInput : bidInput[n].id = i].amount
  ELSE 0

\* A bid gets something only when every bid that precedes it gets all it asked
\* for, nobody gets more than it asked for, all the energy goes out when there is
\* demand for it, and none twice.
HighestBidsFirst ==
  stage = "done" =>
    /\ \A i, j \in DOMAIN bid :
         Precedes(bid[i], bid[j]) /\ AwardOf(j) > 0 => AwardOf(i) = bid[i].bidAmount
    /\ \A i \in DOMAIN bid : AwardOf(i) <= bid[i].bidAmount
    /\ \A m, n \in DOMAIN bidInput : m # n => bidInput[m].id # bidInput[n].id
    /\ left = output - soldAmount
    /\ left > 0 => \A i \in DOMAIN bid : AwardOf(i) = bid[i].bidAmount

=============================================================================
