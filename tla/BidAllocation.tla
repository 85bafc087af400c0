---------------------------- MODULE BidAllocation ----------------------------
(***************************************************************************)
(* How a producer turns the bids of one tick into awards: the three stable *)
(* sorts of auctionEndQuery and the loop of auctionEnd, in                 *)
(* producer/producerAppAuction.go.  Pure definitions.                      *)
(***************************************************************************)
EXTENDS Integers, Sequences, FiniteSets

\* The order the sorts leave behind: price from high to low, then priority
\* from high to low, then time from early to late.
Precedes(a, b) ==
  \/ a.price > b.price
  \/ a.price = b.price /\ a.prio > b.prio
  \/ a.price = b.price /\ a.prio = b.prio /\ a.time < b.time

\* The sorted lists of the ids S with bids bid[b]: ties stay in the order the
\* state database returned them, which is any.
Rankings(S, bid) ==
  {q \in [1..Cardinality(S) -> S] :
     /\ \A i, j \in DOMAIN q : i < j => q[i] # q[j] /\ ~Precedes(bid[q[j]], bid[q[i]])}

\* What the first n bids of a list ask for.
Asked(q, bid) ==
  LET sum[n \in 0..Len(q)] == IF n = 0 THEN 0 ELSE sum[n - 1] + bid[q[n]].bidAmount
  IN  sum

\* The loop stops at the first bid that asks for all that is left.
Served(q, bid, amount) ==
  {n \in 1..Len(q) : Asked(q, bid)[n - 1] < amount}

MinOf(a, b) == IF a < b THEN a ELSE b

\* bidInput of auctionEnd.
Allocate(q, bid, amount) ==
  [n \in 1..Cardinality(Served(q, bid, amount)) |->
     [id |-> q[n], amount |-> MinOf(bid[q[n]].bidAmount, amount - Asked(q, bid)[n - 1])]]

\* isSold of auctionEnd: some bid asked for all that was left.
TakesAll(q, bid, amount) == Len(q) > 0 /\ Asked(q, bid)[Len(q)] >= amount

\* soldAmount of auctionEnd.
Allocated(q, bid, amount) == MinOf(Asked(q, bid)[Len(q)], amount)

=============================================================================
