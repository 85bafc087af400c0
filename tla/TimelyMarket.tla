---------------------------- MODULE TimelyMarket ----------------------------
(***************************************************************************)
(* EnergyMarket when calls and timers are punctual.  The code relies on    *)
(* it: a tick looks back 75 s while ticks are 60 s apart                   *)
(* (smartcontract.go:425), and a consumer reads its results once, 90 s     *)
(* after its last bid (consumerApp.go:202).                                *)
(*                                                                         *)
(* Every activity of a goroutine, from the timer that wakes it to the      *)
(* answer of its last call, takes at most Latency.  The clock does not     *)
(* pass over one that has used it up.                                      *)
(***************************************************************************)
EXTENDS EnergyMarket

CONSTANT Latency

ASSUME TimelyAssumption == Latency \in Nat

VARIABLES
  age,     \* age[g]: how long goroutine g has been at its activity
  listed   \* history: the bids some tick of an auction has listed

timelyVars == <<marketVars, age, listed>>

\* What a goroutine is busy with, or "asleep" when only a timer will wake it.
MakerActivity(m) ==
  LET a == auction[m] IN
  CASE a.pc \in {"idle", "done"} -> "asleep"
    [] a.pc \in {"create", "creating"} -> "create"
    [] a.pc = "wait" -> IF a.due <= now THEN "auctionEnd" ELSE "asleep"
    [] OTHER -> "auctionEnd"

BuyerActivity(c) ==
  LET s == charging[c] IN
  CASE s.pc \in {"idle", "done"} -> "asleep"
    [] s.pc = "placing" -> "bid"
    [] s.pc = "rest" -> IF s.wake <= now THEN "choose" ELSE "asleep"
    [] s.pc = "check" -> IF s.wake <= now THEN "result" ELSE "asleep"
    [] OTHER -> "choose"

Activity == [g \in Makers \cup Buyers |->
               IF g \in Makers THEN MakerActivity(g) ELSE BuyerActivity(g)]

Lists(m) == auction[m].pc = "query" /\ auction'[m].pc # "query"

Grow ==
  LET passed == now' - now IN
  /\ passed = 1 => \A g \in DOMAIN Activity : Activity[g] # "asleep" => age[g] < Latency
  /\ age' = [g \in DOMAIN Activity |->
               IF Activity'[g] = Activity[g] /\ Activity[g] # "asleep" THEN age[g] + passed
               ELSE 0]
  /\ listed' = listed \cup
       UNION {AuctionEndQuery(ws, auction[m].id, auction[m].ts) : m \in {n \in Makers : Lists(n)}}

TimelyInit ==
  /\ MarketInit
  /\ age = [g \in Makers \cup Buyers |-> 0]
  /\ listed = {}

TimelySpec == TimelyInit /\ [][MarketNext /\ Grow]_timelyVars

-----------------------------------------------------------------------------
\* While an auction goes on, every bid on its token is listed by a tick within an
\* interval and the latencies of its own call and of that tick, also when it was
\* under way during the tick before: the windows overlap by as much as that.
NoBidIsMissed ==
  \A m \in Makers : \A b \in Bids :
    /\ auction[m].pc # "done"
    /\ ws[b] # Absent /\ ws[b].energy = auction[m].id
    /\ now > ws[b].time + Interval + 2 * Latency
    => b \in listed

\* Everything a consumer is awarded is counted: no bid wins after BidResult has
\* read it as not won.
EveryAwardCounts ==
  \A c \in Buyers :
    LET s    == charging[c]
        read == basket[c].placed \ (s.success \cup s.batch)
    IN  s.charged - s.start = MapThenSumSet(LAMBDA b : ws[b].amount, read)

=============================================================================
