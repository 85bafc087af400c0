---------------------------- MODULE EnergyMarket ----------------------------
(***************************************************************************)
(* The whole simulation: AuctionHouse with its buyers choosing their bids  *)
(* as consumers do.                                                        *)
(***************************************************************************)
EXTENDS AuctionHouse, Consumer

\* The open choice of bids in AuctionHouse is as wide as what consumers choose from.
ASSUME MarketAssumption ==
  /\ IsFiniteSet(Energies) /\ Cardinality(Energies) <= MaxBatch
  /\ \A c \in Buyers : \A e \in Energies : Surcharge[c][e] \in Extras
  /\ \A c \in Buyers : \A x \in Charged0[c] : \A y \in x..(Goal[c] - 1) : Full[c] - y \in Prios

marketVars == <<vars, charging>>

MarketInit == Init /\ ConsumerInit

Consumers == (\E c \in Buyers : Begin(c) \/ ConsumerStep(c) \/ AskFails(c)) /\ UNCHANGED auction
PlacingBids == BuyersPlace /\ UNCHANGED charging
House == (Network \/ Producers \/ PriceUpdate) /\ UNCHANGED charging

MarketNext == House \/ PlacingBids \/ Consumers

MarketSpec == MarketInit /\ [][MarketNext]_marketVars

\* As FairSpec, and with the goroutines of the consumers.
FairMarketSpec ==
  /\ MarketSpec
  /\ WF_marketVars(ClockTick /\ UNCHANGED <<crashed, auction, basket, charging>>)
  /\ WF_marketVars(Deliver /\ UNCHANGED <<auction, basket, charging>>)
  /\ \A m \in Makers : WF_marketVars(ProducerStep(m) /\ UNCHANGED <<basket, charging>>)
  /\ \A c \in Buyers :
       /\ WF_marketVars(BuyerStep(c) /\ UNCHANGED <<auction, charging>>)
       /\ WF_marketVars((Begin(c) \/ ConsumerStep(c)) /\ UNCHANGED auction)

-----------------------------------------------------------------------------
\* What the bids it knows of have been awarded.
AwardedTo(c) ==
  MapThenSumSet(LAMBDA b : ws[b].amount,
                {b \in basket[c].placed : ws[b] # Absent /\ ws[b].status = "success"})

\* A consumer never counts more energy than its battery is to hold: what a round
\* asks for over all its batches (consumerAppBuy.go:114-144), what the contract
\* lets a bid be awarded and what the rounds before brought fit together, even
\* when answers are lost.
NeverOvercharged ==
  \A c \in Buyers : charging[c].charged + charging[c].got <= Goal[c]

\* What a consumer has charged is energy that bids it knows of were awarded, each
\* counted once (consumerAppBuyResult.go:60-73 reads a bid again after its award).
ChargedIsAwarded ==
  \A c \in Buyers : charging[c].charged + charging[c].got - charging[c].start <= AwardedTo(c)

\* The simulation returns from wg.Wait of simulation.go: every goroutine ends,
\* or the process dies.  Every loop of them is left when the simulated time is
\* over, but the one that sends bids, which gives up by its count.
SimulationEnds ==
  <>(\/ crashed
     \/ /\ \A m \in Makers : auction[m].pc \in {"idle", "done"}
        /\ \A c \in Buyers : charging[c].pc = "done")

\* The open choice of bids in AuctionHouse covers what consumers do: what the
\* runs of AuctionHouse show holds of the simulation.
ImplementsHouse == Spec

=============================================================================
