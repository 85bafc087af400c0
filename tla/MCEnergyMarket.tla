--------------------------- MODULE MCEnergyMarket ---------------------------
(* Instances of EnergyMarket for TLC.  A unit of time is one interval.      *)
EXTENDS EnergyMarket

CONSTANTS solar, e1, e2, b1, b2, b3, u1, m1, m2, c1

OneMaker == {m1}
OneOwner == [m \in OneMaker |-> u1]
OneOutput == [m \in OneMaker |-> 2]
OneKind == [m \in OneMaker |-> solar]
OneTokenId == [m \in OneMaker |-> {e1}]

\* Two tokens: a small one, which covers a small request alone, and a larger one.
TwoMakers == {m1, m2}
TwoOwner == [m \in TwoMakers |-> u1]
SmallAndLarge == [m \in TwoMakers |-> IF m = m1 THEN 1 ELSE 4]
TwoKind == [m \in TwoMakers |-> solar]
EachTokenId == [m \in TwoMakers |-> IF m = m1 THEN {e1} ELSE {e2}]

OneBuyer == {c1}
ThreeBids == [c \in OneBuyer |-> <<b1, b2, b3>>]

OneName == [c \in OneBuyer |-> u1]
Near == [c \in OneBuyer |-> [e \in Energies |-> IF e = e1 THEN 0 ELSE 1]]
Battery == [c \in OneBuyer |-> 4]
Target == [c \in OneBuyer |-> 4]
AtStart == [c \in OneBuyer |-> {1}]
High == [c \in OneBuyer |-> 5]
FarOrNear == [c \in OneBuyer |-> {1, 4}]

\* Bound of a run with two tokens: the clock waits for producers that are busy.
\* Consumers, the network and transactions nobody waits for are as late as they like.
ProducersKeepPace ==
  now' # now =>
    \A m \in Makers :
      \/ auction[m].pc \in {"idle", "done"}
      \/ auction[m].pc = "wait" /\ auction[m].due > now

PacedSpec == MarketInit /\ [][MarketNext /\ ProducersKeepPace]_marketVars

=============================================================================
