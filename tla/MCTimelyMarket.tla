--------------------------- MODULE MCTimelyMarket ---------------------------
(* Instance of TimelyMarket for TLC.  A unit of time is 7.5 s.             *)
EXTENDS TimelyMarket

CONSTANTS solar, e1, e2, b1, b2, b3, u1, m1, m2, c1

TwoMakers == {m1, m2}
TwoOwner == [m \in TwoMakers |-> u1]
TwoOutput == [m \in TwoMakers |-> 2]
TwoKind == [m \in TwoMakers |-> solar]
EachTokenId == [m \in TwoMakers |-> IF m = m1 THEN {e1} ELSE {e2}]

OneBuyer == {c1}
ThreeBids == [c \in OneBuyer |-> <<b1, b2, b3>>]

OneName == [c \in OneBuyer |-> u1]
Near == [c \in OneBuyer |-> [e \in Energies |-> IF e = e1 THEN 0 ELSE 1]]
Battery == [c \in OneBuyer |-> 4]
Target == [c \in OneBuyer |-> 4]
AtStarts == [c \in OneBuyer |-> {1, 2}]
=============================================================================
