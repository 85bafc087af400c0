--------------------------- MODULE MCAuctionHouse ---------------------------
(* Instances of AuctionHouse for TLC.  A unit of time is one interval of    *)
(* the auction; the contract's window covers two of them, as 75 s cover     *)
(* parts of two intervals of 60 s.                                          *)
EXTENDS AuctionHouse

CONSTANTS solar, e1, e2, b1, b2, u1, m1, m2, c1, c2

\* One token, drawn from one or two ids, and two buyers.
OneMaker == {m1}
OneOwner == [m \in OneMaker |-> u1]
OneOutput == [m \in OneMaker |-> 2]
OneKind == [m \in OneMaker |-> solar]
OneTokenId == [m \in OneMaker |-> {e1}]
TwoTokenIds == [m \in OneMaker |-> {e1, e2}]

TwoBuyers == {c1, c2}
OneEach == [c \in TwoBuyers |-> IF c = c1 THEN <<b1>> ELSE <<b2>>]

OneBuyer == {c1}
BothBids == [c \in OneBuyer |-> <<b1, b2>>]
=============================================================================
