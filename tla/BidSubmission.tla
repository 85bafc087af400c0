---------------------------- MODULE BidSubmission ----------------------------
(***************************************************************************)
(* How a consumer's goroutine places a batch of bids: bid and bidOnEnergy  *)
(* of consumer/consumerAppBuy.go.  What to bid on is decided elsewhere.    *)
(***************************************************************************)
EXTENDS FabricGateway

CONSTANTS
  Buyers,        \* the consumers' goroutines
  BidIds,        \* BidIds[c]: the ids bid may draw for c, in this order
  MaxBidErrors   \* count > MaxBidErrors gives up (3 in the code)

ASSUME BuyerAssumption ==
  /\ Buyers \subseteq Clients
  /\ BidIds \in [Buyers -> Seq(Bids)]
  /\ \A c \in Buyers : \A i, j \in DOMAIN BidIds[c] : i # j => BidIds[c][i] # BidIds[c][j]
  /\ MaxBidErrors \in Nat

VARIABLE basket   \* basket[c]: the batch c is placing and what it has placed

\* pc is "idle" outside bid, "send" and "sent" around SubmitTransaction.
\* drawn counts the ids used so far: an id holds the time, the token, the user
\* and a random number, and is never drawn twice.  placed are the bids that
\* bidOnEnergy reported, success of Bid.
EmptyBasket == [pc |-> "idle", list |-> <<>>, tries |-> 0, drawn |-> 0, placed |-> {}]

BuyerInit == basket = [c \in Buyers |-> EmptyBasket]

Shopping(c, pc) == ~crashed /\ basket[c].pc = pc

FreshIds(c, n) == SubSeq(BidIds[c], basket[c].drawn + 1, basket[c].drawn + n)

\* bid: stamp the wanted bids with new ids and the time.  wanted is a sequence of
\* bids that lack their time.
StampBids(c, wanted) ==
  /\ Shopping(c, "idle")
  /\ basket[c].drawn + Len(wanted) <= Len(BidIds[c])
  /\ LET ids == FreshIds(c, Len(wanted))
         bid(b) == wanted[CHOOSE i \in DOMAIN ids : ids[i] = b]
         stamped(b) == [energy |-> bid(b).energy, owner |-> bid(b).owner, cat |-> bid(b).cat,
                        bidAmount |-> bid(b).bidAmount, price |-> bid(b).price,
                        prio |-> bid(b).prio, time |-> now]
     IN basket' = [basket EXCEPT ![c] =
          [@ EXCEPT !.pc = "send", !.tries = 0, !.drawn = basket[c].drawn + Len(wanted),
                    !.list = [b \in {ids[i] : i \in DOMAIN ids} |-> stamped(b)]]]
  /\ UNCHANGED crashed
  /\ UNCHANGED gatewayVars

SendBids(c) ==
  /\ Shopping(c, "send")
  /\ Submit(c, [op |-> "BidOnEnergy", bidList |-> basket[c].list])
  /\ basket' = [basket EXCEPT ![c].pc = "sent"]
  /\ UNCHANGED crashed

BidsPlaced(c) ==
  /\ Shopping(c, "sent")
  /\ reply[c].kind = "ok"
  /\ TakeReply(c)
  /\ basket' = [basket EXCEPT ![c] =
                  [@ EXCEPT !.pc = "idle", !.list = <<>>, !.tries = 0,
                            !.placed = basket[c].placed \cup DOMAIN basket[c].list]]
  /\ UNCHANGED crashed

\* Mutant: one attempt more.
BidsFailedOnceMore(c) ==
  /\ Shopping(c, "sent")
  /\ reply[c].kind = "error"
  /\ TakeReply(c)
  /\ basket' = [basket EXCEPT ![c] =
                  IF @.tries > MaxBidErrors
                  THEN [@ EXCEPT !.pc = "idle", !.list = <<>>, !.tries = 0]
                  ELSE [@ EXCEPT !.pc = "send", !.tries = basket[c].tries + 1]]
  /\ UNCHANGED crashed

\* Mutant: the attempts are not counted.
BidsFailedUncounted(c) ==
  /\ Shopping(c, "sent")
  /\ reply[c].kind = "error"
  /\ TakeReply(c)
  /\ basket' = [basket EXCEPT ![c] = [@ EXCEPT !.pc = "send"]]
  /\ UNCHANGED crashed

\* Mutant: the ids of the last attempt are returned as if it had succeeded.
BidsFailedSilently(c) ==
  /\ Shopping(c, "sent")
  /\ reply[c].kind = "error"
  /\ TakeReply(c)
  /\ basket' = [basket EXCEPT ![c] =
                  IF @.tries + 1 > MaxBidErrors
                  THEN [@ EXCEPT !.pc = "idle", !.list = <<>>, !.tries = 0,
                                 !.placed = basket[c].placed \cup DOMAIN basket[c].list]
                  ELSE [@ EXCEPT !.pc = "send", !.tries = basket[c].tries + 1]]
  /\ UNCHANGED crashed

\* The same ids are sent again; after the last attempt an empty list of ids is
\* returned, without an error.
BidsFailed(c) ==
  /\ Shopping(c, "sent")
  /\ reply[c].kind = "error"
  /\ TakeReply(c)
  /\ basket' = [basket EXCEPT ![c] =
                  IF @.tries + 1 > MaxBidErrors
                  THEN [@ EXCEPT !.pc = "idle", !.list = <<>>, !.tries = 0]
                  ELSE [@ EXCEPT !.pc = "send", !.tries = basket[c].tries + 1]]
  /\ UNCHANGED crashed

BuyerStep(c) == SendBids(c) \/ BidsPlaced(c) \/ BidsFailed(c)

-----------------------------------------------------------------------------
BuyerTypeOK ==
  \A c \in Buyers :
    /\ basket[c].pc \in {"idle", "send", "sent"}
    /\ basket[c].tries \in 0..MaxBidErrors
    /\ basket[c].drawn \in 0..Len(BidIds[c])
    /\ basket[c].placed \subseteq Bids

=============================================================================
