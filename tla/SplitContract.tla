---------------------------- MODULE SplitContract ----------------------------
(***************************************************************************)
(* The contract of the market's earlier version,                           *)
(* b4/proposal/b4-chaincode-go: a consumer bids on a token directly and    *)
(* owns what it bid on at once, until somebody outbids it; a bid on less   *)
(* than the token's amount splits the token.  A function takes the tokens  *)
(* and gives its answer with the tokens it leaves.                         *)
(***************************************************************************)
EXTENDS Integers, FiniteSets

CONSTANTS
  TokenLife,       \* tokenLife, 30 minutes: at least AuctionInterval
  AuctionInterval  \* auctionInterval, one minute

\* The tokens are a function from the ids there are.
Reply(message, amount, tokens) == [message |-> message, amount |-> amount, tokens |-> tokens]
PutToken(tokens, id, token) ==
  [i \in DOMAIN tokens \cup {id} |-> IF i = id THEN token ELSE tokens[i]]

CreateToken(tokens, id, gen, producer, amount, price, ts) ==
  IF id \in DOMAIN tokens
  THEN Reply("already exists", 0, tokens)
  ELSE Reply("created", amount,
         PutToken(tokens, id,
             [gen |-> gen, producer |-> producer, owner |-> producer, amount |-> amount,
              status |-> "generated", born |-> ts, started |-> ts, bidTime |-> 0,
              price |-> price, priority |-> -1]))

\* What keeps a bid from being looked at.  The status of the token does not.
Late(token, ts) == ts - TokenLife >= token.born \/ ts - AuctionInterval >= token.started

Outbid(token, price, priority) ==
  token.price > price \/ (token.price = price /\ token.priority > priority)

\* Mutant: the first token keeps its amount.
SplitForFree(tokens, id, newId, bought) == PutToken(tokens, newId, bought)

\* A part of the token becomes a token of its own.
Split(tokens, id, newId, bought) ==
  PutToken(PutToken(tokens, id, [tokens[id] EXCEPT !.amount = @ - bought.amount]), newId, bought)

BidOnToken(tokens, id, newOwner, price, priority, amount, ts, newId) ==
  LET token  == tokens[id]
      bought == [token EXCEPT !.owner = newOwner, !.price = price, !.priority = priority,
                              !.bidTime = ts]
  IN IF Late(token, ts) \/ Outbid(token, price, priority)
     THEN Reply("refused", 0, tokens)
     ELSE IF token.amount <= amount
     THEN Reply("successful", token.amount, PutToken(tokens, id, bought))
     ELSE IF newId \in DOMAIN tokens
     THEN Reply("already exists", 0, tokens)
     ELSE Reply("successful", amount,
            Split(tokens, id, newId, [bought EXCEPT !.amount = amount, !.status = "generated"]))

\* A token nobody bid on is old when its life is over, and goes into one auction
\* after the other before; what was bid on is sold when its auction is over.
EndAuction(tokens, id, ts) ==
  LET token  == tokens[id]
      unsold == token.owner = token.producer
      set(message, new) == Reply(message, token.amount, PutToken(tokens, id, new))
  IN IF ts - TokenLife >= token.born /\ unsold
     THEN set("old", [token EXCEPT !.status = "old"])
     ELSE IF ts - AuctionInterval >= token.started
     THEN IF unsold
          THEN set("restarted", [token EXCEPT !.started = ts])
          ELSE set("sold", [token EXCEPT !.status = "sold"])
     ELSE set("why", token)

QueryByUserAndGeneratedTime(tokens, producer, ts) ==
  {id \in DOMAIN tokens : tokens[id].producer = producer /\ tokens[id].born = ts}

\* With the range the caller asks for left out.
QueryByRange(tokens, status, owner) ==
  {id \in DOMAIN tokens : tokens[id].status = status /\ tokens[id].owner # owner}

QueryByUserAndBidTime(tokens, owner, status, from, to) ==
  {id \in DOMAIN tokens : /\ tokens[id].owner = owner
                          /\ tokens[id].status = status
                          /\ tokens[id].bidTime \in from..to}

=============================================================================
