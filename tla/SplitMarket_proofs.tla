------------------------- MODULE SplitMarket_proofs -------------------------
(* The market's earlier version, for any producers, consumers, amounts and    *)
(* goals, however many answers are lost and bids come late.  The invariant    *)
(* says what each producer has seen ended of its tokens, what each consumer   *)
(* has counted and bought in its round, and that a bid, the end of an auction *)
(* and a creation leave the tokens a ledger that keeps the amounts.           *)
EXTENDS SplitMarket, Sums_proofs, SequenceTheorems

-----------------------------------------------------------------------------
(* Sums over the tokens of a ledger.                                          *)


\* What the tokens S of a ledger T hold together.
HasAmounts(T) == IsFiniteSet(DOMAIN T) /\ \A id \in DOMAIN T : T[id].amount \in Nat
HeldOn(T) == [id \in DOMAIN T |-> T[id].amount]

LEMMA HeldSum ==
  ASSUME NEW T, HasAmounts(T), NEW S, S \subseteq DOMAIN T
  PROVE  /\ Summable(HeldOn(T), S)
         /\ AmountSum(T, S) = Total(HeldOn(T), S)
         /\ AmountSum(T, S) \in Nat
<1> DEFINE f == [id \in S |-> T[id].amount]
<1>1. Summable(HeldOn(T), S)
  BY FS_Subset DEF HasAmounts, HeldOn, Summable
<1>2. \A id \in S : HeldOn(T)[id] = f[id]
  BY DEF HeldOn
<1>3. Summable(f, S) /\ Total(HeldOn(T), S) = Total(f, S)
  <2> HIDE DEF f
  <2> QED BY <1>1, <1>2, TotalSame
<1>4. AmountSum(T, S) = Total(f, S)
  BY <1>3, AmountTotal
<1>5. Total(f, S) \in Nat
  <2> HIDE DEF f
  <2> QED BY <1>3, TotalFacts
<1> QED BY <1>1, <1>3, <1>4, <1>5

LEMMA HeldNone ==
  ASSUME NEW T, HasAmounts(T)
  PROVE  AmountSum(T, {}) = 0
BY HeldSum, TotalFacts

LEMMA HeldOne ==
  ASSUME NEW T, HasAmounts(T), NEW x \in DOMAIN T
  PROVE  AmountSum(T, {x}) = T[x].amount
<1>1. HeldOn(T)[x] = T[x].amount /\ T[x].amount \in Nat
  BY DEF HeldOn, HasAmounts
<1>2. AmountSum(T, {x}) = Total(HeldOn(T), {x})
  BY HeldSum
<1> QED BY <1>1, <1>2, TotalOfOne

\* More tokens, each with at least as much, hold at least as much.
LEMMA HeldGrows ==
  ASSUME NEW T, HasAmounts(T), NEW U, HasAmounts(U),
         NEW S, S \subseteq DOMAIN T, NEW R, R \subseteq DOMAIN U, S \subseteq R,
         \A id \in S : T[id].amount =< U[id].amount
  PROVE  AmountSum(T, S) =< AmountSum(U, R)
<1>1. Summable(HeldOn(T), S) /\ Summable(HeldOn(U), R) /\ Summable(HeldOn(U), S)
  BY HeldSum
<1>2. \A id \in S : HeldOn(T)[id] =< HeldOn(U)[id]
  BY DEF HeldOn
<1>3. Total(HeldOn(T), S) =< Total(HeldOn(U), S)
  BY <1>1, <1>2, TotalGrows
<1>4. Total(HeldOn(U), S) =< Total(HeldOn(U), R)
  BY <1>1, TotalOfPart
<1>5. /\ AmountSum(T, S) = Total(HeldOn(T), S) /\ AmountSum(U, R) = Total(HeldOn(U), R)
      /\ AmountSum(T, S) \in Nat /\ AmountSum(U, R) \in Nat
  BY HeldSum
<1>6. Total(HeldOn(U), S) \in Nat
  BY <1>1, TotalFacts
<1> QED BY <1>3, <1>4, <1>5, <1>6

LEMMA HeldSame ==
  ASSUME NEW T, HasAmounts(T), NEW U, HasAmounts(U), NEW S, S \subseteq DOMAIN T, S \subseteq DOMAIN U,
         \A id \in S : U[id].amount = T[id].amount
  PROVE  AmountSum(U, S) = AmountSum(T, S)
<1>1. \A id \in S : U[id].amount =< T[id].amount /\ T[id].amount =< U[id].amount
  BY DEF HasAmounts
<1>2. AmountSum(U, S) =< AmountSum(T, S)
  BY <1>1, HeldGrows
<1>3. AmountSum(T, S) =< AmountSum(U, S)
  BY <1>1, HeldGrows
<1>4. AmountSum(T, S) \in Nat /\ AmountSum(U, S) \in Nat
  BY HeldSum
<1> QED BY <1>2, <1>3, <1>4

LEMMA HeldJoins ==
  ASSUME NEW T, HasAmounts(T), NEW S, S \subseteq DOMAIN T, NEW R, R \subseteq DOMAIN T, R \cap S = {}
  PROVE  AmountSum(T, S \cup R) = AmountSum(T, S) + AmountSum(T, R)
<1> DEFINE V == S \cup R
<1>1. V \subseteq DOMAIN T /\ S \in SUBSET V /\ V \ S = R
  OBVIOUS
<1> HIDE DEF V
<1>2. Total(HeldOn(T), V) = Total(HeldOn(T), S) + Total(HeldOn(T), V \ S)
  BY <1>1, HeldSum, TotalSplits
<1>3. /\ AmountSum(T, V) = Total(HeldOn(T), V) /\ AmountSum(T, S) = Total(HeldOn(T), S)
      /\ AmountSum(T, R) = Total(HeldOn(T), R)
  BY <1>1, HeldSum
<1> QED BY <1>1, <1>2, <1>3 DEF V

LEMMA HeldPlus ==
  ASSUME NEW T, HasAmounts(T), NEW S, S \subseteq DOMAIN T, NEW x \in DOMAIN T, x \notin S
  PROVE  AmountSum(T, S \cup {x}) = AmountSum(T, S) + T[x].amount
<1>1. {x} \subseteq DOMAIN T /\ {x} \cap S = {}
  OBVIOUS
<1>2. AmountSum(T, S \cup {x}) = AmountSum(T, S) + AmountSum(T, {x})
  BY <1>1, HeldJoins
<1> QED BY <1>2, HeldOne

\* One more token of the ledger U than of the ledger T.
LEMMA HeldAdds ==
  ASSUME NEW T, HasAmounts(T), NEW U, HasAmounts(U),
         NEW S, S \subseteq DOMAIN T, NEW R, R \subseteq DOMAIN U, NEW x \in DOMAIN U,
         R \subseteq S \cup {x}, \A id \in R \ {x} : U[id].amount =< T[id].amount
  PROVE  AmountSum(U, R) =< AmountSum(T, S) + U[x].amount
<1> DEFINE V == R \ {x}
<1>1. V \subseteq DOMAIN U /\ V \subseteq DOMAIN T /\ V \subseteq S /\ {x} \subseteq DOMAIN U /\ V \cap {x} = {}
      /\ V \cup {x} \subseteq DOMAIN U /\ R \subseteq V \cup {x}
  OBVIOUS
<1>2. \A id \in V : U[id].amount =< T[id].amount
  OBVIOUS
<1> HIDE DEF V
<1>3. AmountSum(U, V) =< AmountSum(T, S)
  BY <1>1, <1>2, HeldGrows
<1>4. AmountSum(U, V \cup {x}) = AmountSum(U, V) + AmountSum(U, {x})
  BY <1>1, HeldJoins
<1>5. \A id \in R : U[id].amount =< U[id].amount
  BY DEF HasAmounts
<1>6. AmountSum(U, R) =< AmountSum(U, V \cup {x})
  BY <1>1, <1>5, HeldGrows
<1>7. /\ AmountSum(U, V) \in Nat /\ AmountSum(U, V \cup {x}) \in Nat /\ AmountSum(T, S) \in Nat
      /\ AmountSum(U, R) \in Nat
  BY <1>1, HeldSum
<1>8. AmountSum(U, {x}) = U[x].amount /\ U[x].amount \in Nat
  BY HeldOne DEF HasAmounts
<1> QED BY <1>3, <1>4, <1>6, <1>7, <1>8

\* A token that gives a part of what it holds to a new one.
LEMMA HeldSplits ==
  ASSUME NEW T, HasAmounts(T), NEW U, HasAmounts(U),
         NEW S, S \subseteq DOMAIN T, S \subseteq DOMAIN U, NEW x \in S, NEW y \in DOMAIN U, y \notin S,
         \A id \in S \ {x} : U[id].amount = T[id].amount,
         U[x].amount + U[y].amount = T[x].amount
  PROVE  AmountSum(U, S \cup {y}) = AmountSum(T, S)
<1> DEFINE V == S \ {x}
<1>1. /\ V \subseteq DOMAIN T /\ V \subseteq DOMAIN U /\ x \notin V /\ S = V \cup {x}
      /\ x \in DOMAIN T /\ x \in DOMAIN U
      /\ \A id \in V : U[id].amount = T[id].amount
  OBVIOUS
<1> HIDE DEF V
<1>2. AmountSum(U, V) = AmountSum(T, V)
  BY <1>1, HeldSame
<1>3. AmountSum(T, S) = AmountSum(T, V) + T[x].amount
  BY <1>1, HeldPlus
<1>4. AmountSum(U, S) = AmountSum(U, V) + U[x].amount
  BY <1>1, HeldPlus
<1>5. AmountSum(U, S \cup {y}) = AmountSum(U, S) + U[y].amount
  BY <1>1, HeldPlus
<1>6. /\ AmountSum(U, V) \in Nat /\ U[x].amount \in Nat /\ U[y].amount \in Nat /\ T[x].amount \in Nat
  BY <1>1, HeldSum DEF HasAmounts
<1> QED BY <1>2, <1>3, <1>4, <1>5, <1>6

-----------------------------------------------------------------------------
(* What a transaction does to the tokens T.                                   *)

\* An id names a token that was created, whoever bought a part of it, and so on.
IdParts == Gens \cup Nat \cup Bidders
SplitId(id) == id \in Seq(IdParts) /\ Len(id) >= 2 /\ id[2] \in Nat
RootOf(id) == SubSeq(id, 1, 2)
PartOf(id, c, n) == id \o <<c, n>>

TokenFields == {"gen", "producer", "owner", "amount", "status", "born", "started", "bidTime",
                "price", "priority"}
SplitToken(t, now) ==
  /\ DOMAIN t = TokenFields
  /\ t.gen \in Gens /\ t.producer = Makers[t.gen] /\ t.price = Price
  /\ t.amount \in Nat \ {0}
  /\ t.status \in {"generated", "sold", "old"}
  /\ t.born \in Nat /\ t.started \in Nat /\ t.bidTime \in Nat
  /\ t.started =< now

SplitLedger(T, now) ==
  /\ IsFiniteSet(DOMAIN T)
  /\ \A id \in DOMAIN T :
       SplitId(id) /\ RootOf(id) \in DOMAIN T /\ SplitToken(T[id], now) /\ id[1] = T[id].gen

\* u is what becomes of the token t when its auction is ended at ts.
SameDeal(t, u) ==
  /\ DOMAIN t = TokenFields /\ DOMAIN u = TokenFields
  /\ u.gen = t.gen /\ u.producer = t.producer /\ u.owner = t.owner
  /\ u.born = t.born /\ u.bidTime = t.bidTime /\ u.price = t.price
EndsAs(t, u, ts) ==
  /\ SameDeal(t, u) /\ u.amount = t.amount
  /\ \/ u.status = t.status /\ u.started = t.started /\ ts - AuctionInterval < t.started
     \/ /\ u.status = "old" /\ u.started = t.started
        /\ t.owner = t.producer /\ ts - TokenLife >= t.born
     \/ /\ u.status = t.status /\ u.started = ts
        /\ t.owner = t.producer /\ ts - TokenLife < t.born /\ ts - AuctionInterval >= t.started
     \/ /\ u.status = "sold" /\ u.started = t.started
        /\ t.owner # t.producer /\ ts - AuctionInterval >= t.started

\* u is what a consumer c gets of t by a bid at ts.
Takes(t, u, c, ts) ==
  /\ DOMAIN u = TokenFields
  /\ u.gen = t.gen /\ u.producer = t.producer /\ u.owner = c
  /\ u.born = t.born /\ u.started = t.started /\ u.bidTime = ts /\ u.price = Price

Others(T, U, id) == \A i \in DOMAIN T : i # id => U[i] = T[i]

Makes(T, U, id, g, born) ==
  /\ id \notin DOMAIN T /\ DOMAIN U = DOMAIN T \cup {id} /\ Others(T, U, id)
  /\ DOMAIN U[id] = TokenFields
  /\ U[id].gen = g /\ U[id].producer = Makers[g] /\ U[id].owner = Makers[g]
  /\ U[id].amount = Output[g] /\ U[id].status = "generated"
  /\ U[id].born = born /\ U[id].started = born /\ U[id].bidTime = 0 /\ U[id].price = Price

Ends(T, U, id, ts) ==
  id \in DOMAIN T /\ DOMAIN U = DOMAIN T /\ Others(T, U, id) /\ EndsAs(T[id], U[id], ts)

BuysAll(T, U, id, c, ts, n) ==
  /\ id \in DOMAIN T /\ DOMAIN U = DOMAIN T /\ Others(T, U, id)
  /\ ~Late(T[id], ts) /\ Takes(T[id], U[id], c, ts)
  /\ T[id].amount = n /\ U[id].amount = n /\ U[id].status = T[id].status

BuysPart(T, U, id, y, c, ts, n) ==
  /\ id \in DOMAIN T /\ y \notin DOMAIN T /\ DOMAIN U = DOMAIN T \cup {y} /\ Others(T, U, id)
  /\ ~Late(T[id], ts) /\ SameDeal(T[id], U[id])
  /\ U[id].status = T[id].status /\ U[id].started = T[id].started
  /\ U[id].amount = T[id].amount - n /\ n < T[id].amount
  /\ Takes(T[id], U[y], c, ts) /\ U[y].amount = n /\ U[y].status = "generated"

LEMMA PutFacts ==
  ASSUME NEW T, NEW id, NEW t, NEW U, U = PutToken(T, id, t)
  PROVE  DOMAIN U = DOMAIN T \cup {id} /\ U[id] = t /\ Others(T, U, id)
BY DEF PutToken, Others

LEMMA PutAgain ==
  ASSUME NEW T, NEW id \in DOMAIN T, NEW t, NEW U, U = PutToken(T, id, t)
  PROVE  DOMAIN U = DOMAIN T /\ U[id] = t /\ Others(T, U, id)
<1>1. DOMAIN T \cup {id} = DOMAIN T
  OBVIOUS
<1>2. DOMAIN U = DOMAIN T \cup {id}
  BY DEF PutToken
<1>3. U[id] = t /\ Others(T, U, id)
  BY DEF PutToken, Others
<1> QED BY <1>1, <1>2, <1>3

\* createToken creates a token that is not there.
LEMMA CreateMakes ==
  ASSUME NEW T, NEW id, NEW g, NEW born, NEW U,
         U = CreateToken(T, id, g, Makers[g], Output[g], Price, born).tokens
  PROVE  \/ id \in DOMAIN T /\ U = T
         \/ Makes(T, U, id, g, born)
<1> DEFINE t == [gen |-> g, producer |-> Makers[g], owner |-> Makers[g], amount |-> Output[g],
                 status |-> "generated", born |-> born, started |-> born, bidTime |-> 0,
                 price |-> Price, priority |-> -1]
<1>1. /\ DOMAIN t = TokenFields
      /\ t.gen = g /\ t.producer = Makers[g] /\ t.owner = Makers[g] /\ t.amount = Output[g]
      /\ t.status = "generated" /\ t.born = born /\ t.started = born /\ t.bidTime = 0 /\ t.price = Price
  BY DEF TokenFields
<1>2. CASE id \in DOMAIN T
  BY <1>2 DEF CreateToken, Reply
<1>3. CASE id \notin DOMAIN T
  <2>1. U = PutToken(T, id, t)
    BY <1>3 DEF CreateToken, Reply
  <2> HIDE DEF t
  <2>2. DOMAIN U = DOMAIN T \cup {id} /\ U[id] = t /\ Others(T, U, id)
    BY <2>1, PutFacts
  <2> QED BY <1>1, <1>3, <2>2 DEF Makes
<1> QED BY <1>2, <1>3

LEMMA EndAuctionEnds ==
  ASSUME NEW T, NEW id \in DOMAIN T, NEW ts \in Nat, NEW now \in Nat, SplitToken(T[id], now),
         NEW out, out = EndAuction(T, id, ts)
  PROVE  /\ Ends(T, out.tokens, id, ts)
         /\ out.message \in {"sold", "old"} =>
              Late(T[id], ts) /\ out.tokens[id].status # "generated"
<1> DEFINE t == T[id]
           u(m) == IF m = "old" THEN [t EXCEPT !.status = "old"]
                   ELSE IF m = "restarted" THEN [t EXCEPT !.started = ts]
                   ELSE IF m = "sold" THEN [t EXCEPT !.status = "sold"] ELSE t
           m == out.message
<1>1. /\ DOMAIN t = TokenFields /\ t.started \in Nat /\ t.born \in Nat
      /\ TokenLife \in Nat \ {0} /\ AuctionInterval \in Nat \ {0}
  BY SplitMarketAssumption DEF SplitToken
<1>2. out.tokens = PutToken(T, id, u(m))
  BY DEF EndAuction, Reply
<1>3. \/ /\ m = "old" /\ ts - TokenLife >= t.born /\ t.owner = t.producer
      \/ /\ m = "restarted" /\ ~(ts - TokenLife >= t.born) /\ t.owner = t.producer
         /\ ts - AuctionInterval >= t.started
      \/ /\ m = "sold" /\ t.owner # t.producer /\ ts - AuctionInterval >= t.started
      \/ /\ m = "why" /\ ~(ts - AuctionInterval >= t.started)
         /\ ~(ts - TokenLife >= t.born /\ t.owner = t.producer)
  BY DEF EndAuction, Reply
<1> HIDE DEF m
<1>4. /\ u("old").status = "old" /\ u("old").started = t.started /\ u("old").amount = t.amount
      /\ u("sold").status = "sold" /\ u("sold").started = t.started /\ u("sold").amount = t.amount
      /\ u("restarted").status = t.status /\ u("restarted").started = ts
      /\ u("restarted").amount = t.amount
      /\ u("why") = t
  BY <1>1 DEF TokenFields
<1>5. SameDeal(t, u("old")) /\ SameDeal(t, u("sold")) /\ SameDeal(t, u("restarted"))
      /\ SameDeal(t, u("why")) /\ u("restarted").born = t.born
  BY <1>1 DEF SameDeal, TokenFields
<1> HIDE DEF t, u
<1>6. EndsAs(t, u(m), ts)
  BY <1>1, <1>3, <1>4, <1>5 DEF EndsAs
<1>7. DOMAIN out.tokens = DOMAIN T /\ out.tokens[id] = u(m) /\ Others(T, out.tokens, id)
  <2> DEFINE V == out.tokens
             x == u(m)
  <2>1. V = PutToken(T, id, x)
    BY <1>2
  <2> HIDE DEF V, x
  <2>2. DOMAIN V = DOMAIN T /\ V[id] = x /\ Others(T, V, id)
    BY <2>1, PutAgain
  <2> QED BY <2>2 DEF V, x
<1>8. m \in {"sold", "old"} => Late(t, ts) /\ u(m).status # "generated"
  BY <1>1, <1>3, <1>4, <1>5 DEF Late
<1> QED BY <1>6, <1>7, <1>8 DEF Ends, t, m

LEMMA BidBuys ==
  ASSUME NEW T, NEW id \in DOMAIN T, NEW now \in Nat, SplitToken(T[id], now),
         NEW c, NEW priority, NEW amount \in Nat \ {0}, NEW ts \in Nat, NEW y,
         NEW out, out = BidOnToken(T, id, c, Price, priority, amount, ts, y)
  PROVE  \/ out.tokens = T /\ out.amount = 0 /\ out.message # "successful"
         \/ /\ BuysAll(T, out.tokens, id, c, ts, out.amount)
            /\ out.amount =< amount /\ out.message = "successful"
         \/ /\ BuysPart(T, out.tokens, id, y, c, ts, out.amount)
            /\ out.amount = amount /\ out.message = "successful"
<1> DEFINE t == T[id]
           bought == [t EXCEPT !.owner = c, !.price = Price, !.priority = priority, !.bidTime = ts]
           new == [bought EXCEPT !.amount = amount, !.status = "generated"]
           rest == [t EXCEPT !.amount = t.amount - amount]
           Refuses == Late(t, ts) \/ Outbid(t, Price, priority)
<1>1. DOMAIN t = TokenFields /\ t.amount \in Nat \ {0} /\ t.price = Price
  BY DEF SplitToken
<1>2. /\ Takes(t, bought, c, ts) /\ bought.amount = t.amount /\ bought.status = t.status
      /\ bought.owner = c /\ DOMAIN bought = TokenFields
  BY <1>1 DEF Takes, TokenFields
<1>3. Takes(t, new, c, ts) /\ new.amount = amount /\ new.status = "generated"
  <2> HIDE DEF bought
  <2> QED BY <1>2 DEF Takes, TokenFields
<1>4. /\ SameDeal(t, rest) /\ rest.status = t.status /\ rest.started = t.started
      /\ rest.amount = t.amount - amount
  BY <1>1 DEF SameDeal, TokenFields
<1>5. new.amount = amount /\ [t EXCEPT !.amount = @ - new.amount] = rest
  BY <1>3
<1>6. CASE Refuses
  BY <1>6 DEF BidOnToken, Reply
<1>7. CASE ~Refuses /\ t.amount <= amount
  <2>1. out.tokens = PutToken(T, id, bought) /\ out.amount = t.amount /\ out.message = "successful"
    BY <1>7 DEF BidOnToken, Reply
  <2> HIDE DEF bought
  <2>2. DOMAIN out.tokens = DOMAIN T /\ out.tokens[id] = bought /\ Others(T, out.tokens, id)
    BY <2>1, PutAgain
  <2> QED BY <1>1, <1>2, <1>7, <2>1, <2>2 DEF BuysAll
<1>8. CASE ~Refuses /\ ~(t.amount <= amount) /\ y \in DOMAIN T
  BY <1>8 DEF BidOnToken, Reply
<1>9. CASE ~Refuses /\ ~(t.amount <= amount) /\ y \notin DOMAIN T
  <2> DEFINE V == PutToken(T, id, rest)
  <2>1. out.tokens = PutToken(V, y, new) /\ out.amount = amount /\ out.message = "successful"
    BY <1>5, <1>9 DEF BidOnToken, Reply, Split
  <2> HIDE DEF new, rest
  <2>2. DOMAIN V = DOMAIN T /\ V[id] = rest /\ Others(T, V, id)
    BY PutAgain
  <2> HIDE DEF V
  <2>3. DOMAIN out.tokens = DOMAIN T \cup {y} /\ out.tokens[y] = new /\ Others(V, out.tokens, y)
    <3>1. DOMAIN V = DOMAIN T
      BY <2>2
    <3>2. DOMAIN out.tokens = DOMAIN V \cup {y} /\ out.tokens[y] = new /\ Others(V, out.tokens, y)
      BY <2>1, PutFacts
    <3> QED BY <3>1, <3>2
  <2>4. out.tokens[id] = rest /\ Others(T, out.tokens, id)
    BY <1>9, <2>2, <2>3 DEF Others
  <2> QED BY <1>1, <1>3, <1>4, <1>9, <2>1, <2>3, <2>4 DEF BuysPart
<1> QED BY <1>6, <1>7, <1>8, <1>9

-----------------------------------------------------------------------------
(* The ledger stays one.                                                      *)

LEMMA NamesOf ==
  ASSUME NEW id, SplitId(id), NEW c \in Bidders, NEW n \in Nat, NEW y, y = PartOf(id, c, n)
  PROVE  SplitId(y) /\ RootOf(y) = RootOf(id) /\ y[1] = id[1] /\ y[2] = id[2]
<1>1. id \in Seq(IdParts) /\ Len(id) \in Nat /\ Len(id) >= 2 /\ id[2] \in Nat
  BY DEF SplitId
<1>2. c \in IdParts /\ n \in IdParts
  BY DEF IdParts
<1>3. y \in Seq(IdParts) /\ Len(y) = Len(id) + 2
  BY <1>1, <1>2 DEF PartOf
<1>4. y[1] = id[1] /\ y[2] = id[2]
  BY <1>1, <1>2 DEF PartOf
<1>5. RootOf(y) = RootOf(id)
  <2>1. \A i \in 1..2 : y[i] = id[i]
    BY <1>4
  <2>2. RootOf(y) = [i \in 1..2 |-> y[i]] /\ RootOf(id) = [i \in 1..2 |-> id[i]]
    BY <1>1, <1>3 DEF RootOf
  <2> QED BY <2>1, <2>2
<1>6. SplitId(y)
  <2>1. Len(y) >= 2 /\ y[2] \in Nat
    BY <1>1, <1>3, <1>4
  <2> QED BY <1>3, <2>1 DEF SplitId
<1> QED BY <1>4, <1>5, <1>6

LEMMA RootsOf ==
  ASSUME NEW id, SplitId(id)
  PROVE  RootOf(RootOf(id)) = RootOf(id) /\ RootOf(id)[1] = id[1]
<1>1. id \in Seq(IdParts) /\ Len(id) \in Nat /\ Len(id) >= 2
  BY DEF SplitId
<1>2. /\ RootOf(id) = [i \in 1..2 |-> id[i]] /\ RootOf(id) \in Seq(IdParts) /\ Len(RootOf(id)) = 2
  BY <1>1 DEF RootOf
<1>3. RootOf(RootOf(id)) = [i \in 1..2 |-> RootOf(id)[i]]
  BY <1>2 DEF RootOf
<1>4. \A i \in 1..2 : RootOf(id)[i] = id[i]
  BY <1>2
<1> QED BY <1>2, <1>3, <1>4

LEMMA RootName ==
  ASSUME NEW g \in Gens, NEW n \in Nat
  PROVE  /\ SplitId(<<g, n>>) /\ RootOf(<<g, n>>) = <<g, n>>
         /\ <<g, n>>[1] = g /\ <<g, n>>[2] = n
<1>1. <<g, n>> \in Seq(IdParts) /\ Len(<<g, n>>) = 2
  BY DEF IdParts
<1>2. RootOf(<<g, n>>) = [i \in 1..2 |-> <<g, n>>[i]]
  BY <1>1 DEF RootOf
<1>3. <<g, n>> = [i \in 1..2 |-> <<g, n>>[i]]
  OBVIOUS
<1> QED BY <1>1, <1>2, <1>3 DEF SplitId

LEMMA LedgerAmounts ==
  ASSUME NEW T, NEW now, SplitLedger(T, now)
  PROVE  HasAmounts(T)
BY DEF SplitLedger, SplitToken, HasAmounts

\* The tokens that were one at first hold together what that one held.
ClassOf(T, r) == {id \in DOMAIN T : RootOf(id) = r}
Conserves(T) == \A r \in DOMAIN T : RootOf(r) = r => AmountSum(T, ClassOf(T, r)) = Output[r[1]]

\* When no bid has come late, a token is sold or old only when its auction or its
\* life is over, and what a consumer has was bid for before.
TimelyToken(t, now) ==
  /\ t.owner # t.producer => t.bidTime < t.started + AuctionInterval
  /\ t.status = "old" => now - TokenLife >= t.born
  /\ t.status = "sold" => t.owner # t.producer /\ t.started + AuctionInterval <= now
TimelyLedger(T, now) == \A id \in DOMAIN T : TimelyToken(T[id], now)

\* What is sold or old stays so, with the same owner, amount and time of the bid.
Settles(t, u) ==
  t.status # "generated" =>
    /\ u.status # "generated" /\ (t.status = "sold" => u.status = "sold")
    /\ u.amount = t.amount /\ u.owner = t.owner /\ u.bidTime = t.bidTime
KeepsToken(t, u) == u.gen = t.gen /\ u.producer = t.producer /\ u.born = t.born

Keeps(T, U) == DOMAIN T \subseteq DOMAIN U /\ \A id \in DOMAIN T : KeepsToken(T[id], U[id])
SettlesAll(T, U) == \A id \in DOMAIN T : Settles(T[id], U[id])

\* What is new was created by one of G, or is part of a token that was for sale.
GrowsFrom(T, U, G) ==
  \A id \in DOMAIN U \ DOMAIN T :
    U[id].gen \in G \/ \E p \in DOMAIN T : T[p].status = "generated" /\ T[p].gen = U[id].gen

LEMMA LedgerTicks ==
  ASSUME NEW T, NEW now \in Nat, SplitLedger(T, now)
  PROVE  SplitLedger(T, now + 1) /\ (TimelyLedger(T, now) => TimelyLedger(T, now + 1))
<1>1. SplitLedger(T, now + 1)
  BY DEF SplitLedger, SplitToken
<1>2. TimelyLedger(T, now) => TimelyLedger(T, now + 1)
  <2>1. SUFFICES ASSUME NEW id \in DOMAIN T, TimelyToken(T[id], now) PROVE TimelyToken(T[id], now + 1)
    BY DEF TimelyLedger
  <2>2. T[id].born \in Nat /\ T[id].started \in Nat /\ TokenLife \in Nat /\ AuctionInterval \in Nat
    BY SplitMarketAssumption DEF SplitLedger, SplitToken
  <2> QED BY <2>1, <2>2 DEF TimelyToken
<1> QED BY <1>1, <1>2

-----------------------------------------------------------------------------
(* A token is created.                                                        *)

LEMMA MakesLedger ==
  ASSUME NEW T, NEW U, NEW now \in Nat, SplitLedger(T, now), NEW g \in Gens, NEW n \in Nat,
         NEW born \in 0..now, Makes(T, U, <<g, n>>, g, born)
  PROVE  SplitLedger(U, now)
<1> DEFINE r == <<g, n>>
<1>1. SplitId(r) /\ RootOf(r) = r /\ r[1] = g
  BY RootName
<1> HIDE DEF r
<1>2. /\ r \notin DOMAIN T /\ DOMAIN U = DOMAIN T \cup {r}
      /\ \A i \in DOMAIN T : U[i] = T[i]
  BY DEF Makes, Others, r
<1>3. IsFiniteSet(DOMAIN U)
  BY <1>2, FS_AddElement DEF SplitLedger
<1>4. SplitToken(U[r], now) /\ U[r].gen = g
  <2>1. Output[g] \in Nat \ {0} /\ born \in Nat /\ born =< now
    BY SplitMarketAssumption
  <2> QED BY <2>1 DEF Makes, SplitToken, TokenFields, r
<1>5. ASSUME NEW i \in DOMAIN U
      PROVE  SplitId(i) /\ RootOf(i) \in DOMAIN U /\ SplitToken(U[i], now) /\ i[1] = U[i].gen
  <2>1. CASE i = r
    BY <1>1, <1>2, <1>4, <2>1
  <2>2. CASE i \in DOMAIN T
    BY <1>2, <2>2 DEF SplitLedger
  <2> QED BY <1>2, <2>1, <2>2
<1> QED BY <1>3, <1>5 DEF SplitLedger

LEMMA MakesConserves ==
  ASSUME NEW T, NEW U, NEW now \in Nat, SplitLedger(T, now), NEW g \in Gens, NEW n \in Nat,
         NEW born \in 0..now, Makes(T, U, <<g, n>>, g, born), Conserves(T)
  PROVE  Conserves(U)
<1> DEFINE r == <<g, n>>
<1>1. SplitId(r) /\ RootOf(r) = r /\ r[1] = g
  BY RootName
<1>2. SplitLedger(U, now)
  BY MakesLedger
<1> HIDE DEF r
<1>3. /\ r \notin DOMAIN T /\ DOMAIN U = DOMAIN T \cup {r} /\ U[r].amount = Output[g]
      /\ \A i \in DOMAIN T : U[i] = T[i]
  BY DEF Makes, Others, r
<1>4. HasAmounts(T) /\ HasAmounts(U)
  BY <1>2, LedgerAmounts
<1>5. SUFFICES ASSUME NEW s \in DOMAIN U, RootOf(s) = s
               PROVE  AmountSum(U, ClassOf(U, s)) = Output[s[1]]
  BY DEF Conserves
<1>6. CASE s = r
  <2>1. \A i \in DOMAIN T : RootOf(i) # r
    BY <1>3 DEF SplitLedger
  <2>2. ClassOf(U, r) = {r}
    BY <1>1, <1>3, <2>1 DEF ClassOf
  <2>3. AmountSum(U, {r}) = Output[g]
    BY <1>3, <1>4, HeldOne
  <2> QED BY <1>1, <1>6, <2>2, <2>3
<1>7. CASE s # r
  <2>1. s \in DOMAIN T /\ ClassOf(U, s) = ClassOf(T, s) /\ ClassOf(T, s) \subseteq DOMAIN T
    BY <1>1, <1>3, <1>7 DEF ClassOf
  <2>2. AmountSum(T, ClassOf(T, s)) = Output[s[1]]
    BY <1>5, <2>1 DEF Conserves
  <2>3. AmountSum(U, ClassOf(T, s)) = AmountSum(T, ClassOf(T, s))
    BY <1>3, <1>4, <2>1, HeldSame
  <2> QED BY <2>1, <2>2, <2>3
<1> QED BY <1>6, <1>7

LEMMA MakesTimely ==
  ASSUME NEW T, NEW U, NEW now \in Nat, NEW g \in Gens, NEW n \in Nat,
         NEW born \in 0..now, Makes(T, U, <<g, n>>, g, born), TimelyLedger(T, now)
  PROVE  TimelyLedger(U, now)
BY DEF Makes, Others, TimelyLedger, TimelyToken

LEMMA MakesKeeps ==
  ASSUME NEW T, NEW U, NEW g, NEW r, NEW born, Makes(T, U, r, g, born)
  PROVE  Keeps(T, U) /\ SettlesAll(T, U) /\ GrowsFrom(T, U, {g})
<1>1. DOMAIN U = DOMAIN T \cup {r} /\ r \notin DOMAIN T /\ U[r].gen = g
      /\ \A i \in DOMAIN T : U[i] = T[i]
  BY DEF Makes, Others
<1>2. Keeps(T, U) /\ SettlesAll(T, U)
  BY <1>1 DEF Keeps, KeepsToken, SettlesAll, Settles
<1> QED BY <1>1, <1>2 DEF GrowsFrom

-----------------------------------------------------------------------------
(* The auction of a token ends.                                               *)

LEMMA EndsLedger ==
  ASSUME NEW T, NEW U, NEW now \in Nat, SplitLedger(T, now), NEW id, NEW ts \in 0..now, Ends(T, U, id, ts)
  PROVE  SplitLedger(U, now)
<1>1. id \in DOMAIN T /\ DOMAIN U = DOMAIN T /\ EndsAs(T[id], U[id], ts)
      /\ \A i \in DOMAIN T : i # id => U[i] = T[i]
  BY DEF Ends, Others
<1>2. SplitToken(U[id], now) /\ U[id].gen = T[id].gen
  BY <1>1 DEF SplitLedger, SplitToken, EndsAs, SameDeal
<1>3. ASSUME NEW i \in DOMAIN U
      PROVE  SplitId(i) /\ RootOf(i) \in DOMAIN U /\ SplitToken(U[i], now) /\ i[1] = U[i].gen
  BY <1>1, <1>2 DEF SplitLedger
<1> QED BY <1>1, <1>3 DEF SplitLedger

LEMMA EndsConserves ==
  ASSUME NEW T, NEW U, NEW now \in Nat, SplitLedger(T, now), NEW id, NEW ts \in 0..now, Ends(T, U, id, ts),
         Conserves(T)
  PROVE  Conserves(U)
<1>1. DOMAIN U = DOMAIN T /\ \A i \in DOMAIN T : U[i].amount = T[i].amount
  BY DEF Ends, Others, EndsAs
<1>2. HasAmounts(T) /\ HasAmounts(U)
  BY EndsLedger, LedgerAmounts
<1>3. SUFFICES ASSUME NEW s \in DOMAIN U, RootOf(s) = s
               PROVE  AmountSum(U, ClassOf(U, s)) = Output[s[1]]
  BY DEF Conserves
<1>4. s \in DOMAIN T /\ ClassOf(U, s) = ClassOf(T, s) /\ ClassOf(T, s) \subseteq DOMAIN T
  BY <1>1 DEF ClassOf
<1>5. AmountSum(U, ClassOf(T, s)) = AmountSum(T, ClassOf(T, s))
  BY <1>1, <1>2, <1>4, HeldSame
<1> QED BY <1>3, <1>4, <1>5 DEF Conserves

LEMMA EndsTimely ==
  ASSUME NEW T, NEW U, NEW now \in Nat, SplitLedger(T, now), NEW id, NEW ts \in 0..now, Ends(T, U, id, ts),
         TimelyLedger(T, now)
  PROVE  TimelyLedger(U, now) /\ SettlesAll(T, U)
<1>1. id \in DOMAIN T /\ DOMAIN U = DOMAIN T /\ EndsAs(T[id], U[id], ts)
      /\ \A i \in DOMAIN T : i # id => U[i] = T[i]
  BY DEF Ends, Others
<1>2. /\ T[id].born \in Nat /\ T[id].started \in Nat /\ ts \in Nat /\ ts =< now
      /\ TokenLife \in Nat \ {0} /\ AuctionInterval \in Nat \ {0}
      /\ T[id].status \in {"generated", "sold", "old"}
  BY <1>1, SplitMarketAssumption DEF SplitLedger, SplitToken
<1>3. TimelyToken(T[id], now)
  BY <1>1 DEF TimelyLedger
<1>4. TimelyToken(U[id], now)
  BY <1>1, <1>2, <1>3 DEF TimelyToken, EndsAs, SameDeal
<1>5. Settles(T[id], U[id])
  BY <1>1, <1>2, <1>3 DEF Settles, TimelyToken, EndsAs, SameDeal
<1>6. TimelyLedger(U, now)
  BY <1>1, <1>4 DEF TimelyLedger
<1>7. SettlesAll(T, U)
  BY <1>1, <1>5 DEF SettlesAll, Settles
<1> QED BY <1>6, <1>7

LEMMA EndsKeeps ==
  ASSUME NEW T, NEW U, NEW id, NEW ts, NEW G, Ends(T, U, id, ts)
  PROVE  Keeps(T, U) /\ GrowsFrom(T, U, G)
BY DEF Ends, Others, Keeps, KeepsToken, EndsAs, SameDeal, GrowsFrom

-----------------------------------------------------------------------------
(* A bid takes all of a token, or a part of it.                               *)

LEMMA NotLate ==
  ASSUME NEW t, NEW now \in Nat, SplitToken(t, now), TimelyToken(t, now), ~Late(t, now)
  PROVE  t.status = "generated" /\ now < t.started + AuctionInterval
<1>1. /\ t.born \in Nat /\ t.started \in Nat /\ t.status \in {"generated", "sold", "old"}
      /\ TokenLife \in Nat \ {0} /\ AuctionInterval \in Nat \ {0}
  BY SplitMarketAssumption DEF SplitToken
<1> QED BY <1>1 DEF TimelyToken, Late

LEMMA BuysAllLedger ==
  ASSUME NEW T, NEW U, NEW now \in Nat, SplitLedger(T, now), NEW id, NEW c, NEW ts \in Nat, NEW n,
         BuysAll(T, U, id, c, ts, n)
  PROVE  SplitLedger(U, now)
<1>1. /\ id \in DOMAIN T /\ DOMAIN U = DOMAIN T /\ Takes(T[id], U[id], c, ts)
      /\ U[id].amount = T[id].amount /\ U[id].status = T[id].status
      /\ \A i \in DOMAIN T : i # id => U[i] = T[i]
  BY DEF BuysAll, Others
<1>2. SplitToken(U[id], now) /\ U[id].gen = T[id].gen
  BY <1>1 DEF SplitLedger, SplitToken, Takes
<1>3. ASSUME NEW i \in DOMAIN U
      PROVE  SplitId(i) /\ RootOf(i) \in DOMAIN U /\ SplitToken(U[i], now) /\ i[1] = U[i].gen
  BY <1>1, <1>2 DEF SplitLedger
<1> QED BY <1>1, <1>3 DEF SplitLedger

LEMMA BuysAllConserves ==
  ASSUME NEW T, NEW U, NEW now \in Nat, SplitLedger(T, now), NEW id, NEW c, NEW ts \in Nat, NEW n,
         BuysAll(T, U, id, c, ts, n), Conserves(T)
  PROVE  Conserves(U)
<1>1. DOMAIN U = DOMAIN T /\ \A i \in DOMAIN T : U[i].amount = T[i].amount
  BY DEF BuysAll, Others
<1>2. HasAmounts(T) /\ HasAmounts(U)
  BY BuysAllLedger, LedgerAmounts
<1>3. SUFFICES ASSUME NEW s \in DOMAIN U, RootOf(s) = s
               PROVE  AmountSum(U, ClassOf(U, s)) = Output[s[1]]
  BY DEF Conserves
<1>4. s \in DOMAIN T /\ ClassOf(U, s) = ClassOf(T, s) /\ ClassOf(T, s) \subseteq DOMAIN T
  BY <1>1 DEF ClassOf
<1>5. AmountSum(U, ClassOf(T, s)) = AmountSum(T, ClassOf(T, s))
  BY <1>1, <1>2, <1>4, HeldSame
<1> QED BY <1>3, <1>4, <1>5 DEF Conserves

LEMMA BuysAllTimely ==
  ASSUME NEW T, NEW U, NEW now \in Nat, SplitLedger(T, now), NEW id, NEW c, NEW n,
         BuysAll(T, U, id, c, now, n), TimelyLedger(T, now)
  PROVE  TimelyLedger(U, now) /\ SettlesAll(T, U)
<1>1. /\ id \in DOMAIN T /\ DOMAIN U = DOMAIN T /\ Takes(T[id], U[id], c, now)
      /\ ~Late(T[id], now) /\ U[id].status = T[id].status
      /\ \A i \in DOMAIN T : i # id => U[i] = T[i]
  BY DEF BuysAll, Others
<1>2. T[id].status = "generated" /\ now < T[id].started + AuctionInterval
  BY <1>1, NotLate DEF SplitLedger, TimelyLedger
<1>3. TimelyToken(U[id], now)
  BY <1>1, <1>2 DEF TimelyToken, Takes
<1>4. Settles(T[id], U[id])
  BY <1>2 DEF Settles
<1>5. TimelyLedger(U, now)
  BY <1>1, <1>3 DEF TimelyLedger
<1>6. SettlesAll(T, U)
  BY <1>1, <1>4 DEF SettlesAll, Settles
<1> QED BY <1>5, <1>6

LEMMA BuysAllKeeps ==
  ASSUME NEW T, NEW U, NEW id, NEW c, NEW ts, NEW n, NEW G, BuysAll(T, U, id, c, ts, n)
  PROVE  Keeps(T, U) /\ GrowsFrom(T, U, G)
BY DEF BuysAll, Others, Keeps, KeepsToken, Takes, GrowsFrom

LEMMA BuysPartLedger ==
  ASSUME NEW T, NEW U, NEW now \in Nat, SplitLedger(T, now), NEW id, NEW c \in Bidders, NEW ts \in Nat,
         NEW n \in Nat \ {0}, NEW k \in Nat, NEW y, y = PartOf(id, c, k), BuysPart(T, U, id, y, c, ts, n)
  PROVE  SplitLedger(U, now)
<1>1. /\ id \in DOMAIN T /\ y \notin DOMAIN T /\ DOMAIN U = DOMAIN T \cup {y}
      /\ \A i \in DOMAIN T : i # id => U[i] = T[i]
  BY DEF BuysPart, Others
<1>2. SplitId(id) /\ RootOf(id) \in DOMAIN T /\ SplitToken(T[id], now) /\ id[1] = T[id].gen
  BY <1>1 DEF SplitLedger
<1>3. SplitId(y) /\ RootOf(y) = RootOf(id) /\ y[1] = id[1]
  BY <1>2, NamesOf
<1>4. SplitToken(U[id], now) /\ U[id].gen = T[id].gen
  <2>1. U[id].amount \in Nat \ {0}
    BY <1>2 DEF BuysPart, SplitToken
  <2> QED BY <1>2, <2>1 DEF BuysPart, SplitToken, SameDeal
<1>5. SplitToken(U[y], now) /\ U[y].gen = T[id].gen
  BY <1>2 DEF BuysPart, SplitToken, Takes
<1>6. IsFiniteSet(DOMAIN U)
  BY <1>1, FS_AddElement DEF SplitLedger
<1>7. ASSUME NEW i \in DOMAIN U
      PROVE  SplitId(i) /\ RootOf(i) \in DOMAIN U /\ SplitToken(U[i], now) /\ i[1] = U[i].gen
  <2>1. CASE i = y
    BY <1>1, <1>2, <1>3, <1>5, <2>1
  <2>2. CASE i = id
    BY <1>1, <1>2, <1>4, <2>2
  <2>3. CASE i \in DOMAIN T /\ i # id
    BY <1>1, <2>3 DEF SplitLedger
  <2> QED BY <1>1, <2>1, <2>2, <2>3
<1> QED BY <1>6, <1>7 DEF SplitLedger

LEMMA BuysPartConserves ==
  ASSUME NEW T, NEW U, NEW now \in Nat, SplitLedger(T, now), NEW id, NEW c \in Bidders, NEW ts \in Nat,
         NEW n \in Nat \ {0}, NEW k \in Nat, NEW y, y = PartOf(id, c, k), BuysPart(T, U, id, y, c, ts, n),
         Conserves(T)
  PROVE  Conserves(U)
<1>1. /\ id \in DOMAIN T /\ y \notin DOMAIN T /\ DOMAIN U = DOMAIN T \cup {y}
      /\ \A i \in DOMAIN T : i # id => U[i] = T[i]
      /\ U[id].amount = T[id].amount - n /\ U[y].amount = n
  BY DEF BuysPart, Others
<1>2. /\ SplitId(id) /\ RootOf(id) \in DOMAIN T /\ T[id].amount \in Nat
  BY <1>1 DEF SplitLedger, SplitToken
<1>3. RootOf(y) = RootOf(id) /\ RootOf(RootOf(y)) = RootOf(y)
  BY <1>2, NamesOf, RootsOf
<1>4. HasAmounts(T) /\ HasAmounts(U)
  BY BuysPartLedger, LedgerAmounts
<1>5. SUFFICES ASSUME NEW s \in DOMAIN U, RootOf(s) = s
               PROVE  AmountSum(U, ClassOf(U, s)) = Output[s[1]]
  BY DEF Conserves
<1>6. s \in DOMAIN T
  BY <1>1, <1>2, <1>3, <1>5
<1>7. AmountSum(T, ClassOf(T, s)) = Output[s[1]]
  BY <1>5, <1>6 DEF Conserves
<1>8. CASE s = RootOf(id)
  <2> DEFINE S == ClassOf(T, s)
  <2>1. S \subseteq DOMAIN T /\ S \subseteq DOMAIN U /\ id \in S /\ y \in DOMAIN U /\ y \notin S
    BY <1>1, <1>8 DEF ClassOf
  <2>2. ClassOf(U, s) = S \cup {y}
    BY <1>1, <1>3, <1>8 DEF ClassOf
  <2>3. \A i \in S \ {id} : U[i].amount = T[i].amount
    BY <1>1, <2>1
  <2>4. U[id].amount + U[y].amount = T[id].amount
    BY <1>1, <1>2
  <2> HIDE DEF S
  <2>5. AmountSum(U, S \cup {y}) = AmountSum(T, S)
    <3>1. S \subseteq DOMAIN T /\ S \subseteq DOMAIN U /\ id \in S /\ y \in DOMAIN U /\ y \notin S
      BY <2>1
    <3> QED BY <1>4, <2>3, <2>4, <3>1, HeldSplits
  <2> QED BY <1>7, <2>2, <2>5 DEF S
<1>9. CASE s # RootOf(id)
  <2>1. ClassOf(U, s) = ClassOf(T, s) /\ ClassOf(T, s) \subseteq DOMAIN T
    BY <1>1, <1>3, <1>9 DEF ClassOf
  <2>2. \A i \in ClassOf(T, s) : U[i].amount = T[i].amount
    BY <1>1, <1>9 DEF ClassOf
  <2>3. ClassOf(T, s) \subseteq DOMAIN U
    BY <1>1, <2>1
  <2>4. AmountSum(U, ClassOf(T, s)) = AmountSum(T, ClassOf(T, s))
    BY <1>4, <2>1, <2>2, <2>3, HeldSame
  <2> QED BY <1>7, <2>1, <2>4
<1> QED BY <1>8, <1>9

LEMMA BuysPartTimely ==
  ASSUME NEW T, NEW U, NEW now \in Nat, SplitLedger(T, now), NEW id, NEW c, NEW y, NEW n,
         BuysPart(T, U, id, y, c, now, n), TimelyLedger(T, now)
  PROVE  TimelyLedger(U, now) /\ SettlesAll(T, U) /\ T[id].status = "generated"
<1>1. /\ id \in DOMAIN T /\ y \notin DOMAIN T /\ DOMAIN U = DOMAIN T \cup {y}
      /\ \A i \in DOMAIN T : i # id => U[i] = T[i]
      /\ ~Late(T[id], now) /\ SameDeal(T[id], U[id])
      /\ U[id].status = T[id].status /\ U[id].started = T[id].started
      /\ Takes(T[id], U[y], c, now) /\ U[y].status = "generated"
  BY DEF BuysPart, Others
<1>2. T[id].status = "generated" /\ now < T[id].started + AuctionInterval
  BY <1>1, NotLate DEF SplitLedger, TimelyLedger
<1>3. TimelyToken(U[id], now)
  BY <1>1 DEF TimelyToken, SameDeal, TimelyLedger
<1>4. TimelyToken(U[y], now)
  BY <1>1, <1>2 DEF TimelyToken, Takes
<1>5. TimelyLedger(U, now)
  BY <1>1, <1>3, <1>4 DEF TimelyLedger
<1>6. SettlesAll(T, U)
  BY <1>1, <1>2 DEF SettlesAll, Settles
<1> QED BY <1>2, <1>5, <1>6

LEMMA BuysPartKeeps ==
  ASSUME NEW T, NEW U, NEW id, NEW c, NEW ts, NEW y, NEW n, NEW G, BuysPart(T, U, id, y, c, ts, n)
  PROVE  Keeps(T, U) /\ (T[id].status = "generated" => GrowsFrom(T, U, G))
<1>1. /\ id \in DOMAIN T /\ DOMAIN U = DOMAIN T \cup {y}
      /\ \A i \in DOMAIN T : i # id => U[i] = T[i]
      /\ SameDeal(T[id], U[id]) /\ Takes(T[id], U[y], c, ts)
  BY DEF BuysPart, Others
<1>2. Keeps(T, U)
  BY <1>1 DEF Keeps, KeepsToken, SameDeal
<1>3. T[id].status = "generated" => GrowsFrom(T, U, G)
  BY <1>1 DEF GrowsFrom, Takes
<1> QED BY <1>2, <1>3

-----------------------------------------------------------------------------
(* The producers: a is the work on a token created by g, T the ledger.         *)

WorkFields == {"pc", "tries", "born", "due", "ts", "calls", "toEnd", "seen", "ended", "soldOut"}
SplitWork(a, T, now) ==
  /\ DOMAIN a = WorkFields
  /\ a.pc \in {"create", "wait", "end", "done"}
  /\ a.tries \in Nat /\ a.born \in 0..now /\ a.ts \in 0..now /\ a.ended \in Nat
  /\ a.toEnd \subseteq DOMAIN T /\ a.toEnd \subseteq DOMAIN a.seen
  /\ \A id \in DOMAIN a.seen : a.seen[id] \in Nat
  /\ a.pc # "end" => a.toEnd = {}
  /\ a.soldOut \in BOOLEAN /\ (a.soldOut => a.pc = "done")
Working(A, T, now) == DOMAIN A = Gens /\ \A g \in Gens : SplitWork(A[g], T, now)

\* When the tokens of g were created, and by which of its calls.
BelongsTo(T, a, g) ==
  \A id \in DOMAIN T : T[id].gen = g =>
    T[id].born = a.born /\ id[2] =< a.tries /\ (a.pc = "create" => id[2] < a.tries)
Belong(T, A) == \A g \in Gens : BelongsTo(T, A[g], g)

\* What an auction call has counted is sold or old, and what it has still to end
\* is as it saw it, if it is to count.
EndedOf(T, a, maker) ==
  {id \in QueryByUserAndGeneratedTime(T, maker, a.born) :
     id \notin a.toEnd /\ T[id].status # "generated"}
EndedCounts(T, a, maker) ==
  a.pc = "end" =>
    /\ a.toEnd \subseteq QueryByUserAndGeneratedTime(T, maker, a.born)
    /\ \A id \in a.toEnd : Late(T[id], a.ts) => a.seen[id] = T[id].amount
    /\ a.ended =< AmountSum(T, EndedOf(T, a, maker))

\* SoldOutIsOver of one token.
AloneIn(T, a, g) ==
  \A id \in QueryByUserAndGeneratedTime(T, Makers[g], a.born) : T[id].gen = g
SoldOutOf(T, a, g) ==
  a.soldOut /\ a.tries = 0 /\ AloneIn(T, a, g) =>
    \A id \in DOMAIN T : T[id].gen = g => T[id].status # "generated"
Counts(T, A) == \A g \in Gens : EndedCounts(T, A[g], Makers[g]) /\ SoldOutOf(T, A[g], g)

\* What a call may still count is not changed.
LateKeeps(T, U, ts) ==
  \A id \in DOMAIN T : Late(U[id], ts) => Late(T[id], ts) /\ U[id].amount = T[id].amount

LEMMA MakesLateKeeps ==
  ASSUME NEW T, NEW U, NEW r, NEW g, NEW born, Makes(T, U, r, g, born), NEW ts
  PROVE  LateKeeps(T, U, ts)
BY DEF Makes, Others, LateKeeps

LEMMA EndsLateKeeps ==
  ASSUME NEW T, NEW U, NEW now \in Nat, SplitLedger(T, now), NEW id, NEW at \in Nat, Ends(T, U, id, at),
         NEW ts \in Nat
  PROVE  LateKeeps(T, U, ts)
<1>1. id \in DOMAIN T /\ EndsAs(T[id], U[id], at) /\ \A i \in DOMAIN T : i # id => U[i] = T[i]
  BY DEF Ends, Others
<1>2. /\ T[id].born \in Nat /\ T[id].started \in Nat
      /\ TokenLife \in Nat \ {0} /\ AuctionInterval \in Nat \ {0}
  BY <1>1, SplitMarketAssumption DEF SplitLedger, SplitToken
<1>3. Late(U[id], ts) => Late(T[id], ts) /\ U[id].amount = T[id].amount
  BY <1>1, <1>2 DEF EndsAs, SameDeal, Late
<1> QED BY <1>1, <1>3 DEF LateKeeps

LEMMA BuysLateKeeps ==
  ASSUME NEW T, NEW U, NEW now \in Nat, SplitLedger(T, now), NEW id, NEW c, NEW y, NEW n,
         BuysAll(T, U, id, c, now, n) \/ BuysPart(T, U, id, y, c, now, n), NEW ts \in 0..now
  PROVE  LateKeeps(T, U, ts)
<1>1. /\ id \in DOMAIN T /\ ~Late(T[id], now) /\ U[id].started = T[id].started /\ U[id].born = T[id].born
      /\ \A i \in DOMAIN T : i # id => U[i] = T[i]
  BY DEF BuysAll, BuysPart, Others, Takes, SameDeal
<1>2. /\ T[id].born \in Nat /\ T[id].started \in Nat
      /\ TokenLife \in Nat \ {0} /\ AuctionInterval \in Nat \ {0}
  BY <1>1, SplitMarketAssumption DEF SplitLedger, SplitToken
<1>3. ~Late(U[id], ts)
  BY <1>1, <1>2 DEF Late
<1> QED BY <1>1, <1>3 DEF LateKeeps

LEMMA WorkStays ==
  ASSUME NEW T, NEW U, DOMAIN T \subseteq DOMAIN U, NEW now \in Nat, NEW later \in Nat, now <= later,
         NEW a, SplitWork(a, T, now)
  PROVE  SplitWork(a, U, later)
<1>1. 0..now \subseteq 0..later
  OBVIOUS
<1> QED BY <1>1 DEF SplitWork

LEMMA BelongStays ==
  ASSUME NEW T, NEW U, Keeps(T, U), NEW a, NEW g, BelongsTo(T, a, g),
         \A id \in DOMAIN U \ DOMAIN T : U[id].gen = g =>
           \E p \in DOMAIN T : T[p].gen = g /\ U[id].born = T[p].born /\ id[2] = p[2]
  PROVE  BelongsTo(U, a, g)
<1>1. SUFFICES ASSUME NEW id \in DOMAIN U, U[id].gen = g
               PROVE  U[id].born = a.born /\ id[2] =< a.tries /\ (a.pc = "create" => id[2] < a.tries)
  BY DEF BelongsTo
<1>2. CASE id \in DOMAIN T
  BY <1>1, <1>2 DEF Keeps, KeepsToken, BelongsTo
<1>3. CASE id \notin DOMAIN T
  BY <1>1, <1>3 DEF BelongsTo
<1> QED BY <1>2, <1>3

LEMMA EndedStays ==
  ASSUME NEW T, NEW U, HasAmounts(T), HasAmounts(U), Keeps(T, U), SettlesAll(T, U),
         NEW a, a.toEnd \subseteq DOMAIN T, a.ended \in Nat, LateKeeps(T, U, a.ts),
         NEW maker, EndedCounts(T, a, maker)
  PROVE  EndedCounts(U, a, maker)
<1> DEFINE S == EndedOf(T, a, maker)
           R == EndedOf(U, a, maker)
<1>1. SUFFICES ASSUME a.pc = "end" PROVE EndedCounts(U, a, maker)
  BY DEF EndedCounts
<1>2. /\ a.toEnd \subseteq QueryByUserAndGeneratedTime(T, maker, a.born)
      /\ \A id \in a.toEnd : Late(T[id], a.ts) => a.seen[id] = T[id].amount
      /\ a.ended =< AmountSum(T, S)
  BY <1>1 DEF EndedCounts
<1>3. QueryByUserAndGeneratedTime(T, maker, a.born) \subseteq QueryByUserAndGeneratedTime(U, maker, a.born)
  BY DEF Keeps, KeepsToken, QueryByUserAndGeneratedTime
<1>4. \A id \in a.toEnd : Late(U[id], a.ts) => a.seen[id] = U[id].amount
  BY <1>2 DEF LateKeeps
<1>5. S \subseteq DOMAIN T /\ R \subseteq DOMAIN U
  BY DEF EndedOf, QueryByUserAndGeneratedTime
<1>6. ASSUME NEW id \in S PROVE id \in R /\ U[id].amount = T[id].amount
  <2>1. id \in DOMAIN T /\ T[id].status # "generated" /\ id \notin a.toEnd
    BY DEF EndedOf, QueryByUserAndGeneratedTime
  <2>2. U[id].status # "generated" /\ U[id].amount = T[id].amount
    BY <2>1 DEF SettlesAll, Settles
  <2>3. id \in QueryByUserAndGeneratedTime(U, maker, a.born)
    BY <1>3 DEF EndedOf
  <2> QED BY <2>1, <2>2, <2>3 DEF EndedOf
<1>7. S \subseteq R /\ \A id \in S : T[id].amount =< U[id].amount
  BY <1>5, <1>6 DEF HasAmounts
<1> HIDE DEF S, R
<1>8. AmountSum(T, S) =< AmountSum(U, R)
  BY <1>5, <1>7, HeldGrows
<1>9. AmountSum(T, S) \in Nat /\ AmountSum(U, R) \in Nat
  BY <1>5, HeldSum
<1>10. a.ended =< AmountSum(U, R)
  BY <1>2, <1>8, <1>9
<1> QED BY <1>2, <1>3, <1>4, <1>10 DEF EndedCounts, R

LEMMA SoldOutStays ==
  ASSUME NEW T, NEW U, Keeps(T, U), SettlesAll(T, U), NEW G, GrowsFrom(T, U, G),
         NEW a, NEW g, a.soldOut => g \notin G, SoldOutOf(T, a, g)
  PROVE  SoldOutOf(U, a, g)
<1>1. SUFFICES ASSUME a.soldOut, a.tries = 0, AloneIn(U, a, g), NEW id \in DOMAIN U, U[id].gen = g
               PROVE  U[id].status # "generated"
  BY DEF SoldOutOf
<1>2. AloneIn(T, a, g)
  BY <1>1 DEF AloneIn, Keeps, KeepsToken, QueryByUserAndGeneratedTime
<1>3. \A i \in DOMAIN T : T[i].gen = g => T[i].status # "generated"
  BY <1>1, <1>2 DEF SoldOutOf
<1>4. CASE id \in DOMAIN T
  BY <1>1, <1>3, <1>4 DEF Keeps, KeepsToken, SettlesAll, Settles
<1>5. CASE id \notin DOMAIN T
  BY <1>1, <1>3, <1>5 DEF GrowsFrom
<1> QED BY <1>4, <1>5

-----------------------------------------------------------------------------
(* What a step does to the ledger, in which creators of G create and consumers *)
(* of C bid.                                                                  *)

\* What another consumer has bid for can only get less.
Shrinks(T, U, c) ==
  \A id \in DOMAIN U : U[id].owner = c /\ U[id].producer # c =>
    /\ id \in DOMAIN T /\ T[id].owner = c /\ T[id].producer # c
    /\ T[id].bidTime = U[id].bidTime /\ U[id].amount =< T[id].amount

\* A part has the creator, the time and the number of the whole.
PartsOf(T, U, G) ==
  \A id \in DOMAIN U \ DOMAIN T :
    U[id].gen \in G \/ \E p \in DOMAIN T : T[p].gen = U[id].gen /\ U[id].born = T[p].born /\ id[2] = p[2]

LedgerStep(T, U, now, G, C) ==
  /\ now \in Nat /\ SplitLedger(T, now) /\ SplitLedger(U, now) /\ Keeps(T, U) /\ PartsOf(T, U, G)
  /\ \A c \in Bidders \ C : Shrinks(T, U, c)
TimelyStep(T, U, now, G) ==
  /\ TimelyLedger(U, now) /\ SettlesAll(T, U) /\ GrowsFrom(T, U, G)
  /\ \A ts \in 0..now : LateKeeps(T, U, ts)

LEMMA SameStep ==
  ASSUME NEW T, NEW now \in Nat, SplitLedger(T, now), NEW G, NEW C
  PROVE  LedgerStep(T, T, now, G, C) /\ (TimelyLedger(T, now) => TimelyStep(T, T, now, G))
<1>1. \A id \in DOMAIN T : T[id].amount \in Nat
  BY DEF SplitLedger, SplitToken
<1>2. LedgerStep(T, T, now, G, C)
  BY <1>1 DEF LedgerStep, Keeps, KeepsToken, PartsOf, Shrinks
<1>3. TimelyLedger(T, now) => TimelyStep(T, T, now, G)
  BY DEF TimelyStep, SettlesAll, Settles, GrowsFrom, LateKeeps
<1> QED BY <1>2, <1>3

LEMMA MakesStep ==
  ASSUME NEW T, NEW U, NEW now \in Nat, SplitLedger(T, now), NEW g \in Gens, NEW n \in Nat,
         NEW born \in 0..now, Makes(T, U, <<g, n>>, g, born)
  PROVE  /\ LedgerStep(T, U, now, {g}, {})
         /\ TimelyLedger(T, now) => TimelyStep(T, U, now, {g})
         /\ Conserves(T) => Conserves(U)
<1> DEFINE r == <<g, n>>
<1>1. SplitLedger(U, now) /\ Keeps(T, U) /\ SettlesAll(T, U) /\ GrowsFrom(T, U, {g})
  BY MakesLedger, MakesKeeps
<1>2. DOMAIN U = DOMAIN T \cup {r} /\ r \notin DOMAIN T /\ U[r].gen = g /\ U[r].owner = U[r].producer
      /\ \A i \in DOMAIN T : U[i] = T[i]
  BY DEF Makes, Others
<1>3. \A i \in DOMAIN T : T[i].amount \in Nat
  BY DEF SplitLedger, SplitToken
<1>4. TimelyLedger(T, now) => TimelyStep(T, U, now, {g})
  <2>1. TimelyLedger(T, now) => TimelyLedger(U, now)
    BY MakesTimely
  <2>2. \A ts \in 0..now : LateKeeps(T, U, ts)
    BY MakesLateKeeps
  <2> QED BY <1>1, <2>1, <2>2 DEF TimelyStep
<1>5. Conserves(T) => Conserves(U)
  BY MakesConserves
<1> HIDE DEF r
<1>6. PartsOf(T, U, {g}) /\ \A c \in Bidders : Shrinks(T, U, c)
  BY <1>2, <1>3 DEF PartsOf, Shrinks
<1>7. LedgerStep(T, U, now, {g}, {})
  BY <1>1, <1>6 DEF LedgerStep
<1> QED BY <1>4, <1>5, <1>7

LEMMA EndsStep ==
  ASSUME NEW T, NEW U, NEW now \in Nat, SplitLedger(T, now), NEW id, NEW ts \in 0..now, Ends(T, U, id, ts)
  PROVE  /\ LedgerStep(T, U, now, {}, {})
         /\ TimelyLedger(T, now) => TimelyStep(T, U, now, {})
         /\ Conserves(T) => Conserves(U)
<1>1. SplitLedger(U, now) /\ Keeps(T, U) /\ GrowsFrom(T, U, {})
  BY EndsLedger, EndsKeeps
<1>2. /\ DOMAIN U = DOMAIN T
      /\ \A i \in DOMAIN T : /\ U[i].amount = T[i].amount /\ U[i].owner = T[i].owner
                             /\ U[i].producer = T[i].producer /\ U[i].bidTime = T[i].bidTime
  BY DEF Ends, Others, EndsAs, SameDeal
<1>3. \A i \in DOMAIN T : T[i].amount \in Nat
  BY DEF SplitLedger, SplitToken
<1>4. PartsOf(T, U, {}) /\ \A c \in Bidders : Shrinks(T, U, c)
  BY <1>2, <1>3 DEF PartsOf, Shrinks
<1>5. LedgerStep(T, U, now, {}, {})
  BY <1>1, <1>4 DEF LedgerStep
<1>6. \A at \in 0..now : LateKeeps(T, U, at)
  BY EndsLateKeeps
<1>7. TimelyLedger(T, now) => TimelyStep(T, U, now, {})
  BY <1>1, <1>6, EndsTimely DEF TimelyStep
<1>8. Conserves(T) => Conserves(U)
  BY EndsConserves
<1> QED BY <1>5, <1>7, <1>8

LEMMA BuysAllStep ==
  ASSUME NEW T, NEW U, NEW now \in Nat, SplitLedger(T, now), NEW id, NEW c \in Bidders, NEW ts \in Nat,
         NEW n, BuysAll(T, U, id, c, ts, n)
  PROVE  /\ LedgerStep(T, U, now, {}, {c})
         /\ TimelyLedger(T, now) /\ ts = now => TimelyStep(T, U, now, {})
         /\ Conserves(T) => Conserves(U)
<1>1. SplitLedger(U, now) /\ Keeps(T, U) /\ GrowsFrom(T, U, {})
  BY BuysAllLedger, BuysAllKeeps
<1>2. /\ DOMAIN U = DOMAIN T /\ id \in DOMAIN T /\ U[id].owner = c
      /\ \A i \in DOMAIN T : i # id => U[i] = T[i]
  BY DEF BuysAll, Others, Takes
<1>3. \A i \in DOMAIN T : T[i].amount \in Nat
  BY DEF SplitLedger, SplitToken
<1>4. PartsOf(T, U, {}) /\ \A d \in Bidders \ {c} : Shrinks(T, U, d)
  BY <1>2, <1>3 DEF PartsOf, Shrinks
<1>5. LedgerStep(T, U, now, {}, {c})
  BY <1>1, <1>4 DEF LedgerStep
<1>6. ASSUME TimelyLedger(T, now), ts = now PROVE TimelyStep(T, U, now, {})
  <2>1. BuysAll(T, U, id, c, now, n)
    BY <1>6
  <2>2. \A at \in 0..now : LateKeeps(T, U, at)
    BY <2>1, BuysLateKeeps
  <2>3. TimelyLedger(U, now) /\ SettlesAll(T, U)
    BY <1>6, <2>1, BuysAllTimely
  <2> QED BY <1>1, <2>2, <2>3 DEF TimelyStep
<1>7. Conserves(T) => Conserves(U)
  BY BuysAllConserves
<1> QED BY <1>5, <1>6, <1>7

LEMMA BuysPartStep ==
  ASSUME NEW T, NEW U, NEW now \in Nat, SplitLedger(T, now), NEW id, NEW c \in Bidders, NEW ts \in Nat,
         NEW n \in Nat \ {0}, NEW k \in Nat, NEW y, y = PartOf(id, c, k), BuysPart(T, U, id, y, c, ts, n)
  PROVE  /\ LedgerStep(T, U, now, {}, {c})
         /\ TimelyLedger(T, now) /\ ts = now => TimelyStep(T, U, now, {})
         /\ Conserves(T) => Conserves(U)
<1>1. SplitLedger(U, now) /\ Keeps(T, U)
  BY BuysPartLedger, BuysPartKeeps
<1>2. /\ DOMAIN U = DOMAIN T \cup {y} /\ id \in DOMAIN T /\ U[y].owner = c
      /\ U[y].gen = T[id].gen /\ U[y].born = T[id].born
      /\ U[id].owner = T[id].owner /\ U[id].producer = T[id].producer
      /\ U[id].bidTime = T[id].bidTime /\ U[id].amount = T[id].amount - n
      /\ \A i \in DOMAIN T : i # id => U[i] = T[i]
  BY DEF BuysPart, Others, Takes, SameDeal
<1>3. /\ \A i \in DOMAIN T : T[i].amount \in Nat
      /\ SplitId(id)
  BY <1>2 DEF SplitLedger, SplitToken
<1>4. y[2] = id[2]
  BY <1>3, NamesOf
<1>5. PartsOf(T, U, {})
  BY <1>2, <1>4 DEF PartsOf
<1>6. \A i \in DOMAIN T : U[i].amount =< T[i].amount
  BY <1>2, <1>3
<1>7. \A d \in Bidders \ {c} : Shrinks(T, U, d)
  BY <1>2, <1>6 DEF Shrinks
<1>8. LedgerStep(T, U, now, {}, {c})
  BY <1>1, <1>5, <1>7 DEF LedgerStep
<1>9. ASSUME TimelyLedger(T, now), ts = now PROVE TimelyStep(T, U, now, {})
  <2>1. BuysPart(T, U, id, y, c, now, n)
    BY <1>9
  <2>2. \A at \in 0..now : LateKeeps(T, U, at)
    BY <2>1, BuysLateKeeps
  <2>3. TimelyLedger(U, now) /\ SettlesAll(T, U) /\ GrowsFrom(T, U, {})
    BY <1>9, <2>1, BuysPartTimely, BuysPartKeeps
  <2> QED BY <2>2, <2>3 DEF TimelyStep
<1>10. Conserves(T) => Conserves(U)
  BY BuysPartConserves
<1> QED BY <1>8, <1>9, <1>10

-----------------------------------------------------------------------------
(* The producers that do nothing in a step.                                   *)

LEMMA IdleWork ==
  ASSUME NEW T, NEW U, NEW now, NEW G, NEW C, LedgerStep(T, U, now, G, C),
         NEW a, SplitWork(a, T, now), NEW g, g \notin G, BelongsTo(T, a, g)
  PROVE  SplitWork(a, U, now) /\ BelongsTo(U, a, g)
<1>1. now \in Nat /\ now <= now /\ Keeps(T, U) /\ PartsOf(T, U, G)
  BY DEF LedgerStep
<1>2. SplitWork(a, U, now)
  BY <1>1, WorkStays DEF Keeps
<1>3. \A id \in DOMAIN U \ DOMAIN T : U[id].gen = g =>
        \E p \in DOMAIN T : T[p].gen = g /\ U[id].born = T[p].born /\ id[2] = p[2]
  BY <1>1 DEF PartsOf
<1>4. BelongsTo(U, a, g)
  BY <1>1, <1>3, BelongStays
<1> QED BY <1>2, <1>4

LEMMA IdleCounts ==
  ASSUME NEW T, NEW U, NEW now, NEW G, NEW C, LedgerStep(T, U, now, G, C), TimelyStep(T, U, now, G),
         NEW a, SplitWork(a, T, now), NEW g, a.soldOut => g \notin G,
         EndedCounts(T, a, Makers[g]) /\ SoldOutOf(T, a, g)
  PROVE  EndedCounts(U, a, Makers[g]) /\ SoldOutOf(U, a, g)
<1>1. HasAmounts(T) /\ HasAmounts(U) /\ Keeps(T, U)
  BY LedgerAmounts DEF LedgerStep
<1>2. SettlesAll(T, U) /\ GrowsFrom(T, U, G) /\ LateKeeps(T, U, a.ts)
  BY DEF TimelyStep, SplitWork
<1>3. a.toEnd \subseteq DOMAIN T /\ a.ended \in Nat
  BY DEF SplitWork
<1>4. EndedCounts(U, a, Makers[g])
  BY <1>1, <1>2, <1>3, EndedStays
<1>5. SoldOutOf(U, a, g)
  BY <1>1, <1>2, SoldOutStays
<1> QED BY <1>4, <1>5

-----------------------------------------------------------------------------
(* A producer's own steps: what becomes of its work, and what it counts.      *)

LEMMA OneWorks ==
  ASSUME NEW T, NEW U, NEW now, NEW G, NEW C, LedgerStep(T, U, now, G, C),
         NEW A, Working(A, T, now), Belong(T, A), NEW g \in Gens, G \subseteq {g},
         NEW n, SplitWork(n, U, now), BelongsTo(U, n, g), NEW B, B = [A EXCEPT ![g] = n]
  PROVE  Working(B, U, now) /\ Belong(U, B)
<1>1. DOMAIN B = Gens /\ B[g] = n /\ \A h \in Gens : h # g => B[h] = A[h]
  BY DEF Working
<1>2. ASSUME NEW h \in Gens, h # g PROVE SplitWork(B[h], U, now) /\ BelongsTo(U, B[h], h)
  <2>1. h \notin G /\ SplitWork(A[h], T, now) /\ BelongsTo(T, A[h], h) /\ B[h] = A[h]
    BY <1>1, <1>2 DEF Working, Belong
  <2> QED BY <2>1, IdleWork
<1> QED BY <1>1, <1>2 DEF Working, Belong

LEMMA OneCounts ==
  ASSUME NEW T, NEW U, NEW now, NEW G, NEW C, LedgerStep(T, U, now, G, C), TimelyStep(T, U, now, G),
         NEW A, Working(A, T, now), Counts(T, A), NEW g \in Gens, G \subseteq {g},
         NEW n, EndedCounts(U, n, Makers[g]), SoldOutOf(U, n, g), NEW B, B = [A EXCEPT ![g] = n]
  PROVE  Counts(U, B)
<1>1. B[g] = n /\ \A h \in Gens : h # g => B[h] = A[h]
  BY DEF Working
<1>2. ASSUME NEW h \in Gens, h # g PROVE EndedCounts(U, B[h], Makers[h]) /\ SoldOutOf(U, B[h], h)
  <2>1. /\ h \notin G /\ SplitWork(A[h], T, now) /\ B[h] = A[h]
        /\ EndedCounts(T, A[h], Makers[h]) /\ SoldOutOf(T, A[h], h)
    BY <1>1, <1>2 DEF Working, Counts
  <2> QED BY <2>1, IdleCounts
<1> QED BY <1>1, <1>2 DEF Counts

\* The query finds what is not sold yet, and the rest counts.
LEMMA QueryCounts ==
  ASSUME NEW T, NEW now, SplitLedger(T, now), NEW maker, NEW n, NEW ids, NEW on,
         ids = QueryByUserAndGeneratedTime(T, maker, n.born),
         on = {id \in ids : T[id].status = "generated"},
         n.toEnd = on, n.seen = [id \in on |-> T[id].amount], n.ended = AmountSum(T, ids \ on)
  PROVE  EndedCounts(T, n, maker)
<1>1. EndedOf(T, n, maker) = ids \ on
  BY DEF EndedOf
<1>2. HasAmounts(T) /\ ids \ on \subseteq DOMAIN T
  BY LedgerAmounts DEF QueryByUserAndGeneratedTime
<1>3. AmountSum(T, ids \ on) \in Nat
  BY <1>2, HeldSum
<1>4. n.ended =< AmountSum(T, EndedOf(T, n, maker))
  BY <1>1, <1>3
<1> QED BY <1>4 DEF EndedCounts

\* What is sold or old counts when it is ended.
LEMMA EndingCounts ==
  ASSUME NEW T, HasAmounts(T), NEW a, a.pc = "end", a.ended \in Nat, NEW maker, EndedCounts(T, a, maker),
         NEW id \in a.toEnd, NEW e \in Nat, NEW n, n.pc = "end", n.born = a.born, n.ts = a.ts,
         n.seen = a.seen, n.toEnd = a.toEnd \ {id}, n.ended = a.ended + e,
         e = 0 \/ (e = T[id].amount /\ T[id].status # "generated")
  PROVE  EndedCounts(T, n, maker)
<1> DEFINE S == EndedOf(T, a, maker)
           R == EndedOf(T, n, maker)
           ids == QueryByUserAndGeneratedTime(T, maker, a.born)
<1>1. /\ a.toEnd \subseteq ids /\ a.ended =< AmountSum(T, S)
      /\ \A i \in a.toEnd : Late(T[i], a.ts) => a.seen[i] = T[i].amount
  BY DEF EndedCounts
<1>2. S \subseteq DOMAIN T /\ R \subseteq DOMAIN T /\ id \notin S /\ S \subseteq R /\ id \in DOMAIN T
  BY <1>1 DEF EndedOf, QueryByUserAndGeneratedTime
<1>3. n.ended =< AmountSum(T, R)
  <2>1. AmountSum(T, S) \in Nat /\ AmountSum(T, R) \in Nat
    BY <1>2, HeldSum
  <2>2. CASE e = 0
    <3>1. \A i \in S : T[i].amount =< T[i].amount
      BY <1>2 DEF HasAmounts
    <3> HIDE DEF S, R
    <3>2. AmountSum(T, S) =< AmountSum(T, R)
      BY <1>2, <3>1, HeldGrows
    <3> QED BY <1>1, <2>1, <2>2, <3>2
  <2>3. CASE e = T[id].amount /\ T[id].status # "generated"
    <3>1. id \in R
      BY <1>1, <2>3 DEF EndedOf
    <3>2. S \cup {id} \subseteq R /\ S \cup {id} \subseteq DOMAIN T
      BY <1>2, <3>1
    <3>3. \A i \in S \cup {id} : T[i].amount =< T[i].amount
      BY <3>2 DEF HasAmounts
    <3> HIDE DEF S, R
    <3>4. AmountSum(T, S \cup {id}) =< AmountSum(T, R)
      BY <1>2, <3>2, <3>3, HeldGrows
    <3>5. AmountSum(T, S \cup {id}) = AmountSum(T, S) + T[id].amount
      BY <1>2, HeldPlus
    <3> QED BY <1>1, <2>1, <2>3, <3>4, <3>5
  <2> QED BY <2>2, <2>3
<1>4. n.toEnd \subseteq ids /\ \A i \in n.toEnd : Late(T[i], n.ts) => n.seen[i] = T[i].amount
  BY <1>1
<1> QED BY <1>3, <1>4 DEF EndedCounts

LEMMA SameRoot ==
  ASSUME NEW x, SplitId(x), NEW g, x[1] = g, x[2] = 0
  PROVE  RootOf(x) = <<g, 0>>
<1>1. x \in Seq(IdParts) /\ Len(x) \in Nat /\ Len(x) >= 2
  BY DEF SplitId
<1>2. RootOf(x) = [i \in 1..2 |-> x[i]]
  BY <1>1 DEF RootOf
<1>3. <<g, 0>> = [i \in 1..2 |-> <<g, 0>>[i]]
  OBVIOUS
<1>4. \A i \in 1..2 : x[i] = <<g, 0>>[i]
  OBVIOUS
<1> QED BY <1>2, <1>3, <1>4

\* When all of it is counted, none of it is left.
LEMMA AllIsSold ==
  ASSUME NEW T, NEW now, SplitLedger(T, now), Conserves(T), NEW g \in Gens,
         NEW a, a.tries = 0, BelongsTo(T, a, g), AloneIn(T, a, g),
         a.pc = "end", a.ended = Output[g], EndedCounts(T, a, Makers[g]),
         NEW x \in DOMAIN T, T[x].gen = g, T[x].status = "generated"
  PROVE  FALSE
<1> DEFINE S == EndedOf(T, a, Makers[g])
           r == RootOf(x)
           K == ClassOf(T, r)
<1>1. HasAmounts(T) /\ Output[g] \in Nat \ {0} /\ Output[g] =< AmountSum(T, S)
  BY LedgerAmounts, SplitMarketAssumption DEF EndedCounts
<1>2. \A i \in DOMAIN T : T[i].gen = g => RootOf(i) = <<g, 0>> /\ RootOf(i) \in DOMAIN T
  <2>1. SUFFICES ASSUME NEW i \in DOMAIN T, T[i].gen = g
                 PROVE  RootOf(i) = <<g, 0>> /\ RootOf(i) \in DOMAIN T
    OBVIOUS
  <2>2. SplitId(i) /\ i[1] = g /\ RootOf(i) \in DOMAIN T /\ i[2] =< 0
    BY <2>1 DEF SplitLedger, BelongsTo
  <2>3. i[2] = 0
    BY <2>2 DEF SplitId
  <2> QED BY <2>2, <2>3, SameRoot
<1>3. S \subseteq K /\ S \subseteq DOMAIN T /\ x \in K /\ x \notin S /\ K \subseteq DOMAIN T
  BY <1>2 DEF EndedOf, ClassOf, AloneIn, QueryByUserAndGeneratedTime
<1>4. AmountSum(T, K) = Output[g]
  <2>1. SplitId(x) /\ x[1] = g /\ r \in DOMAIN T
    BY DEF SplitLedger
  <2>2. RootOf(r) = r /\ r[1] = g
    BY <2>1, RootsOf
  <2> QED BY <2>1, <2>2 DEF Conserves
<1>5. S \cup {x} \subseteq K /\ S \cup {x} \subseteq DOMAIN T
      /\ \A i \in S \cup {x} : T[i].amount =< T[i].amount
  BY <1>1, <1>3 DEF HasAmounts
<1> HIDE DEF S, K
<1>6. AmountSum(T, S \cup {x}) =< AmountSum(T, K)
  BY <1>1, <1>3, <1>5, HeldGrows
<1>7. AmountSum(T, S \cup {x}) = AmountSum(T, S) + T[x].amount
  BY <1>1, <1>3, HeldPlus
<1>8. T[x].amount \in Nat \ {0} /\ AmountSum(T, S) \in Nat
  BY <1>1, <1>3, HeldSum DEF SplitLedger, SplitToken
<1> QED BY <1>1, <1>4, <1>6, <1>7, <1>8

-----------------------------------------------------------------------------
(* The steps of the producers.                                                *)

LedgerTypes ==
  /\ clock \in 0..MarketEnd
  /\ SplitLedger(tokens, clock)
  /\ Working(auction, tokens, clock)
  /\ Belong(tokens, auction)

\* The work of the producers goes on from a ledger that is timely and keeps its
\* amounts.
ProducersGoOn ==
  /\ Working(auction', tokens', clock) /\ Belong(tokens', auction')
  /\ late' = 0 /\ TimelyLedger(tokens, clock) /\ Conserves(tokens) /\ Counts(tokens, auction) =>
       Counts(tokens', auction')

LedgerGoesOn(G, C) ==
  /\ LedgerStep(tokens, tokens', clock, G, C)
  /\ late' = 0 /\ TimelyLedger(tokens, clock) => TimelyStep(tokens, tokens', clock, G)
  /\ Conserves(tokens) => Conserves(tokens')

\* Nothing happens to the tokens.
LEMMA LedgerRests ==
  ASSUME LedgerTypes, tokens' = tokens, NEW G, NEW C
  PROVE  LedgerGoesOn(G, C)
<1>1. clock \in Nat /\ SplitLedger(tokens, clock)
  BY SplitMarketAssumption DEF LedgerTypes
<1>2. /\ LedgerStep(tokens, tokens, clock, G, C)
      /\ TimelyLedger(tokens, clock) => TimelyStep(tokens, tokens, clock, G)
  BY <1>1, SameStep
<1> QED BY <1>2 DEF LedgerGoesOn

\* The producers do nothing themselves.
LEMMA ProducersRest ==
  ASSUME LedgerTypes, auction' = auction, NEW C, LedgerGoesOn({}, C)
  PROVE  ProducersGoOn
<1>1. LedgerStep(tokens, tokens', clock, {}, C)
  BY DEF LedgerGoesOn
<1>2. \A h \in Gens : SplitWork(auction[h], tokens', clock) /\ BelongsTo(tokens', auction[h], h)
  <2>1. ASSUME NEW h \in Gens
        PROVE  SplitWork(auction[h], tokens', clock) /\ BelongsTo(tokens', auction[h], h)
    <3>1. h \notin {} /\ SplitWork(auction[h], tokens, clock) /\ BelongsTo(tokens, auction[h], h)
      BY DEF LedgerTypes, Working, Belong
    <3> QED BY <1>1, <3>1, IdleWork
  <2> QED BY <2>1
<1>3. Working(auction', tokens', clock) /\ Belong(tokens', auction')
  BY <1>2 DEF LedgerTypes, Working, Belong
<1>4. ASSUME late' = 0, TimelyLedger(tokens, clock), Counts(tokens, auction) PROVE Counts(tokens', auction')
  <2>1. TimelyStep(tokens, tokens', clock, {})
    BY <1>4 DEF LedgerGoesOn
  <2>2. ASSUME NEW h \in Gens
        PROVE  EndedCounts(tokens', auction[h], Makers[h]) /\ SoldOutOf(tokens', auction[h], h)
    <3>1. h \notin {} /\ SplitWork(auction[h], tokens, clock)
          /\ EndedCounts(tokens, auction[h], Makers[h]) /\ SoldOutOf(tokens, auction[h], h)
      BY <1>4 DEF LedgerTypes, Working, Counts
    <3> QED BY <1>1, <2>1, <3>1, IdleCounts
  <2> QED BY <2>2 DEF Counts
<1> QED BY <1>3, <1>4 DEF ProducersGoOn

\* A producer g has the work n next.
LEMMA ProducerDoes ==
  ASSUME LedgerTypes, NEW g \in Gens, NEW n, auction' = [auction EXCEPT ![g] = n],
         NEW G, G \subseteq {g}, LedgerGoesOn(G, {}),
         SplitWork(n, tokens', clock), BelongsTo(tokens', n, g),
         late' = 0 /\ TimelyLedger(tokens, clock) /\ Conserves(tokens) /\ Counts(tokens, auction) =>
           EndedCounts(tokens', n, Makers[g]) /\ SoldOutOf(tokens', n, g)
  PROVE  ProducersGoOn
<1>1. LedgerStep(tokens, tokens', clock, G, {}) /\ Working(auction, tokens, clock) /\ Belong(tokens, auction)
  BY DEF LedgerGoesOn, LedgerTypes
<1>2. Working(auction', tokens', clock) /\ Belong(tokens', auction')
  BY <1>1, OneWorks
<1>3. ASSUME late' = 0, TimelyLedger(tokens, clock), Conserves(tokens), Counts(tokens, auction)
      PROVE  Counts(tokens', auction')
  <2>1. TimelyStep(tokens, tokens', clock, G)
    BY <1>3 DEF LedgerGoesOn
  <2>2. EndedCounts(tokens', n, Makers[g]) /\ SoldOutOf(tokens', n, g)
    BY <1>3
  <2> QED BY <1>1, <1>3, <2>1, <2>2, OneCounts
<1> QED BY <1>2, <1>3 DEF ProducersGoOn

LEMMA CreateStep ==
  ASSUME LedgerTypes, NEW g \in Gens, Create(g)
  PROVE  LedgerGoesOn({g}, {}) /\ ProducersGoOn
<1> DEFINE a == auction[g]
           born == IF a.tries = 0 THEN clock ELSE a.born
           r == <<g, a.tries>>
<1>1. /\ clock \in Nat /\ SplitLedger(tokens, clock) /\ SplitWork(a, tokens, clock)
      /\ BelongsTo(tokens, a, g)
  BY SplitMarketAssumption DEF LedgerTypes, Working, Belong
<1>2. /\ a.pc = "create" /\ late' = late
      /\ tokens' = CreateToken(tokens, r, g, Makers[g], Output[g], Price, born).tokens
  BY DEF Create
<1>3. a.tries \in Nat /\ born \in 0..clock /\ a.born \in 0..clock /\ a.ts \in 0..clock
      /\ a.ended \in Nat /\ DOMAIN a = WorkFields /\ a.toEnd = {} /\ a.soldOut = FALSE
      /\ \A id \in DOMAIN a.seen : a.seen[id] \in Nat
  BY <1>1, <1>2 DEF SplitWork
<1>4. PICK n : /\ auction' = [auction EXCEPT ![g] = n]
               /\ \/ n = [a EXCEPT !.pc = "wait", !.born = born, !.due = born + AuctionInterval]
                  \/ n = [a EXCEPT !.tries = a.tries + 1, !.born = born]
  BY DEF Create, Produced
<1>5. /\ DOMAIN n = WorkFields /\ n.born = born /\ n.ts = a.ts /\ n.ended = a.ended
      /\ n.toEnd = {} /\ n.seen = a.seen /\ n.soldOut = FALSE
      /\ n.pc \in {"create", "wait"}
      /\ \/ n.pc = "wait" /\ n.tries = a.tries
         \/ n.pc = "create" /\ n.tries = a.tries + 1
  BY <1>2, <1>3, <1>4 DEF WorkFields
<1>6. tokens' = tokens \/ Makes(tokens, tokens', r, g, born)
  BY <1>2, CreateMakes
<1>7. LedgerGoesOn({g}, {})
  <2>1. CASE tokens' = tokens
    BY <2>1, LedgerRests
  <2>2. CASE Makes(tokens, tokens', r, g, born)
    BY <1>1, <1>3, <2>2, MakesStep DEF LedgerGoesOn
  <2> QED BY <1>6, <2>1, <2>2
<1>8. SplitWork(n, tokens', clock)
  <2>1. n.tries \in Nat
    BY <1>3, <1>5
  <2> QED BY <1>3, <1>5, <2>1 DEF SplitWork
<1>9. BelongsTo(tokens', n, g)
  <2>1. SUFFICES ASSUME NEW id \in DOMAIN tokens', tokens'[id].gen = g
                 PROVE  tokens'[id].born = born /\ id[2] =< n.tries /\ (n.pc = "create" => id[2] < n.tries)
    BY <1>5 DEF BelongsTo
  <2>2. CASE id \in DOMAIN tokens
    <3>1. tokens'[id] = tokens[id]
      BY <1>6, <2>2 DEF Makes, Others
    <3>2. tokens[id].born = a.born /\ id[2] < a.tries /\ id[2] \in Nat
      BY <1>1, <1>2, <2>1, <2>2, <3>1 DEF BelongsTo, SplitLedger, SplitId
    <3>3. born = a.born
      BY <1>3, <3>2
    <3> QED BY <1>3, <1>5, <3>1, <3>2, <3>3
  <2>3. CASE id \notin DOMAIN tokens
    <3>1. id = r /\ tokens'[id].born = born
      BY <1>6, <2>1, <2>3 DEF Makes
    <3>2. id[2] = a.tries
      BY <3>1
    <3> QED BY <1>3, <1>5, <3>1, <3>2
  <2> QED BY <2>2, <2>3
<1>10. EndedCounts(tokens', n, Makers[g]) /\ SoldOutOf(tokens', n, g)
  BY <1>5 DEF EndedCounts, SoldOutOf
<1>11. {g} \subseteq {g}
  OBVIOUS
<1> HIDE DEF a, born, r
<1> QED BY <1>4, <1>7, <1>8, <1>9, <1>10, <1>11, ProducerDoes

LEMMA EndQueryStep ==
  ASSUME LedgerTypes, NEW g \in Gens, EndQuery(g)
  PROVE  LedgerGoesOn({}, {}) /\ ProducersGoOn
<1> DEFINE a == auction[g]
           ids == QueryByUserAndGeneratedTime(tokens, Makers[g], a.born)
           on == {id \in ids : tokens[id].status = "generated"}
           seen == [id \in on |-> tokens[id].amount]
<1>1. /\ clock \in Nat /\ SplitLedger(tokens, clock) /\ SplitWork(a, tokens, clock)
      /\ BelongsTo(tokens, a, g)
  BY SplitMarketAssumption DEF LedgerTypes, Working, Belong
<1>2. a.pc = "wait" /\ tokens' = tokens
  BY DEF EndQuery
<1>3. a.tries \in Nat /\ a.born \in 0..clock /\ DOMAIN a = WorkFields /\ a.soldOut = FALSE
  BY <1>1, <1>2 DEF SplitWork
<1> DEFINE sum == AmountSum(tokens, ids \ on)
<1>4. PICK due, n : /\ auction' = [auction EXCEPT ![g] = n]
                    /\ n = [a EXCEPT !.pc = "end", !.ts = clock, !.toEnd = on, !.due = due, !.seen = seen,
                                     !.ended = sum]
  BY DEF EndQuery, Produced, AmountOf, AmountSum
<1>5. /\ DOMAIN n = WorkFields /\ n.pc = "end" /\ n.ts = clock /\ n.toEnd = on /\ n.seen = seen
      /\ n.ended = sum /\ n.tries = a.tries /\ n.born = a.born /\ n.soldOut = FALSE
  <2> HIDE DEF on, seen, sum
  <2> QED BY <1>3, <1>4 DEF WorkFields
<1>6. LedgerGoesOn({}, {})
  BY <1>2, LedgerRests
<1>7. /\ on \subseteq DOMAIN tokens /\ on = DOMAIN seen /\ \A id \in DOMAIN seen : seen[id] \in Nat
      /\ ids \ on \subseteq DOMAIN tokens
  BY <1>1 DEF QueryByUserAndGeneratedTime, SplitLedger, SplitToken
<1>8. sum \in Nat
  <2>1. HasAmounts(tokens)
    BY <1>1, LedgerAmounts
  <2> HIDE DEF ids, on
  <2> QED BY <1>7, <2>1, HeldSum
<1>9. SplitWork(n, tokens', clock)
  <2> HIDE DEF a, ids, on, seen, sum
  <2>1. n.pc \in {"create", "wait", "end", "done"} /\ (n.pc # "end" => n.toEnd = {})
        /\ n.soldOut \in BOOLEAN /\ (n.soldOut => n.pc = "done")
    BY <1>5
  <2>2. n.tries \in Nat /\ n.born \in 0..clock /\ n.ended \in Nat
    BY <1>3, <1>5, <1>8
  <2>3. n.ts \in 0..clock
    BY <1>1, <1>5
  <2>4. n.toEnd \subseteq DOMAIN tokens' /\ n.toEnd \subseteq DOMAIN n.seen
        /\ \A id \in DOMAIN n.seen : n.seen[id] \in Nat
    BY <1>2, <1>5, <1>7
  <2> QED BY <1>5, <2>1, <2>2, <2>3, <2>4 DEF SplitWork
<1>10. BelongsTo(tokens', n, g)
  BY <1>1, <1>2, <1>5 DEF BelongsTo
<1>11. EndedCounts(tokens', n, Makers[g]) /\ SoldOutOf(tokens', n, g)
  <2>1. ids = QueryByUserAndGeneratedTime(tokens, Makers[g], n.born)
    BY <1>5
  <2>2. on = {id \in ids : tokens[id].status = "generated"} /\ n.toEnd = on
        /\ n.seen = [id \in on |-> tokens[id].amount] /\ n.ended = AmountSum(tokens, ids \ on)
    BY <1>5
  <2> HIDE DEF ids, on
  <2>3. EndedCounts(tokens, n, Makers[g])
    BY <1>1, <2>1, <2>2, QueryCounts
  <2> QED BY <1>2, <1>5, <2>3 DEF SoldOutOf
<1>12. {} \subseteq {g}
  OBVIOUS
<1> HIDE DEF a, on, seen, sum
<1> QED BY <1>4, <1>6, <1>9, <1>10, <1>11, <1>12, ProducerDoes

LEMMA EndTokenStep ==
  ASSUME LedgerTypes, NEW g \in Gens, NEW id \in auction[g].toEnd, EndToken(g, id)
  PROVE  LedgerGoesOn({}, {}) /\ ProducersGoOn
<1> DEFINE a == auction[g]
           out == EndAuction(tokens, id, a.ts)
           e == IF out.message \in {"sold", "old"} THEN a.seen[id] ELSE 0
<1>1. /\ clock \in Nat /\ SplitLedger(tokens, clock) /\ SplitWork(a, tokens, clock)
      /\ BelongsTo(tokens, a, g)
  BY SplitMarketAssumption DEF LedgerTypes, Working, Belong
<1>2. /\ a.pc = "end" /\ tokens' = out.tokens
      /\ \/ auction' = auction
         \/ auction' = [auction EXCEPT ![g] = [a EXCEPT !.toEnd = a.toEnd \ {id}, !.ended = a.ended + e]]
  BY DEF EndToken, Produced
<1>3. /\ a.tries \in Nat /\ a.born \in 0..clock /\ a.ts \in 0..clock /\ DOMAIN a = WorkFields
      /\ a.soldOut = FALSE /\ a.ended \in Nat /\ id \in DOMAIN tokens /\ a.seen[id] \in Nat
      /\ a.toEnd \subseteq DOMAIN tokens /\ a.toEnd \subseteq DOMAIN a.seen
      /\ \A i \in DOMAIN a.seen : a.seen[i] \in Nat
  BY <1>1, <1>2 DEF SplitWork
<1>4. SplitToken(tokens[id], clock) /\ a.ts \in Nat
  BY <1>1, <1>3 DEF SplitLedger
<1>5. /\ Ends(tokens, tokens', id, a.ts)
      /\ out.message \in {"sold", "old"} => Late(tokens[id], a.ts) /\ tokens'[id].status # "generated"
  <2>1. out = EndAuction(tokens, id, a.ts)
    OBVIOUS
  <2> HIDE DEF out, a
  <2> QED BY <1>1, <1>2, <1>3, <1>4, <2>1, EndAuctionEnds
<1> HIDE DEF out
<1>6. LedgerGoesOn({}, {})
  BY <1>1, <1>3, <1>5, EndsStep DEF LedgerGoesOn
<1>7. CASE auction' = auction
  BY <1>6, <1>7, ProducersRest
<1>8. CASE auction' = [auction EXCEPT ![g] = [a EXCEPT !.toEnd = a.toEnd \ {id}, !.ended = a.ended + e]]
  <2>1. PICK n : n = [a EXCEPT !.toEnd = a.toEnd \ {id}, !.ended = a.ended + e]
    OBVIOUS
  <2>2. e \in Nat
    BY <1>3
  <2>3. /\ DOMAIN n = WorkFields /\ n.pc = "end" /\ n.ts = a.ts /\ n.toEnd = a.toEnd \ {id} /\ n.seen = a.seen
        /\ n.ended = a.ended + e /\ n.tries = a.tries /\ n.born = a.born /\ n.soldOut = FALSE
    <3> HIDE DEF e
    <3> QED BY <1>2, <1>3, <2>1 DEF WorkFields
  <2>4. SplitLedger(tokens', clock) /\ DOMAIN tokens' = DOMAIN tokens
    BY <1>5, <1>6 DEF LedgerGoesOn, LedgerStep, Ends
  <2>5. SplitWork(n, tokens', clock)
    <3> HIDE DEF e
    <3>1. n.ended \in Nat
      BY <1>3, <2>2, <2>3
    <3>2. n.toEnd \subseteq DOMAIN tokens' /\ n.toEnd \subseteq DOMAIN n.seen
      BY <1>3, <2>3, <2>4
    <3> QED BY <1>3, <2>3, <3>1, <3>2 DEF SplitWork
  <2>6. BelongsTo(tokens', n, g)
    <3>1. g \notin {} /\ LedgerStep(tokens, tokens', clock, {}, {})
      BY <1>6 DEF LedgerGoesOn
    <3>2. BelongsTo(tokens', a, g)
      BY <1>1, <3>1, IdleWork
    <3> QED BY <1>2, <2>3, <3>2 DEF BelongsTo
  <2>7. ASSUME late' = 0, TimelyLedger(tokens, clock), Counts(tokens, auction)
        PROVE  EndedCounts(tokens', n, Makers[g]) /\ SoldOutOf(tokens', n, g)
    <3>1. LedgerStep(tokens, tokens', clock, {}, {}) /\ TimelyStep(tokens, tokens', clock, {}) /\ g \notin {}
      BY <1>6, <2>7 DEF LedgerGoesOn
    <3>2. EndedCounts(tokens, a, Makers[g]) /\ SoldOutOf(tokens, a, g)
      BY <2>7 DEF Counts
    <3>3. EndedCounts(tokens', a, Makers[g])
      BY <1>1, <3>1, <3>2, IdleCounts
    <3>4. e = 0 \/ (e = tokens'[id].amount /\ tokens'[id].status # "generated")
      <4>1. tokens'[id].amount = tokens[id].amount
        BY <1>5 DEF Ends, EndsAs
      <4>2. Late(tokens[id], a.ts) => a.seen[id] = tokens[id].amount
        BY <1>2, <3>2 DEF EndedCounts
      <4> QED BY <1>5, <4>1, <4>2
    <3>5. HasAmounts(tokens')
      BY <2>4, LedgerAmounts
    <3> HIDE DEF e
    <3>6. EndedCounts(tokens', n, Makers[g])
      BY <1>2, <1>3, <2>2, <2>3, <3>3, <3>4, <3>5, EndingCounts
    <3> QED BY <2>3, <3>6 DEF SoldOutOf
  <2>8. {} \subseteq {g} /\ auction' = [auction EXCEPT ![g] = n]
    BY <1>8, <2>1
  <2> HIDE DEF e, a
  <2> QED BY <1>6, <2>5, <2>6, <2>7, <2>8, ProducerDoes
<1> QED BY <1>2, <1>6, <1>7, <1>8

LEMMA EndSumStep ==
  ASSUME LedgerTypes, NEW g \in Gens, EndSum(g)
  PROVE  LedgerGoesOn({}, {}) /\ ProducersGoOn
<1> DEFINE a == auction[g]
           calls == a.calls + 1
           over == SoldOut(g) \/ calls >= TokenLife \div AuctionInterval
           pc == IF over THEN "done" ELSE "wait"
           sold == SoldOut(g)
<1>1. /\ clock \in Nat /\ SplitLedger(tokens, clock) /\ SplitWork(a, tokens, clock)
      /\ BelongsTo(tokens, a, g)
  BY SplitMarketAssumption DEF LedgerTypes, Working, Belong
<1>2. /\ a.pc = "end" /\ a.toEnd = {} /\ tokens' = tokens
      /\ auction' = [auction EXCEPT ![g] = [a EXCEPT !.pc = pc, !.calls = calls, !.soldOut = sold,
                                                     !.ended = 0, !.seen = <<>>, !.ts = 0]]
  BY DEF EndSum, Produced
<1>3. a.tries \in Nat /\ a.born \in 0..clock /\ DOMAIN a = WorkFields
  BY <1>1 DEF SplitWork
<1>4. sold \in BOOLEAN /\ (sold => a.ended = Output[g] /\ pc = "done") /\ pc \in {"wait", "done"}
  BY DEF SoldOut
<1> HIDE DEF sold, pc, calls
<1>5. PICK n : n = [a EXCEPT !.pc = pc, !.calls = calls, !.soldOut = sold,
                             !.ended = 0, !.seen = <<>>, !.ts = 0]
  OBVIOUS
<1>6. /\ DOMAIN n = WorkFields /\ n.pc = pc /\ n.ts = 0 /\ n.toEnd = {} /\ n.seen = <<>> /\ n.ended = 0
      /\ n.tries = a.tries /\ n.born = a.born /\ n.soldOut = sold
  BY <1>2, <1>3, <1>5 DEF WorkFields
<1>7. LedgerGoesOn({}, {})
  BY <1>2, LedgerRests
<1>8. SplitWork(n, tokens', clock)
  <2>1. 0 \in 0..clock /\ DOMAIN <<>> = {}
    BY <1>1
  <2> QED BY <1>3, <1>4, <1>6, <2>1 DEF SplitWork
<1>9. BelongsTo(tokens', n, g)
  BY <1>1, <1>2, <1>4, <1>6 DEF BelongsTo
<1>10. ASSUME Conserves(tokens), Counts(tokens, auction)
       PROVE  EndedCounts(tokens', n, Makers[g]) /\ SoldOutOf(tokens', n, g)
  <2>1. EndedCounts(tokens', n, Makers[g])
    BY <1>4, <1>6 DEF EndedCounts
  <2>2. SUFFICES ASSUME n.soldOut, n.tries = 0, AloneIn(tokens, n, g),
                        NEW x \in DOMAIN tokens, tokens[x].gen = g, tokens[x].status = "generated"
                 PROVE  FALSE
    BY <1>2, <2>1 DEF SoldOutOf
  <2>3. a.tries = 0 /\ AloneIn(tokens, a, g) /\ a.ended = Output[g] /\ EndedCounts(tokens, a, Makers[g])
    BY <1>4, <1>6, <1>10, <2>2 DEF AloneIn, Counts
  <2> QED BY <1>1, <1>2, <1>10, <2>2, <2>3, AllIsSold
<1>11. {} \subseteq {g} /\ auction' = [auction EXCEPT ![g] = n]
  BY <1>2, <1>5
<1> HIDE DEF a
<1> QED BY <1>7, <1>8, <1>9, <1>10, <1>11, ProducerDoes

-----------------------------------------------------------------------------
(* The consumers: b is the round of the consumer c.                            *)

BuyFields == {"pc", "charged", "left", "valid", "asked", "success", "bids", "first", "last", "due",
              "early"}

\* What a search finds, and the bids and the successes there can be.
Finds(T, now) == [id : DOMAIN T, amount : Nat \ {0}, price : {Price}, started : 0..now]
GoodBid(x, T, now) ==
  /\ x.n \in Nat /\ x.id \in DOMAIN T /\ x.price = Price /\ x.amount \in Nat \ {0}
  /\ x.started \in 0..now /\ x.ts \in 0..now
GoodSuccess(x, now) == x.n \in Nat /\ x.started \in 0..now /\ x.ts \in 0..now

AskedFor(A) == [x \in A |-> x.amount]
AskedSum(A) == Total(AskedFor(A), A)

\* The bids under way ask for no more than what is left.
Asks(A, T, now, left) ==
  /\ IsFiniteSet(A) /\ \A x \in A : GoodBid(x, T, now)
  /\ AskedSum(A) <= left

SplitBuy(b, T, now) ==
  /\ DOMAIN b = BuyFields
  /\ b.pc \in {"ask", "bid", "check", "done"}
  /\ b.charged \in Nat /\ b.left \in Nat /\ b.bids \in Nat
  /\ b.first \in Nat /\ b.last \in Nat /\ b.due \in Nat
  /\ b.early \in BOOLEAN
  /\ b.valid \in Seq(Finds(T, now))
  /\ Asks(b.asked, T, now, b.left)
  /\ \A x \in b.success : GoodSuccess(x, now)
  /\ b.pc # "bid" => b.asked = {} /\ b.success = {}
Consuming(B, T, now) == DOMAIN B = Bidders /\ \A c \in Bidders : SplitBuy(B[c], T, now)

\* What c has counted it owns, and bid for before the time t; what is bid for or
\* counted next comes later.
OwnedBefore(T, c, t) ==
  {id \in DOMAIN T : T[id].owner = c /\ T[id].status = "sold" /\ T[id].bidTime < t}
ChargedBefore(T, b, c, t) ==
  /\ \A x \in b.asked \cup b.success : t <= x.ts
  /\ b.pc = "check" => t <= b.first
  /\ b.charged <= AmountSum(T, OwnedBefore(T, c, t))
Owns(T, b, c, now) == \E t \in 0..now : ChargedBefore(T, b, c, t)
Owning(B, T, now) == \A c \in Bidders : Owns(T, B[c], c, now)

\* What c has bought since the time t, where its round began, is within its goal
\* together with what it has counted and what is left to ask for.
Bought(T, c, t) ==
  {id \in DOMAIN T : T[id].owner = c /\ T[id].producer # c /\ t <= T[id].bidTime}
RoundFits(T, b, c, t) ==
  LET sum == AmountSum(T, Bought(T, c, t)) IN
  /\ \A x \in b.asked \cup b.success : t <= x.ts
  /\ b.pc \in {"ask", "done"} => b.charged <= Goals[c]
  /\ b.pc = "ask" => Bought(T, c, t) = {}
  /\ b.pc = "bid" =>
       /\ b.charged + sum + b.left <= Goals[c]
       /\ \A id \in Bought(T, c, t) : \E x \in b.success : x.ts = T[id].bidTime
  /\ b.pc = "check" =>
       /\ b.charged + sum <= Goals[c]
       /\ t <= b.first /\ b.last < b.due
       /\ \A id \in Bought(T, c, t) : T[id].bidTime <= b.last
WithinGoal(T, b, c, now) == ~b.early => \E t \in 0..now : RoundFits(T, b, c, t)
Fitting(B, T, now) == \A c \in Bidders : WithinGoal(T, B[c], c, now)

LEMMA FindsGrow ==
  ASSUME NEW T, NEW U, DOMAIN T \subseteq DOMAIN U, NEW now \in Nat, NEW later \in Nat, now <= later,
         NEW s \in Seq(Finds(T, now))
  PROVE  s \in Seq(Finds(U, later))
<1>1. Finds(T, now) \subseteq Finds(U, later)
  BY DEF Finds
<1> DEFINE S == Finds(T, now)
           R == Finds(U, later)
<1>2. S \subseteq R /\ s \in Seq(S)
  BY <1>1
<1> HIDE DEF S, R
<1>3. s \in Seq(R)
  BY <1>2
<1> QED BY <1>3 DEF R

LEMMA BuyStays ==
  ASSUME NEW T, NEW U, DOMAIN T \subseteq DOMAIN U, NEW now \in Nat, NEW later \in Nat, now <= later,
         NEW b, SplitBuy(b, T, now)
  PROVE  SplitBuy(b, U, later)
<1>1. \A x : GoodBid(x, T, now) => GoodBid(x, U, later)
  BY DEF GoodBid
<1>2. \A x : GoodSuccess(x, now) => GoodSuccess(x, later)
  BY DEF GoodSuccess
<1>3. Asks(b.asked, U, later, b.left)
  BY <1>1 DEF SplitBuy, Asks
<1>4. b.valid \in Seq(Finds(U, later))
  BY FindsGrow DEF SplitBuy
<1> QED BY <1>2, <1>3, <1>4 DEF SplitBuy

\* What is sold stays with its owner.
LEMMA OwnsStays ==
  ASSUME NEW T, NEW U, HasAmounts(T), HasAmounts(U), Keeps(T, U), SettlesAll(T, U),
         NEW b, NEW c, NEW now, b.charged \in Nat, Owns(T, b, c, now)
  PROVE  Owns(U, b, c, now)
<1>1. PICK t \in 0..now : ChargedBefore(T, b, c, t)
  BY DEF Owns
<1> DEFINE S == OwnedBefore(T, c, t)
           R == OwnedBefore(U, c, t)
<1>2. /\ \A x \in b.asked \cup b.success : t <= x.ts
      /\ b.pc = "check" => t <= b.first
      /\ b.charged <= AmountSum(T, S)
  BY <1>1 DEF ChargedBefore
<1>3. S \subseteq DOMAIN T /\ R \subseteq DOMAIN U
  BY DEF OwnedBefore
<1>4. S \subseteq R /\ \A id \in S : U[id].amount = T[id].amount
  BY DEF OwnedBefore, Keeps, SettlesAll, Settles
<1>5. \A id \in S : T[id].amount <= U[id].amount
  BY <1>3, <1>4 DEF HasAmounts
<1> HIDE DEF S, R
<1>6. AmountSum(T, S) <= AmountSum(U, R)
  BY <1>3, <1>4, <1>5, HeldGrows
<1>7. AmountSum(T, S) \in Nat /\ AmountSum(U, R) \in Nat
  BY <1>3, HeldSum
<1>8. b.charged <= AmountSum(U, R)
  BY <1>2, <1>6, <1>7
<1>9. ChargedBefore(U, b, c, t)
  BY <1>2, <1>8 DEF ChargedBefore, R
<1> QED BY <1>9 DEF Owns

\* The tokens of a consumer that does not bid get fewer and smaller.
LEMMA FitsStays ==
  ASSUME NEW T, NEW U, HasAmounts(T), HasAmounts(U), NEW b, NEW c \in Bidders, Shrinks(T, U, c), NEW now,
         b.charged \in Nat, b.left \in Nat, WithinGoal(T, b, c, now)
  PROVE  WithinGoal(U, b, c, now)
<1> SUFFICES ASSUME ~b.early PROVE \E t \in 0..now : RoundFits(U, b, c, t)
  BY DEF WithinGoal
<1>1. PICK t \in 0..now : RoundFits(T, b, c, t)
  BY DEF WithinGoal
<1> DEFINE S == Bought(T, c, t)
           R == Bought(U, c, t)
           have == AmountSum(T, S)
           has == AmountSum(U, R)
<1>2. S \subseteq DOMAIN T /\ R \subseteq DOMAIN U
  BY DEF Bought
<1>3. \A id \in R : id \in S /\ U[id].amount <= T[id].amount /\ U[id].bidTime = T[id].bidTime
  BY DEF Bought, Shrinks
<1>4. /\ \A x \in b.asked \cup b.success : t <= x.ts
      /\ b.pc \in {"ask", "done"} => b.charged <= Goals[c]
      /\ b.pc = "ask" => S = {}
      /\ b.pc = "bid" => /\ b.charged + have + b.left <= Goals[c]
                         /\ \A id \in S : \E x \in b.success : x.ts = T[id].bidTime
      /\ b.pc = "check" => /\ b.charged + have <= Goals[c]
                           /\ t <= b.first /\ b.last < b.due
                           /\ \A id \in S : T[id].bidTime <= b.last
  BY <1>1 DEF RoundFits
<1> HIDE DEF S, R
<1>5. have \in Nat /\ has \in Nat
  BY <1>2, HeldSum
<1>6. has <= have
  <2>1. R \subseteq DOMAIN T
    BY <1>2, <1>3
  <2>2. \A id \in R : U[id].amount <= T[id].amount
    BY <1>3
  <2>3. R \subseteq S
    BY <1>3
  <2>4. IsFiniteSet(DOMAIN T)
    BY DEF HasAmounts
  <2>5. AmountSum(U, R) <= AmountSum(T, S)
    BY <1>2, <2>2, <2>3, HeldGrows
  <2> QED BY <2>5
<1> HIDE DEF have, has
<1>7. Goals[c] \in Nat
  BY SplitMarketAssumption
<1>8. /\ b.pc = "ask" => R = {}
      /\ b.pc = "bid" => \A id \in R : \E x \in b.success : x.ts = U[id].bidTime
      /\ b.pc = "check" => \A id \in R : U[id].bidTime <= b.last
  BY <1>3, <1>4
<1>9. /\ b.pc = "bid" => b.charged + has + b.left <= Goals[c]
      /\ b.pc = "check" => b.charged + has <= Goals[c]
  BY <1>4, <1>5, <1>6, <1>7
<1>10. RoundFits(U, b, c, t)
  BY <1>4, <1>8, <1>9 DEF RoundFits, R, has
<1> QED BY <1>10

\* The rounds of the consumers go on.
ConsumersGoOn ==
  /\ Consuming(buying', tokens', clock)
  /\ late' = 0 /\ TimelyLedger(tokens, clock) /\ Owning(buying, tokens, clock) =>
       Owning(buying', tokens', clock)
  /\ late' = 0 /\ lost' = 0 /\ TimelyLedger(tokens, clock) /\ Fitting(buying, tokens, clock) =>
       Fitting(buying', tokens', clock)

MarketTypes == LedgerTypes /\ Consuming(buying, tokens, clock) /\ lost \in Nat /\ late \in Nat

LEMMA LedgersAdd ==
  ASSUME NEW T, NEW U, NEW now, NEW G, NEW C, LedgerStep(T, U, now, G, C)
  PROVE  /\ now \in Nat /\ HasAmounts(T) /\ HasAmounts(U) /\ Keeps(T, U) /\ DOMAIN T \subseteq DOMAIN U
         /\ \A c \in Bidders \ C : Shrinks(T, U, c)
<1>1. /\ now \in Nat /\ SplitLedger(T, now) /\ SplitLedger(U, now) /\ Keeps(T, U)
      /\ \A c \in Bidders \ C : Shrinks(T, U, c)
  BY DEF LedgerStep
<1>2. HasAmounts(T) /\ HasAmounts(U)
  BY <1>1, LedgerAmounts
<1> QED BY <1>1, <1>2 DEF Keeps

\* The consumers do nothing themselves, but for a bid whose answer is lost.
LEMMA ConsumersRest ==
  ASSUME MarketTypes, buying' = buying, NEW G, NEW C, LedgerGoesOn(G, C), C = {} \/ lost' # 0
  PROVE  ConsumersGoOn
<1>1. LedgerStep(tokens, tokens', clock, G, C)
  BY DEF LedgerGoesOn
<1>2. /\ clock \in Nat /\ HasAmounts(tokens) /\ HasAmounts(tokens') /\ Keeps(tokens, tokens')
      /\ DOMAIN tokens \subseteq DOMAIN tokens'
      /\ \A c \in Bidders \ C : Shrinks(tokens, tokens', c)
  BY <1>1, LedgersAdd
<1>3. DOMAIN buying = Bidders /\ \A c \in Bidders : SplitBuy(buying[c], tokens, clock)
  BY DEF MarketTypes, Consuming
<1>4. \A c \in Bidders : SplitBuy(buying[c], tokens', clock)
  BY <1>2, <1>3, BuyStays
<1>5. Consuming(buying', tokens', clock)
  BY <1>3, <1>4 DEF Consuming
<1>6. \A c \in Bidders : buying[c].charged \in Nat /\ buying[c].left \in Nat
  BY <1>3 DEF SplitBuy
<1>7. ASSUME late' = 0, TimelyLedger(tokens, clock), Owning(buying, tokens, clock)
      PROVE  Owning(buying', tokens', clock)
  <2>1. SettlesAll(tokens, tokens')
    BY <1>7 DEF LedgerGoesOn, TimelyStep
  <2>2. \A c \in Bidders : Owns(tokens', buying[c], c, clock)
    <3>1. SUFFICES ASSUME NEW c \in Bidders PROVE Owns(tokens', buying[c], c, clock)
      OBVIOUS
    <3>2. Owns(tokens, buying[c], c, clock)
      BY <1>7 DEF Owning
    <3> QED BY <1>2, <1>6, <2>1, <3>2, OwnsStays
  <2> QED BY <2>2 DEF Owning
<1>8. ASSUME late' = 0, lost' = 0, Fitting(buying, tokens, clock)
      PROVE  Fitting(buying', tokens', clock)
  <2>1. \A c \in Bidders : WithinGoal(tokens', buying[c], c, clock)
    <3>1. SUFFICES ASSUME NEW c \in Bidders PROVE WithinGoal(tokens', buying[c], c, clock)
      OBVIOUS
    <3>2. WithinGoal(tokens, buying[c], c, clock)
      BY <1>8 DEF Fitting
    <3>3. Shrinks(tokens, tokens', c)
      BY <1>2, <1>8
    <3> QED BY <1>2, <1>6, <3>2, <3>3, FitsStays
  <2> QED BY <2>1 DEF Fitting
<1> QED BY <1>5, <1>7, <1>8 DEF ConsumersGoOn

\* One consumer c goes on to the round n.
LEMMA ConsumerDoes ==
  ASSUME MarketTypes, NEW c \in Bidders, NEW n, buying' = [buying EXCEPT ![c] = n],
         NEW G, NEW C, C \subseteq {c}, LedgerGoesOn(G, C), SplitBuy(n, tokens', clock),
         late' = 0 /\ TimelyLedger(tokens, clock) /\ Owns(tokens, buying[c], c, clock) =>
           Owns(tokens', n, c, clock),
         late' = 0 /\ lost' = 0 /\ TimelyLedger(tokens, clock) /\ WithinGoal(tokens, buying[c], c, clock) =>
           WithinGoal(tokens', n, c, clock)
  PROVE  ConsumersGoOn
<1>1. LedgerStep(tokens, tokens', clock, G, C)
  BY DEF LedgerGoesOn
<1>2. /\ clock \in Nat /\ HasAmounts(tokens) /\ HasAmounts(tokens') /\ Keeps(tokens, tokens')
      /\ DOMAIN tokens \subseteq DOMAIN tokens'
      /\ \A d \in Bidders \ C : Shrinks(tokens, tokens', d)
  BY <1>1, LedgersAdd
<1>3. DOMAIN buying = Bidders /\ \A d \in Bidders : SplitBuy(buying[d], tokens, clock)
  BY DEF MarketTypes, Consuming
<1>4. /\ DOMAIN buying' = Bidders /\ buying'[c] = n
      /\ \A d \in Bidders : d # c => buying'[d] = buying[d]
  BY <1>3
<1>5. \A d \in Bidders : SplitBuy(buying[d], tokens', clock)
  BY <1>2, <1>3, BuyStays
<1>6. Consuming(buying', tokens', clock)
  BY <1>4, <1>5 DEF Consuming
<1>7. \A d \in Bidders : buying[d].charged \in Nat /\ buying[d].left \in Nat
  BY <1>3 DEF SplitBuy
<1>8. ASSUME late' = 0, TimelyLedger(tokens, clock), Owning(buying, tokens, clock)
      PROVE  Owning(buying', tokens', clock)
  <2>1. SettlesAll(tokens, tokens')
    BY <1>8 DEF LedgerGoesOn, TimelyStep
  <2>2. ASSUME NEW d \in Bidders PROVE Owns(tokens', buying'[d], d, clock)
    <3>1. Owns(tokens, buying[d], d, clock)
      BY <1>8 DEF Owning
    <3>2. CASE d = c
      BY <1>4, <1>8, <3>1, <3>2
    <3>3. CASE d # c
      <4>1. Owns(tokens', buying[d], d, clock)
        BY <1>2, <1>7, <2>1, <3>1, OwnsStays
      <4> QED BY <1>4, <3>3, <4>1
    <3> QED BY <3>2, <3>3
  <2> QED BY <2>2 DEF Owning
<1>9. ASSUME late' = 0, lost' = 0, TimelyLedger(tokens, clock), Fitting(buying, tokens, clock)
      PROVE  Fitting(buying', tokens', clock)
  <2>1. ASSUME NEW d \in Bidders PROVE WithinGoal(tokens', buying'[d], d, clock)
    <3>1. WithinGoal(tokens, buying[d], d, clock)
      BY <1>9 DEF Fitting
    <3>2. CASE d = c
      BY <1>4, <1>9, <3>1, <3>2
    <3>3. CASE d # c
      <4>1. Shrinks(tokens, tokens', d)
        BY <1>2, <3>3
      <4>2. WithinGoal(tokens', buying[d], d, clock)
        BY <1>2, <1>7, <3>1, <4>1, FitsStays
      <4> QED BY <1>4, <3>3, <4>2
    <3> QED BY <3>2, <3>3
  <2> QED BY <2>1 DEF Fitting
<1> QED BY <1>6, <1>8, <1>9 DEF ConsumersGoOn

-----------------------------------------------------------------------------
(* What is asked for.                                                         *)

\* The bid of the round b on the n-th token found, for the amount r.
BidFor(b, n, r, now) ==
  [n |-> b.bids + n, id |-> b.valid[n].id, price |-> b.valid[n].price, amount |-> r,
   started |-> b.valid[n].started, ts |-> now]

BidsFor(b, k, r, now) == {BidFor(b, n, r[n], now) : n \in 1..k}

\* Bids with numbers of their own add up to the sums of the amounts.
LEMMA BidsAddUp ==
  ASSUME NEW b, b.bids \in Nat, NEW now, NEW k \in Nat, NEW r \in [1..k -> Nat],
         NEW A, A = BidsFor(b, k, r, now), NEW h, Sums(h, k, r)
  PROVE  IsFiniteSet(A) /\ AskedSum(A) = h[k]
<1> DEFINE list == [n \in 1..k |-> BidFor(b, n, r[n], now)]
           f == AskedFor(A)
<1>1. /\ \A n \in 1..k : list[n] = BidFor(b, n, r[n], now)
      /\ \A n \in 1..k : list[n].n = b.bids + n /\ list[n].amount = r[n]
  BY DEF BidFor
<1>2. A = {list[n] : n \in 1..k} /\ list \in [1..k -> A] /\ DOMAIN list = 1..k
  BY <1>1 DEF BidsFor
<1> HIDE DEF list
<1>3. IsFiniteSet(A)
  <2>1. IsFiniteSet(1..k)
    BY CountUpTo
  <2>2. list \in Surjection(1..k, A)
    BY <1>2 DEF Surjection
  <2> QED BY <2>1, <2>2, FS_Surjection
<1>4. EachOnce(list, k)
  <2>1. ASSUME NEW i \in 1..k, NEW j \in 1..k, list[i] = list[j] PROVE i = j
    <3>1. b.bids + i = b.bids + j
      BY <1>1, <2>1
    <3> QED BY <3>1
  <2> QED BY <2>1 DEF EachOnce
<1>5. \A n \in 1..k : f[list[n]] = r[n]
  BY <1>1, <1>2 DEF AskedFor
<1> HIDE DEF f
<1>6. Summable(f, A)
  <2>1. ASSUME NEW x \in A PROVE f[x] \in Nat
    <3>1. PICK n \in 1..k : x = list[n]
      BY <1>2
    <3>2. f[x] = r[n] /\ r[n] \in Nat
      BY <1>5, <3>1
    <3> QED BY <3>2
  <2> QED BY <1>3, <2>1 DEF Summable
<1>7. r = [n \in 1..k |-> f[list[n]]]
  BY <1>5
<1>8. ListAdds(f, list, k, h)
  BY <1>2, <1>4, <1>6, <1>7, ListAddsUp
<1>9. Total(f, {list[n] : n \in 1..k}) = h[k]
  BY <1>8 DEF ListAdds
<1>10. Total(f, A) = h[k]
  BY <1>2, <1>9
<1> QED BY <1>3, <1>10 DEF AskedSum, f

\* What is left for the n-th token, from the sums of the amounts.
LEMMA LeftSums ==
  ASSUME NEW b, b.left \in Nat, NEW L \in Nat, NEW a \in [1..L -> Nat], \A n \in 1..L : a[n] = b.valid[n].amount,
         NEW g, Sums(g, L, a), NEW n \in 1..L
  PROVE  LeftFor(b, n) = b.left - g[n - 1]
<1> DEFINE q == b.valid
           i == n - 1
           f == [m \in 1..i |-> q[m].amount]
<1>1. i \in 0..L /\ \A m \in 1..i : m \in 1..L
  OBVIOUS
<1>2. \A m \in 1..i : f[m] = a[m] /\ f[m] \in Nat
  BY <1>1
<1>3. i \in Nat
  BY <1>1
<1>4. LeftFor(b, n) = b.left - AmountSum(q, 1..i)
  BY DEF LeftFor, AmountSum
<1> HIDE DEF i
<1>5. Summable(f, 1..i)
  BY <1>2, <1>3, CountUpTo DEF Summable
<1>6. AmountSum(q, 1..i) = Total(f, 1..i)
  BY <1>5, AmountTotal
<1> HIDE DEF f
<1>7. Total(f, 1..i) = Total(a, 1..i)
  BY <1>2, <1>5, TotalSame
<1>8. Total(a, 1..i) = g[i]
  BY <1>1, FirstOnesAddUp
<1> QED BY <1>4, <1>6, <1>7, <1>8 DEF i

\* The bids are on the first tokens found, and for no more than is left.
LEMMA AskFits ==
  ASSUME clock \in Nat, NEW T, NEW b, b.left \in Nat \ {0}, b.bids \in Nat,
         b.valid \in Seq(Finds(T, clock))
  PROVE  \E k, A, v :
           /\ k \in Nat
           /\ Ask(b) = [b EXCEPT !.asked = A, !.valid = v, !.bids = b.bids + k]
           /\ Asks(A, T, clock, b.left) /\ \A x \in A : x.ts = clock
           /\ v \in Seq(Finds(T, clock))
<1> DEFINE q == b.valid
           L == Len(q)
           left == b.left
           a == [n \in 1..L |-> q[n].amount]
<1>1. L \in Nat /\ DOMAIN q = 1..L /\ \A n \in 1..L : q[n] \in Finds(T, clock)
  OBVIOUS
<1>2. \A n \in 1..L : /\ q[n].id \in DOMAIN T /\ q[n].amount \in Nat \ {0}
                      /\ q[n].price = Price /\ q[n].started \in 0..clock
  BY <1>1 DEF Finds
<1>3. a \in [1..L -> Nat \ {0}] /\ a \in [1..L -> Nat] /\ \A n \in 1..L : a[n] = q[n].amount
  BY <1>2
<1> HIDE DEF a
<1>4. PICK g : Sums(g, L, a)
  <2> HIDE DEF L
  <2> QED BY <1>1, <1>3, SumsExist
<1>5. \A n \in 1..L : LeftFor(b, n) = left - g[n - 1]
  <2>1. SUFFICES ASSUME NEW n \in 1..L PROVE LeftFor(b, n) = b.left - g[n - 1]
    OBVIOUS
  <2>2. \A m \in 1..L : a[m] = b.valid[m].amount
    BY <1>3
  <2>3. b.left \in Nat /\ L \in Nat
    BY <1>1
  <2> HIDE DEF L
  <2> QED BY <1>3, <1>4, <2>2, <2>3, LeftSums
<1>6. g \in [0..L -> Nat]
  BY <1>4 DEF Sums
<1>7. Needed(b) = {n \in 1..L : g[n - 1] < left}
  <2>1. \A n \in 1..L : n - 1 \in 0..L
    BY <1>1
  <2>2. \A n \in 1..L : g[n - 1] \in Nat
    BY <1>6, <2>1
  <2>3. \A n \in 1..L : LeftFor(b, n) > 0 <=> g[n - 1] < left
    BY <1>5, <2>2
  <2> HIDE DEF L, left
  <2> QED BY <1>1, <2>3 DEF Needed
<1>8. left \in Nat \ {0}
  OBVIOUS
<1> HIDE DEF L, left
<1>9. PICK k \in 0..L : /\ {n \in 1..L : g[n - 1] < left} = 1..k
                        /\ Cardinality({n \in 1..L : g[n - 1] < left}) = k
                        /\ Reaches(k, L, g, left)
  BY <1>1, <1>3, <1>4, <1>8, FirstPlaces
<1> DEFINE r == CutList(k, a, g, left)
<1>10. Needed(b) = 1..k /\ Cardinality(Needed(b)) = k /\ k \in Nat
  BY <1>1, <1>7, <1>9
<1>11. Fits(r, k, L, a, g, left)
  <2>1. r = CutList(k, a, g, left)
    OBVIOUS
  <2> HIDE DEF r
  <2> QED BY <1>1, <1>3, <1>4, <1>8, <1>9, <2>1, CutToFit
<1>12. \A n \in 1..k : n \in 1..L /\ n - 1 \in 0..L /\ n - 1 < k
  BY <1>1
<1>13. \A n \in 1..k : g[n - 1] \in Nat /\ g[n - 1] < left
  BY <1>6, <1>9, <1>12 DEF Reaches
<1>14. \A n \in 1..k : r[n] = Min({q[n].amount, LeftFor(b, n)})
  <2>1. SUFFICES ASSUME NEW n \in 1..k PROVE r[n] = Min({q[n].amount, LeftFor(b, n)})
    OBVIOUS
  <2> DEFINE d == left - g[n - 1]
  <2>2. d \in Nat /\ q[n].amount \in Nat /\ a[n] = q[n].amount
    <3>1. n \in 1..L /\ g[n - 1] \in Nat /\ g[n - 1] < left
      BY <1>12, <1>13
    <3>2. q[n].amount \in Nat /\ a[n] = q[n].amount
      BY <1>2, <1>3, <3>1
    <3>3. d \in Nat
      BY <1>8, <3>1
    <3> QED BY <3>2, <3>3
  <2>3. r[n] = IF a[n] < d THEN a[n] ELSE d
    BY DEF CutList
  <2>4. LeftFor(b, n) = d
    BY <1>5, <1>12
  <2> HIDE DEF d, r
  <2>5. Min({q[n].amount, d}) = IF q[n].amount < d THEN q[n].amount ELSE d
    BY <2>2, SmallerOf
  <2> QED BY <2>2, <2>3, <2>4, <2>5
<1> HIDE DEF r
<1>15. \A n \in 1..k : r[n] \in Nat \ {0}
  <2>1. \A n \in 1..k : r[n] \in 1..a[n]
    BY <1>11 DEF Fits
  <2> QED BY <1>3, <1>12, <2>1
<1>16. PICK h : Sums(h, k, r) /\ h[k] = IF g[L] < left THEN g[L] ELSE left
  BY <1>11 DEF Fits
<1> DEFINE A == {BidFor(b, n, r[n], clock) : n \in 1..k}
           v == SubSeq(q, k + 1, L)
<1>17. \A x \in A : GoodBid(x, T, clock) /\ x.ts = clock
  <2>1. SUFFICES ASSUME NEW n \in 1..k
                 PROVE  GoodBid(BidFor(b, n, r[n], clock), T, clock) /\ BidFor(b, n, r[n], clock).ts = clock
    OBVIOUS
  <2>2. b.bids + n \in Nat /\ clock \in 0..clock
    BY <1>10
  <2> QED BY <1>2, <1>12, <1>15, <2>2 DEF GoodBid, BidFor
<1>18. Asks(A, T, clock, left)
  <2>1. r \in [1..k -> Nat]
    <3>1. DOMAIN r = 1..k /\ r = [n \in 1..k |-> r[n]]
      BY DEF r, CutList
    <3> QED BY <1>15, <3>1
  <2>2. A = BidsFor(b, k, r, clock)
    BY DEF BidsFor
  <2>6. Sums(h, k, r)
    BY <1>16
  <2>7. k \in Nat
    BY <1>10
  <2> HIDE DEF A
  <2>3. IsFiniteSet(A) /\ AskedSum(A) = h[k]
    BY <2>1, <2>2, <2>6, <2>7, BidsAddUp
  <2>4. g[L] \in Nat
    BY <1>1, <1>6
  <2>5. h[k] <= left
    BY <1>8, <1>16, <2>4
  <2> QED BY <1>17, <2>3, <2>5 DEF Asks
<1>19. v \in Seq(Finds(T, clock))
  <2>1. \A i \in (k + 1)..L : q[i] \in Finds(T, clock)
    BY <1>1, <1>10
  <2>2. k + 1 \in Int /\ L \in Int
    BY <1>1, <1>10
  <2> QED BY <2>1, <2>2, SubSeqProperties
<1>20. Ask(b) = [b EXCEPT !.asked = A, !.valid = v, !.bids = b.bids + k]
  <2>1. {[n |-> b.bids + n, id |-> b.valid[n].id, price |-> b.valid[n].price,
          amount |-> Min({b.valid[n].amount, LeftFor(b, n)}),
          started |-> b.valid[n].started, ts |-> clock] : n \in Needed(b)} = A
    BY <1>10, <1>14 DEF BidFor
  <2>2. Cardinality(Needed(b)) = k
    BY <1>10
  <2> HIDE DEF A
  <2> QED BY <2>1, <2>2 DEF Ask, L
<1> QED BY <1>10, <1>17, <1>18, <1>19, <1>20 DEF left

-----------------------------------------------------------------------------
(* The steps of a consumer.                                                   *)

MarketGoesOn(G, C) == LedgerGoesOn(G, C) /\ ProducersGoOn /\ ConsumersGoOn

\* A consumer goes on and leaves the ledger as it is.
LEMMA RoundStep ==
  ASSUME MarketTypes, NEW c \in Bidders, NEW n, buying' = [buying EXCEPT ![c] = n],
         tokens' = tokens, auction' = auction, SplitBuy(n, tokens, clock),
         TimelyLedger(tokens, clock) /\ Owns(tokens, buying[c], c, clock) => Owns(tokens, n, c, clock),
         TimelyLedger(tokens, clock) /\ WithinGoal(tokens, buying[c], c, clock) =>
           WithinGoal(tokens, n, c, clock)
  PROVE  MarketGoesOn({}, {})
<1>1. LedgerTypes
  BY DEF MarketTypes
<1>2. LedgerGoesOn({}, {})
  BY <1>1, LedgerRests
<1>3. ProducersGoOn
  BY <1>1, <1>2, ProducersRest
<1>4. {} \subseteq {c}
  OBVIOUS
<1>5. ConsumersGoOn
  BY <1>2, <1>4, ConsumerDoes
<1> QED BY <1>2, <1>3, <1>5 DEF MarketGoesOn

\* What is asked for now, or was before, comes after what is counted.
LEMMA SameCharge ==
  ASSUME NEW T, NEW b, NEW c, NEW now \in Nat, Owns(T, b, c, now),
         NEW n, n.charged = b.charged, n.pc # "check",
         \A x \in n.asked \cup n.success : x.ts = now \/ \E y \in b.asked \cup b.success : y.ts = x.ts
  PROVE  Owns(T, n, c, now)
<1>1. PICK t \in 0..now : ChargedBefore(T, b, c, t)
  BY DEF Owns
<1>2. \A x \in n.asked \cup n.success : t <= x.ts
  BY <1>1 DEF ChargedBefore
<1>3. ChargedBefore(T, n, c, t)
  BY <1>1, <1>2 DEF ChargedBefore
<1> QED BY <1>3 DEF Owns

LEMMA SearchStep ==
  ASSUME MarketTypes, NEW c \in Bidders, Search(c)
  PROVE  MarketGoesOn({}, {})
<1> DEFINE b == buying[c]
           ids == {id \in QueryByRange(tokens, "generated", c) : Worth(c, tokens[id])}
           found(id) == [id |-> id, amount |-> tokens[id].amount, price |-> tokens[id].price,
                         started |-> tokens[id].started]
<1>1. /\ clock \in Nat /\ clock <= MarketEnd /\ SplitLedger(tokens, clock)
      /\ SplitBuy(b, tokens, clock) /\ Goals[c] \in Nat
  BY SplitMarketAssumption DEF MarketTypes, LedgerTypes, Consuming
<1>2. /\ DOMAIN b = BuyFields /\ b.charged \in Nat /\ b.left \in Nat /\ b.bids \in Nat
      /\ b.first \in Nat /\ b.last \in Nat /\ b.early \in BOOLEAN
      /\ b.valid \in Seq(Finds(tokens, clock))
  BY <1>1 DEF SplitBuy
<1>3. b.pc = "ask" /\ b.charged < Goals[c] /\ tokens' = tokens /\ auction' = auction
  BY DEF Search
<1>4. b.asked = {} /\ b.success = {}
  BY <1>1, <1>3 DEF SplitBuy
<1>5. HasAmounts(tokens)
  BY <1>1, LedgerAmounts
<1>6. \/ Consumed(c, [b EXCEPT !.due = clock + AuctionInterval])
      \/ \E request \in 1..(Goals[c] - b.charged), order \in SetToSeqs(ids) :
           Consumed(c, Ask([b EXCEPT !.pc = "bid", !.left = request, !.due = 0,
                                     !.valid = [n \in DOMAIN order |-> found(order[n])]]))
  BY DEF Search
<1>7. CASE Consumed(c, [b EXCEPT !.due = clock + AuctionInterval])
  <2>1. PICK n : n = [b EXCEPT !.due = clock + AuctionInterval]
    OBVIOUS
  <2>2. /\ DOMAIN n = BuyFields /\ n.pc = b.pc /\ n.charged = b.charged /\ n.left = b.left
        /\ n.valid = b.valid /\ n.asked = b.asked /\ n.success = b.success /\ n.bids = b.bids
        /\ n.first = b.first /\ n.last = b.last /\ n.early = b.early
        /\ n.due = clock + AuctionInterval
    BY <1>2, <2>1 DEF BuyFields
  <2>3. buying' = [buying EXCEPT ![c] = n]
    BY <1>7, <2>1 DEF Consumed
  <2> HIDE DEF b, ids, found
  <2>4. SplitBuy(n, tokens, clock)
    <3>1. n.due \in Nat
      BY <1>1, <2>2, SplitMarketAssumption
    <3> QED BY <1>1, <2>2, <3>1 DEF SplitBuy
  <2>5. Owns(tokens, b, c, clock) => Owns(tokens, n, c, clock)
    BY <1>1, <1>3, <2>2, SameCharge
  <2>6. WithinGoal(tokens, b, c, clock) => WithinGoal(tokens, n, c, clock)
    BY <1>3, <2>2 DEF WithinGoal, RoundFits
  <2> QED BY <1>3, <2>3, <2>4, <2>5, <2>6, RoundStep DEF b
<1>8. ASSUME NEW request \in 1..(Goals[c] - b.charged), NEW order \in SetToSeqs(ids),
             Consumed(c, Ask([b EXCEPT !.pc = "bid", !.left = request, !.due = 0,
                                       !.valid = [n \in DOMAIN order |-> found(order[n])]]))
      PROVE  MarketGoesOn({}, {})
  <2> DEFINE list == [n \in DOMAIN order |-> found(order[n])]
             m == [b EXCEPT !.pc = "bid", !.left = request, !.due = 0, !.valid = list]
  <2>1. list \in Seq(Finds(tokens, clock))
    <3>1. ids \subseteq DOMAIN tokens
      BY DEF QueryByRange
    <3>2. IsFiniteSet(ids)
      BY <1>1, <3>1, FS_Subset DEF SplitLedger
    <3>3. Cardinality(ids) \in Nat
      BY <3>2, FS_CardinalityType
    <3>4. order \in [1..Cardinality(ids) -> ids]
      <4> HIDE DEF ids
      <4> QED BY DEF SetToSeqs
    <3>5. \A id \in ids : found(id) \in Finds(tokens, clock)
      BY <1>1, <3>1 DEF SplitLedger, SplitToken, Finds
    <3> HIDE DEF ids, found
    <3>6. DOMAIN order = 1..Cardinality(ids) /\ \A i \in 1..Cardinality(ids) : order[i] \in ids
      BY <3>4
    <3>7. list \in [1..Cardinality(ids) -> Finds(tokens, clock)]
      BY <3>5, <3>6
    <3> HIDE DEF list
    <3>8. \E k \in Nat : list \in [1..k -> Finds(tokens, clock)]
      BY <3>3, <3>7
    <3> QED BY <3>8
  <2> HIDE DEF list, ids, found
  <2>2. /\ DOMAIN m = BuyFields /\ m.pc = "bid" /\ m.left = request /\ m.due = 0 /\ m.valid = list
        /\ m.charged = b.charged /\ m.asked = b.asked /\ m.success = b.success /\ m.bids = b.bids
        /\ m.first = b.first /\ m.last = b.last /\ m.early = b.early
    BY <1>2 DEF BuyFields
  <2>3. buying' = [buying EXCEPT ![c] = Ask(m)]
    BY <1>8 DEF Consumed, list
  <2> HIDE DEF m
  <2>4. request \in Nat \ {0} /\ request + b.charged <= Goals[c]
    BY <1>1, <1>2
  <2>5. PICK k, A, v :
          /\ k \in Nat
          /\ Ask(m) = [m EXCEPT !.asked = A, !.valid = v, !.bids = m.bids + k]
          /\ Asks(A, tokens, clock, m.left) /\ \A x \in A : x.ts = clock
          /\ v \in Seq(Finds(tokens, clock))
    <3>1. m.left \in Nat \ {0} /\ m.bids \in Nat /\ m.valid \in Seq(Finds(tokens, clock))
      BY <1>2, <2>1, <2>2, <2>4
    <3> QED BY <1>1, <3>1, AskFits
  <2>6. PICK n : n = [m EXCEPT !.asked = A, !.valid = v, !.bids = m.bids + k]
    OBVIOUS
  <2>7. /\ DOMAIN n = BuyFields /\ n.pc = "bid" /\ n.left = request /\ n.due = 0 /\ n.valid = v
        /\ n.charged = b.charged /\ n.asked = A /\ n.success = b.success /\ n.bids = b.bids + k
        /\ n.first = b.first /\ n.last = b.last /\ n.early = b.early
    BY <2>2, <2>6 DEF BuyFields
  <2> HIDE DEF b
  <2>8. SplitBuy(n, tokens, clock)
    <3>1. n.bids \in Nat /\ n.left \in Nat /\ n.due \in Nat
      BY <1>2, <2>4, <2>5, <2>7
    <3>2. Asks(n.asked, tokens, clock, n.left)
      BY <2>2, <2>5, <2>7
    <3> QED BY <1>2, <1>4, <2>5, <2>7, <3>1, <3>2 DEF SplitBuy
  <2>9. Owns(tokens, b, c, clock) => Owns(tokens, n, c, clock)
    <3>1. \A x \in n.asked \cup n.success : x.ts = clock
      BY <1>4, <2>5, <2>7
    <3> QED BY <1>1, <2>7, <3>1, SameCharge
  <2>10. WithinGoal(tokens, b, c, clock) => WithinGoal(tokens, n, c, clock)
    <3>1. SUFFICES ASSUME ~b.early, WithinGoal(tokens, b, c, clock)
                   PROVE  \E t \in 0..clock : RoundFits(tokens, n, c, t)
      BY <2>7 DEF WithinGoal
    <3>2. PICK t \in 0..clock : RoundFits(tokens, b, c, t)
      BY <3>1 DEF WithinGoal
    <3>3. Bought(tokens, c, t) = {}
      BY <1>3, <3>2 DEF RoundFits
    <3>4. AmountSum(tokens, Bought(tokens, c, t)) = 0
      BY <1>5, <3>3, HeldNone
    <3>5. n.charged + AmountSum(tokens, Bought(tokens, c, t)) + n.left <= Goals[c]
      BY <1>1, <1>2, <2>4, <2>7, <3>4
    <3>6. \A x \in n.asked \cup n.success : t <= x.ts
      BY <1>1, <1>4, <2>5, <2>7
    <3>7. RoundFits(tokens, n, c, t)
      BY <2>7, <3>3, <3>5, <3>6 DEF RoundFits
    <3> QED BY <3>7
  <2> QED BY <1>3, <2>3, <2>5, <2>6, <2>8, <2>9, <2>10, RoundStep DEF b
<1> QED BY <1>6, <1>7, <1>8

LEMMA AskAgainStep ==
  ASSUME MarketTypes, NEW c \in Bidders, AskAgain(c)
  PROVE  MarketGoesOn({}, {})
<1> DEFINE b == buying[c]
<1>1. /\ clock \in Nat /\ SplitBuy(b, tokens, clock)
  BY SplitMarketAssumption DEF MarketTypes, LedgerTypes, Consuming
<1>2. /\ DOMAIN b = BuyFields /\ b.charged \in Nat /\ b.left \in Nat /\ b.bids \in Nat
      /\ b.first \in Nat /\ b.last \in Nat /\ b.due \in Nat /\ b.early \in BOOLEAN
      /\ b.valid \in Seq(Finds(tokens, clock))
  BY <1>1 DEF SplitBuy
<1>3. b.pc = "bid" /\ b.left > 0 /\ tokens' = tokens /\ auction' = auction
      /\ buying' = [buying EXCEPT ![c] = Ask(b)]
  BY DEF AskAgain, Consumed
<1>4. PICK k, A, v :
        /\ k \in Nat
        /\ Ask(b) = [b EXCEPT !.asked = A, !.valid = v, !.bids = b.bids + k]
        /\ Asks(A, tokens, clock, b.left) /\ \A x \in A : x.ts = clock
        /\ v \in Seq(Finds(tokens, clock))
  <2>1. b.left \in Nat \ {0}
    BY <1>2, <1>3
  <2> HIDE DEF b
  <2> QED BY <1>1, <1>2, <2>1, AskFits
<1>5. PICK n : n = [b EXCEPT !.asked = A, !.valid = v, !.bids = b.bids + k]
  OBVIOUS
<1>6. /\ DOMAIN n = BuyFields /\ n.pc = b.pc /\ n.left = b.left /\ n.due = b.due /\ n.valid = v
      /\ n.charged = b.charged /\ n.asked = A /\ n.success = b.success /\ n.bids = b.bids + k
      /\ n.first = b.first /\ n.last = b.last /\ n.early = b.early
  BY <1>2, <1>5 DEF BuyFields
<1> HIDE DEF b
<1>7. SplitBuy(n, tokens, clock)
  <2>1. n.bids \in Nat
    BY <1>2, <1>4, <1>6
  <2> QED BY <1>1, <1>2, <1>3, <1>4, <1>6, <2>1 DEF SplitBuy
<1>8. Owns(tokens, b, c, clock) => Owns(tokens, n, c, clock)
  <2>1. \A x \in n.asked \cup n.success : x.ts = clock \/ \E y \in b.asked \cup b.success : y.ts = x.ts
    BY <1>4, <1>6
  <2>2. n.pc # "check" /\ n.charged = b.charged
    BY <1>3, <1>6
  <2> QED BY <1>1, <2>1, <2>2, SameCharge
<1>9. WithinGoal(tokens, b, c, clock) => WithinGoal(tokens, n, c, clock)
  <2>1. SUFFICES ASSUME NEW t \in 0..clock, RoundFits(tokens, b, c, t) PROVE RoundFits(tokens, n, c, t)
    BY <1>6 DEF WithinGoal
  <2>2. \A x \in n.asked \cup n.success : t <= x.ts
    BY <1>1, <1>4, <1>6, <2>1 DEF RoundFits
  <2> QED BY <1>3, <1>6, <2>1, <2>2 DEF RoundFits
<1>10. buying' = [buying EXCEPT ![c] = n]
  BY <1>3, <1>4, <1>5
<1> QED BY <1>3, <1>7, <1>8, <1>9, <1>10, RoundStep DEF b

LEMMA TimeUpStep ==
  ASSUME MarketTypes, NEW c \in Bidders, TimeUp(c)
  PROVE  MarketGoesOn({}, {})
<1> DEFINE b == buying[c]
<1>1. clock \in Nat /\ SplitLedger(tokens, clock) /\ SplitBuy(b, tokens, clock) /\ Goals[c] \in Nat
  BY SplitMarketAssumption DEF MarketTypes, LedgerTypes, Consuming
<1>2. /\ b.charged \in Nat /\ b.left \in Nat /\ b.early \in BOOLEAN
      /\ b.pc \in {"ask", "bid", "check", "done"}
  BY <1>1 DEF SplitBuy
<1>3. /\ buying' = [buying EXCEPT ![c] = [Buying EXCEPT !.pc = "done", !.charged = b.charged, !.early = b.early]]
      /\ tokens' = tokens /\ auction' = auction
  BY DEF TimeUp, Consumed
<1> HIDE DEF b
<1>4. PICK n : n = [Buying EXCEPT !.pc = "done", !.charged = b.charged, !.early = b.early]
  OBVIOUS
<1>5. /\ DOMAIN n = BuyFields /\ n.pc = "done" /\ n.charged = b.charged /\ n.left = 0 /\ n.valid = <<>>
      /\ n.asked = {} /\ n.success = {} /\ n.bids = 0 /\ n.first = 0 /\ n.last = 0 /\ n.due = 0
      /\ n.early = b.early
  BY <1>4 DEF Buying, BuyFields
<1>6. SplitBuy(n, tokens, clock)
  <2>1. n.valid \in Seq(Finds(tokens, clock))
    BY <1>5
  <2>2. Summable(AskedFor({}), {})
    BY FS_EmptySet DEF Summable
  <2>3. AskedSum({}) = 0
    BY <2>2, TotalFacts DEF AskedSum
  <2>4. Asks({}, tokens, clock, 0)
    BY <2>3, FS_EmptySet DEF Asks
  <2>5. Asks(n.asked, tokens, clock, n.left)
    BY <1>5, <2>4
  <2> QED BY <1>2, <1>5, <2>1, <2>5 DEF SplitBuy
<1>7. Owns(tokens, b, c, clock) => Owns(tokens, n, c, clock)
  BY <1>1, <1>5, SameCharge
<1>8. WithinGoal(tokens, b, c, clock) => WithinGoal(tokens, n, c, clock)
  <2>1. SUFFICES ASSUME NEW t \in 0..clock, RoundFits(tokens, b, c, t) PROVE RoundFits(tokens, n, c, t)
    BY <1>5 DEF WithinGoal
  <2>2. HasAmounts(tokens) /\ Bought(tokens, c, t) \subseteq DOMAIN tokens
    BY <1>1, LedgerAmounts DEF Bought
  <2>3. AmountSum(tokens, Bought(tokens, c, t)) \in Nat
    BY <2>2, HeldSum
  <2>4. b.charged <= Goals[c]
    BY <1>1, <1>2, <2>1, <2>3 DEF RoundFits
  <2> QED BY <1>5, <2>4 DEF RoundFits
<1>9. buying' = [buying EXCEPT ![c] = n]
  BY <1>3, <1>4
<1> QED BY <1>3, <1>6, <1>7, <1>8, <1>9, RoundStep DEF b

\* FirstBidTime and LastBidTime are the time of a bid each, or of the host; none is later.
LEMMA TimesFit ==
  ASSUME NEW S, NEW now \in 0..MarketEnd, \A x \in S : GoodSuccess(x, now),
         NEW times, times = BidTimes(S)
  PROVE  /\ times.first \in Nat /\ times.last \in Nat
         /\ \A x \in S : x.ts <= times.last
         /\ \A t \in 0..now : (\A x \in S : t <= x.ts) => t <= times.first
<1>1. now \in Nat /\ MarketEnd \in Nat
  BY SplitMarketAssumption
<1> DEFINE lowers(x) == x.ts = 0 \/ \E y \in S : y.n < x.n /\ y.ts >= x.ts
           F == {Host} \cup {x.ts : x \in {y \in S : lowers(y)}}
           L == {0} \cup {x.ts : x \in S}
<1>2. times.first = Min(F) /\ times.last = Max(L)
  BY DEF BidTimes
<1>3. \A x \in S : x.ts \in 0..now
  BY DEF GoodSuccess
<1>4. Host \in Nat /\ now <= Host
  BY <1>1 DEF Host
<1>5. F \in SUBSET Nat /\ F # {} /\ \A u \in F : u = Host \/ \E x \in S : u = x.ts
  BY <1>1, <1>3, <1>4
<1>6. L \in SUBSET Nat /\ L # {} /\ (\A u \in L : u <= now) /\ \A x \in S : x.ts \in L
  BY <1>1, <1>3
<1> HIDE DEF F, L
<1>7. Min(F) \in F
  BY <1>5, LeastNumber
<1>8. Max(L) \in L /\ \A u \in L : u <= Max(L)
  BY <1>1, <1>6, GreatestOf
<1>9. times.first \in Nat /\ times.last \in Nat /\ \A x \in S : x.ts <= times.last
  BY <1>2, <1>5, <1>6, <1>7, <1>8
<1>10. ASSUME NEW t \in 0..now, \A x \in S : t <= x.ts PROVE t <= times.first
  <2>1. \A u \in F : t <= u
    BY <1>1, <1>4, <1>5, <1>10
  <2> QED BY <1>2, <1>7, <2>1
<1> QED BY <1>9, <1>10

LEMMA TallyStep ==
  ASSUME MarketTypes, NEW c \in Bidders, Tally(c)
  PROVE  MarketGoesOn({}, {})
<1> DEFINE b == buying[c]
           S == b.success
           times == BidTimes(S)
           due == Max({x.started : x \in S}) + AuctionInterval + Grace
<1>1. /\ clock \in 0..MarketEnd /\ clock \in Nat /\ SplitLedger(tokens, clock)
      /\ SplitBuy(b, tokens, clock) /\ Goals[c] \in Nat
  BY SplitMarketAssumption DEF MarketTypes, LedgerTypes, Consuming
<1>2. /\ DOMAIN b = BuyFields /\ b.charged \in Nat /\ b.left \in Nat /\ b.bids \in Nat
      /\ b.first \in Nat /\ b.last \in Nat /\ b.early \in BOOLEAN
      /\ b.valid \in Seq(Finds(tokens, clock)) /\ Asks(b.asked, tokens, clock, b.left)
      /\ \A x \in S : GoodSuccess(x, clock)
  BY <1>1 DEF SplitBuy
<1>3. b.pc = "bid" /\ b.asked = {} /\ tokens' = tokens /\ auction' = auction
  BY DEF Tally
<1>4. \/ S = {} /\ Consumed(c, [b EXCEPT !.pc = "ask", !.left = 0, !.due = clock + AuctionInterval])
      \/ S # {} /\ Consumed(c, [b EXCEPT !.pc = "check", !.valid = <<>>, !.left = 0, !.success = {},
                                         !.first = times.first, !.last = times.last, !.due = due,
                                         !.early = b.early \/ due <= times.last])
  BY DEF Tally
<1>5. Asks({}, tokens, clock, 0)
  <2>1. Summable(AskedFor({}), {})
    BY FS_EmptySet DEF Summable
  <2>2. AskedSum({}) = 0
    BY <2>1, TotalFacts DEF AskedSum
  <2> QED BY <2>2, FS_EmptySet DEF Asks
<1>6. \A t : /\ HasAmounts(tokens) /\ Bought(tokens, c, t) \subseteq DOMAIN tokens
             /\ AmountSum(tokens, Bought(tokens, c, t)) \in Nat
  <2>1. SUFFICES ASSUME NEW t
                 PROVE  /\ HasAmounts(tokens) /\ Bought(tokens, c, t) \subseteq DOMAIN tokens
                        /\ AmountSum(tokens, Bought(tokens, c, t)) \in Nat
    OBVIOUS
  <2>2. HasAmounts(tokens) /\ Bought(tokens, c, t) \subseteq DOMAIN tokens
    BY <1>1, LedgerAmounts DEF Bought
  <2> QED BY <2>2, HeldSum
<1>7. CASE S = {} /\ Consumed(c, [b EXCEPT !.pc = "ask", !.left = 0, !.due = clock + AuctionInterval])
  <2>1. PICK n : n = [b EXCEPT !.pc = "ask", !.left = 0, !.due = clock + AuctionInterval]
    OBVIOUS
  <2>2. /\ DOMAIN n = BuyFields /\ n.pc = "ask" /\ n.charged = b.charged /\ n.left = 0
        /\ n.valid = b.valid /\ n.asked = b.asked /\ n.success = b.success /\ n.bids = b.bids
        /\ n.first = b.first /\ n.last = b.last /\ n.early = b.early
        /\ n.due = clock + AuctionInterval
    BY <1>2, <2>1 DEF BuyFields
  <2>3. buying' = [buying EXCEPT ![c] = n]
    BY <1>7, <2>1 DEF Consumed
  <2>4. S = b.success /\ S = {}
    BY <1>7
  <2> HIDE DEF b, S
  <2>5. SplitBuy(n, tokens, clock)
    <3>1. n.due \in Nat
      BY <1>1, <2>2, SplitMarketAssumption
    <3>2. Asks(n.asked, tokens, clock, n.left)
      BY <1>3, <1>5, <2>2
    <3> QED BY <1>2, <1>3, <2>2, <2>4, <3>1, <3>2 DEF SplitBuy
  <2>6. Owns(tokens, b, c, clock) => Owns(tokens, n, c, clock)
    BY <1>1, <2>2, SameCharge
  <2>7. WithinGoal(tokens, b, c, clock) => WithinGoal(tokens, n, c, clock)
    <3>1. SUFFICES ASSUME NEW t \in 0..clock, RoundFits(tokens, b, c, t) PROVE RoundFits(tokens, n, c, t)
      BY <2>2 DEF WithinGoal
    <3>2. /\ b.charged + AmountSum(tokens, Bought(tokens, c, t)) + b.left <= Goals[c]
          /\ \A id \in Bought(tokens, c, t) : \E x \in b.success : x.ts = tokens[id].bidTime
      BY <1>3, <3>1 DEF RoundFits
    <3>3. Bought(tokens, c, t) = {}
      BY <2>4, <3>2
    <3>4. n.charged <= Goals[c]
      BY <1>1, <1>2, <1>6, <2>2, <3>2
    <3>5. \A x \in n.asked \cup n.success : t <= x.ts
      BY <2>2, <3>1 DEF RoundFits
    <3> QED BY <2>2, <3>3, <3>4, <3>5 DEF RoundFits
  <2> QED BY <1>3, <2>3, <2>5, <2>6, <2>7, RoundStep DEF b
<1>8. CASE S # {} /\ Consumed(c, [b EXCEPT !.pc = "check", !.valid = <<>>, !.left = 0, !.success = {},
                                  !.first = times.first, !.last = times.last, !.due = due,
                                  !.early = b.early \/ due <= times.last])
  <2>1. due \in Nat
    <3> DEFINE R == {x.started : x \in S}
    <3>1. \A x \in S : x.started \in 0..clock
      BY <1>2 DEF GoodSuccess
    <3>2. R \in SUBSET Nat /\ R # {} /\ \A u \in R : u <= clock
      BY <1>1, <1>8, <3>1
    <3> HIDE DEF R
    <3>3. Max(R) \in Nat
      BY <1>1, <3>2, GreatestOf
    <3>4. AuctionInterval \in Nat /\ Grace \in Nat
      BY SplitMarketAssumption
    <3> QED BY <3>3, <3>4 DEF R
  <2>2. /\ times.first \in Nat /\ times.last \in Nat
        /\ \A x \in S : x.ts <= times.last
        /\ \A t \in 0..clock : (\A x \in S : t <= x.ts) => t <= times.first
    <3>1. times = BidTimes(S)
      OBVIOUS
    <3> HIDE DEF times, S
    <3> QED BY <1>1, <1>2, <3>1, TimesFit
  <2>3. S = b.success
    OBVIOUS
  <2> HIDE DEF times, due, S
  <2>4. PICK n : n = [b EXCEPT !.pc = "check", !.valid = <<>>, !.left = 0, !.success = {},
                               !.first = times.first, !.last = times.last, !.due = due,
                               !.early = b.early \/ due <= times.last]
    OBVIOUS
  <2>5. buying' = [buying EXCEPT ![c] = n]
    BY <1>8, <2>4 DEF Consumed
  <2> HIDE DEF b
  <2>6. /\ DOMAIN n = BuyFields /\ n.pc = "check" /\ n.charged = b.charged /\ n.left = 0
        /\ n.valid = <<>> /\ n.asked = b.asked /\ n.success = {} /\ n.bids = b.bids
        /\ n.first = times.first /\ n.last = times.last /\ n.due = due
    BY <1>2, <2>4 DEF BuyFields
  <2>7. n.early = (b.early \/ due <= times.last)
    BY <1>2, <2>4 DEF BuyFields
  <2>8. SplitBuy(n, tokens, clock)
    <3>1. n.early \in BOOLEAN
      <4>1. n.early = TRUE \/ n.early = FALSE
        BY <2>7
      <4> QED BY <4>1
    <3>2. Asks(n.asked, tokens, clock, n.left)
      BY <1>3, <1>5, <2>6
    <3>3. n.valid \in Seq(Finds(tokens, clock))
      BY <2>6
    <3> QED BY <1>2, <1>3, <2>1, <2>2, <2>6, <3>1, <3>2, <3>3 DEF SplitBuy
  <2>9. Owns(tokens, b, c, clock) => Owns(tokens, n, c, clock)
    <3>1. SUFFICES ASSUME NEW t \in 0..clock, ChargedBefore(tokens, b, c, t)
                   PROVE  ChargedBefore(tokens, n, c, t)
      BY DEF Owns
    <3>2. t <= n.first
      BY <2>2, <2>3, <2>6, <3>1 DEF ChargedBefore
    <3> QED BY <1>3, <2>6, <3>1, <3>2 DEF ChargedBefore
  <2>10. WithinGoal(tokens, b, c, clock) => WithinGoal(tokens, n, c, clock)
    <3>1. SUFFICES ASSUME ~n.early, NEW t \in 0..clock, RoundFits(tokens, b, c, t)
                   PROVE  RoundFits(tokens, n, c, t)
      BY <2>7 DEF WithinGoal
    <3>2. /\ b.charged + AmountSum(tokens, Bought(tokens, c, t)) + b.left <= Goals[c]
          /\ \A id \in Bought(tokens, c, t) : \E x \in b.success : x.ts = tokens[id].bidTime
          /\ \A x \in b.asked \cup b.success : t <= x.ts
      BY <1>3, <3>1 DEF RoundFits
    <3>3. n.charged + AmountSum(tokens, Bought(tokens, c, t)) <= Goals[c]
      BY <1>1, <1>2, <1>6, <2>6, <3>2
    <3>4. t <= n.first
      BY <2>2, <2>3, <2>6, <3>2
    <3>5. n.last < n.due
      <4>1. ~(due <= times.last)
        BY <2>7, <3>1, Zenon
      <4> QED BY <2>1, <2>2, <2>6, <4>1
    <3>6. \A id \in Bought(tokens, c, t) : tokens[id].bidTime <= n.last
      BY <2>2, <2>3, <2>6, <3>2
    <3>7. \A x \in n.asked \cup n.success : t <= x.ts
      BY <1>3, <2>6
    <3> QED BY <2>6, <3>3, <3>4, <3>5, <3>6, <3>7 DEF RoundFits
  <2> QED BY <1>3, <2>5, <2>8, <2>9, <2>10, RoundStep DEF b
<1> QED BY <1>4, <1>7, <1>8

\* What is counted now is none of what was counted before.
LEMMA CheckStep ==
  ASSUME MarketTypes, NEW c \in Bidders, Check(c)
  PROVE  MarketGoesOn({}, {})
<1> DEFINE b == buying[c]
           ids == QueryByUserAndBidTime(tokens, c, "sold", b.first, b.last)
           won == AmountSum(tokens, ids)
<1>1. /\ clock \in Nat /\ SplitLedger(tokens, clock) /\ SplitBuy(b, tokens, clock) /\ Goals[c] \in Nat
  BY SplitMarketAssumption DEF MarketTypes, LedgerTypes, Consuming
<1>2. /\ DOMAIN b = BuyFields /\ b.charged \in Nat /\ b.left \in Nat /\ b.bids \in Nat
      /\ b.first \in Nat /\ b.last \in Nat /\ b.due \in Nat /\ b.early \in BOOLEAN
      /\ b.valid \in Seq(Finds(tokens, clock)) /\ Asks(b.asked, tokens, clock, b.left)
  BY <1>1 DEF SplitBuy
<1>3. b.pc = "check" /\ clock >= b.due /\ tokens' = tokens /\ auction' = auction
  BY DEF Check
<1>4. b.asked = {} /\ b.success = {}
  BY <1>1, <1>3 DEF SplitBuy
<1>5. Won(c) = won
  BY DEF Won, AmountOf, AmountSum
<1>6. PICK n : /\ n = [b EXCEPT !.pc = "ask", !.charged = b.charged + won, !.due = 0,
                                !.first = 0, !.last = 0]
               /\ buying' = [buying EXCEPT ![c] = n]
  BY <1>5 DEF Check, Consumed
<1>7. HasAmounts(tokens)
  BY <1>1, LedgerAmounts
<1>8. ids \subseteq DOMAIN tokens /\ \A id \in DOMAIN tokens : tokens[id].bidTime \in Nat
  BY <1>1 DEF QueryByUserAndBidTime, SplitLedger, SplitToken
<1>9. \A id \in ids : /\ tokens[id].owner = c /\ tokens[id].status = "sold"
                      /\ b.first <= tokens[id].bidTime /\ tokens[id].bidTime <= b.last
  BY <1>2, <1>8 DEF QueryByUserAndBidTime
<1> HIDE DEF ids
<1>10. won \in Nat
  BY <1>7, <1>8, HeldSum
<1> HIDE DEF b, won
<1>11. /\ DOMAIN n = BuyFields /\ n.pc = "ask" /\ n.charged = b.charged + won /\ n.left = b.left
       /\ n.valid = b.valid /\ n.asked = b.asked /\ n.success = b.success /\ n.bids = b.bids
       /\ n.first = 0 /\ n.last = 0 /\ n.early = b.early /\ n.due = 0
  BY <1>2, <1>6 DEF BuyFields
<1>12. SplitBuy(n, tokens, clock)
  <2>1. n.charged \in Nat
    BY <1>2, <1>10, <1>11
  <2> QED BY <1>2, <1>4, <1>11, <2>1 DEF SplitBuy
<1>13. ASSUME TimelyLedger(tokens, clock)
       PROVE  \A id \in DOMAIN tokens : tokens[id].owner = c /\ tokens[id].status = "sold" =>
                tokens[id].producer # c /\ tokens[id].bidTime < clock
  <2>1. SUFFICES ASSUME NEW id \in DOMAIN tokens, tokens[id].owner = c, tokens[id].status = "sold"
                 PROVE  tokens[id].producer # c /\ tokens[id].bidTime < clock
    OBVIOUS
  <2>2. /\ tokens[id].owner # tokens[id].producer
        /\ tokens[id].bidTime < tokens[id].started + AuctionInterval
        /\ tokens[id].started + AuctionInterval <= clock
    BY <1>13, <2>1 DEF TimelyLedger, TimelyToken
  <2>3. tokens[id].started \in Nat /\ AuctionInterval \in Nat
    BY <1>1, SplitMarketAssumption DEF SplitLedger, SplitToken
  <2> QED BY <1>1, <1>8, <2>1, <2>2, <2>3
<1>14. ASSUME TimelyLedger(tokens, clock), Owns(tokens, b, c, clock) PROVE Owns(tokens, n, c, clock)
  <2>1. PICK t \in 0..clock : ChargedBefore(tokens, b, c, t)
    BY <1>14 DEF Owns
  <2> DEFINE P == OwnedBefore(tokens, c, t)
             R == OwnedBefore(tokens, c, clock)
  <2>2. P \subseteq DOMAIN tokens /\ R \subseteq DOMAIN tokens /\ P \subseteq R
    BY <1>1, <1>8 DEF OwnedBefore
  <2>3. ids \subseteq R
    BY <1>8, <1>9, <1>13, <1>14 DEF OwnedBefore
  <2>4. t <= b.first /\ b.charged <= AmountSum(tokens, P)
    BY <1>3, <2>1 DEF ChargedBefore
  <2>5. ids \cap P = {}
    <3>1. ASSUME NEW id \in ids, id \in P PROVE FALSE
      <4>1. tokens[id].bidTime < t /\ b.first <= tokens[id].bidTime /\ tokens[id].bidTime \in Nat
        BY <1>8, <1>9, <3>1 DEF OwnedBefore
      <4> QED BY <1>2, <2>4, <4>1
    <3> QED BY <3>1
  <2> HIDE DEF P, R
  <2>6. AmountSum(tokens, P \cup ids) = AmountSum(tokens, P) + won
    BY <1>7, <1>8, <2>2, <2>5, HeldJoins DEF won
  <2>7. P \cup ids \subseteq DOMAIN tokens /\ P \cup ids \subseteq R
    BY <1>8, <2>2, <2>3
  <2>8. AmountSum(tokens, P \cup ids) <= AmountSum(tokens, R)
    <3>1. \A id \in P \cup ids : tokens[id].amount <= tokens[id].amount
      BY <1>7, <2>7 DEF HasAmounts
    <3> HIDE DEF won
    <3> QED BY <1>7, <2>2, <2>7, <3>1, HeldGrows
  <2>9. AmountSum(tokens, P) \in Nat /\ AmountSum(tokens, R) \in Nat
    BY <1>7, <2>2, HeldSum
  <2>10. n.charged <= AmountSum(tokens, R)
    BY <1>2, <1>10, <1>11, <2>4, <2>6, <2>8, <2>9
  <2>11. ChargedBefore(tokens, n, c, clock)
    BY <1>4, <1>11, <2>10 DEF ChargedBefore, R
  <2>12. clock \in 0..clock
    BY <1>1
  <2> QED BY <2>11, <2>12 DEF Owns
<1>15. ASSUME TimelyLedger(tokens, clock), WithinGoal(tokens, b, c, clock) PROVE WithinGoal(tokens, n, c, clock)
  <2>1. SUFFICES ASSUME ~b.early, NEW t \in 0..clock, RoundFits(tokens, b, c, t)
                 PROVE  RoundFits(tokens, n, c, clock)
    BY <1>1, <1>11, <1>15 DEF WithinGoal
  <2> DEFINE P == Bought(tokens, c, t)
  <2>2. /\ b.charged + AmountSum(tokens, P) <= Goals[c] /\ t <= b.first /\ b.last < b.due
        /\ \A id \in P : tokens[id].bidTime <= b.last
    BY <1>3, <2>1 DEF RoundFits
  <2>3. P \subseteq DOMAIN tokens
    BY DEF Bought
  <2>4. ids \subseteq P
    <3>1. ASSUME NEW id \in ids PROVE id \in P
      <4>1. /\ id \in DOMAIN tokens /\ tokens[id].owner = c /\ tokens[id].producer # c
            /\ b.first <= tokens[id].bidTime /\ tokens[id].bidTime \in Nat
        BY <1>8, <1>9, <1>13, <1>15, <3>1
      <4>2. t <= tokens[id].bidTime
        BY <1>2, <2>2, <4>1
      <4> QED BY <4>1, <4>2 DEF Bought
    <3> QED BY <3>1
  <2>5. Bought(tokens, c, clock) = {}
    <3>1. ASSUME NEW id \in Bought(tokens, c, clock) PROVE FALSE
      <4>1. id \in P /\ tokens[id].bidTime \in Nat /\ clock <= tokens[id].bidTime
        BY <1>1, <1>8, <2>1, <3>1 DEF Bought
      <4> QED BY <1>1, <1>2, <1>3, <2>2, <4>1
    <3> QED BY <3>1
  <2> HIDE DEF P
  <2>6. won <= AmountSum(tokens, P) /\ AmountSum(tokens, P) \in Nat
    <3>1. \A id \in ids : tokens[id].amount <= tokens[id].amount
      BY <1>7, <1>8 DEF HasAmounts
    <3>2. AmountSum(tokens, ids) <= AmountSum(tokens, P)
      BY <1>7, <1>8, <2>3, <2>4, <3>1, HeldGrows
    <3> QED BY <1>7, <2>3, <3>2, HeldSum DEF won
  <2>7. n.charged <= Goals[c]
    BY <1>1, <1>2, <1>10, <1>11, <2>2, <2>6
  <2> QED BY <1>4, <1>11, <2>5, <2>7 DEF RoundFits
<1> QED BY <1>3, <1>6, <1>12, <1>14, <1>15, RoundStep DEF b

\* A bid that is answered leaves the bids that are under way within what is left.
LEMMA AsksShrink ==
  ASSUME NEW A, NEW T, NEW now, NEW left \in Nat, Asks(A, T, now, left), NEW x \in A,
         NEW amount \in Nat, amount <= x.amount
  PROVE  left - amount \in Nat /\ Asks(A \ {x}, T, now, left - amount)
<1>1. /\ IsFiniteSet(A) /\ (\A y \in A : GoodBid(y, T, now)) /\ Total(AskedFor(A), A) <= left
  BY DEF Asks, AskedSum
<1>2. \A y \in A : y.amount \in Nat
  BY <1>1 DEF GoodBid
<1>3. Summable(AskedFor(A), A) /\ AskedFor(A)[x] = x.amount
  BY <1>1, <1>2 DEF Summable, AskedFor
<1>4. A \ {x} \subseteq A /\ IsFiniteSet(A \ {x})
  BY <1>1, FS_Subset
<1>5. Summable(AskedFor(A), A \ {x})
  BY <1>3, <1>4, SummableSubset
<1>6. \A y \in A \ {x} : AskedFor(A)[y] = AskedFor(A \ {x})[y]
  BY DEF AskedFor
<1>7. Total(AskedFor(A), A \ {x}) = Total(AskedFor(A \ {x}), A \ {x})
  BY <1>5, <1>6, TotalSame
<1>8. Total(AskedFor(A), A) = AskedFor(A)[x] + Total(AskedFor(A), A \ {x})
  BY <1>3, TotalFacts
<1>9. Total(AskedFor(A), A \ {x}) \in Nat
  BY <1>5, TotalFacts
<1>10. x.amount \in Nat
  BY <1>2
<1>11. left - amount \in Nat /\ AskedSum(A \ {x}) <= left - amount
  BY <1>1, <1>3, <1>7, <1>8, <1>9, <1>10 DEF AskedSum
<1> QED BY <1>1, <1>4, <1>11 DEF Asks

\* What a consumer c may get of the ledger T by its bid at ts: nothing, or one token more.
Gets(T, U, c, ts, amount) ==
  \/ U = T /\ amount = 0
  \/ \E z \in DOMAIN U :
       /\ U[z].amount = amount /\ U[z].bidTime = ts
       /\ \A i \in DOMAIN U : i # z /\ U[i].owner = c /\ U[i].producer # c =>
            /\ i \in DOMAIN T /\ T[i].owner = c /\ T[i].producer # c
            /\ T[i].bidTime = U[i].bidTime /\ U[i].amount <= T[i].amount

LEMMA BuysAllGets ==
  ASSUME NEW T, NEW U, HasAmounts(T), NEW id, NEW c, NEW ts, NEW n, BuysAll(T, U, id, c, ts, n)
  PROVE  Gets(T, U, c, ts, n)
<1>1. /\ id \in DOMAIN T /\ DOMAIN U = DOMAIN T /\ U[id].amount = n /\ U[id].bidTime = ts
      /\ \A i \in DOMAIN T : i # id => U[i] = T[i]
  BY DEF BuysAll, Others, Takes
<1>2. \A i \in DOMAIN T : T[i].amount <= T[i].amount
  BY DEF HasAmounts
<1> QED BY <1>1, <1>2 DEF Gets

LEMMA BuysPartGets ==
  ASSUME NEW T, NEW U, HasAmounts(T), NEW id, NEW y, NEW c, NEW ts, NEW n \in Nat,
         BuysPart(T, U, id, y, c, ts, n)
  PROVE  Gets(T, U, c, ts, n)
<1>1. /\ id \in DOMAIN T /\ DOMAIN U = DOMAIN T \cup {y} /\ U[y].amount = n /\ U[y].bidTime = ts
      /\ \A i \in DOMAIN T : i # id => U[i] = T[i]
      /\ U[id].amount = T[id].amount - n /\ U[id].owner = T[id].owner
      /\ U[id].producer = T[id].producer /\ U[id].bidTime = T[id].bidTime
  BY DEF BuysPart, Others, Takes, SameDeal
<1>2. \A i \in DOMAIN T : T[i].amount <= T[i].amount /\ T[i].amount \in Nat
  BY DEF HasAmounts
<1>3. \A i \in DOMAIN T : /\ U[i].owner = T[i].owner /\ U[i].producer = T[i].producer
                          /\ U[i].bidTime = T[i].bidTime /\ U[i].amount <= T[i].amount
  <2>1. U[id].amount <= T[id].amount
    BY <1>1, <1>2
  <2> QED BY <1>1, <1>2, <2>1
<1>4. y \in DOMAIN U /\ \A i \in DOMAIN U : i # y => i \in DOMAIN T
  BY <1>1
<1> QED BY <1>1, <1>3, <1>4 DEF Gets

\* Then what it has bought grows by no more than the amount, and by no other bid.
LEMMA GetsMore ==
  ASSUME NEW T, NEW U, HasAmounts(T), HasAmounts(U), NEW c, NEW ts, NEW amount \in Nat,
         Gets(T, U, c, ts, amount), NEW t
  PROVE  /\ AmountSum(T, Bought(T, c, t)) \in Nat /\ AmountSum(U, Bought(U, c, t)) \in Nat
         /\ AmountSum(U, Bought(U, c, t)) <= AmountSum(T, Bought(T, c, t)) + amount
         /\ \A id \in Bought(U, c, t) :
              \/ U # T /\ U[id].bidTime = ts
              \/ id \in Bought(T, c, t) /\ U[id].bidTime = T[id].bidTime
<1> DEFINE S == Bought(T, c, t)
           R == Bought(U, c, t)
<1>1. S \subseteq DOMAIN T /\ R \subseteq DOMAIN U
  BY DEF Bought
<1>2. AmountSum(T, S) \in Nat /\ AmountSum(U, R) \in Nat
  <2> HIDE DEF S, R
  <2> QED BY <1>1, HeldSum
<1>3. CASE U = T /\ amount = 0
  BY <1>2, <1>3
<1>4. CASE U # T
  <2>1. PICK z \in DOMAIN U :
          /\ U[z].amount = amount /\ U[z].bidTime = ts
          /\ \A i \in DOMAIN U : i # z /\ U[i].owner = c /\ U[i].producer # c =>
               /\ i \in DOMAIN T /\ T[i].owner = c /\ T[i].producer # c
               /\ T[i].bidTime = U[i].bidTime /\ U[i].amount <= T[i].amount
    BY <1>4 DEF Gets
  <2>2. \A i \in R \ {z} : i \in S /\ U[i].bidTime = T[i].bidTime /\ U[i].amount <= T[i].amount
    BY <2>1 DEF Bought
  <2> HIDE DEF S, R
  <2>3. R \subseteq S \cup {z} /\ \A i \in R \ {z} : U[i].amount <= T[i].amount
    BY <2>2
  <2>4. AmountSum(U, R) <= AmountSum(T, S) + U[z].amount
    BY <1>1, <2>3, HeldAdds
  <2>5. \A id \in R : (U # T /\ U[id].bidTime = ts) \/ (id \in S /\ U[id].bidTime = T[id].bidTime)
    BY <1>4, <2>1, <2>2
  <2> QED BY <1>2, <2>1, <2>4, <2>5 DEF S, R
<1>5. CASE U = T /\ amount # 0
  <2>1. PICK z \in DOMAIN U : U[z].amount = amount
    BY <1>5 DEF Gets
  <2>2. AmountSum(U, R) <= AmountSum(T, S) + amount
    BY <1>2, <1>5
  <2> QED BY <1>2, <1>5, <2>2
<1> QED BY <1>3, <1>4, <1>5

\* A bid, whatever comes of it.
LEMMA BidDoes ==
  ASSUME NEW T, NEW now \in Nat, SplitLedger(T, now), NEW c \in Bidders, NEW x, GoodBid(x, T, now),
         NEW priority, NEW out, out = BidOnToken(T, x.id, c, x.price, priority, x.amount, x.ts, x.id \o <<c, x.n>>)
  PROVE  /\ out.amount \in Nat /\ out.amount <= x.amount
         /\ Gets(T, out.tokens, c, x.ts, out.amount)
         /\ out.message # "successful" => out.tokens = T
         /\ LedgerStep(T, out.tokens, now, {}, {c})
         /\ x.ts = now /\ TimelyLedger(T, now) => TimelyStep(T, out.tokens, now, {})
         /\ Conserves(T) => Conserves(out.tokens)
<1> DEFINE y == PartOf(x.id, c, x.n)
           U == out.tokens
<1>1. /\ x.n \in Nat /\ x.id \in DOMAIN T /\ x.price = Price /\ x.amount \in Nat \ {0} /\ x.amount \in Nat
      /\ x.ts \in Nat
  BY DEF GoodBid
<1>2. SplitToken(T[x.id], now) /\ HasAmounts(T)
  BY <1>1, LedgerAmounts DEF SplitLedger
<1>3. out = BidOnToken(T, x.id, c, Price, priority, x.amount, x.ts, y)
  BY <1>1 DEF PartOf
<1>4. y = PartOf(x.id, c, x.n)
  OBVIOUS
<1> HIDE DEF y
<1>5. \/ U = T /\ out.amount = 0 /\ out.message # "successful"
      \/ /\ BuysAll(T, U, x.id, c, x.ts, out.amount)
         /\ out.amount =< x.amount /\ out.message = "successful"
      \/ /\ BuysPart(T, U, x.id, y, c, x.ts, out.amount)
         /\ out.amount = x.amount /\ out.message = "successful"
  BY <1>1, <1>2, <1>3, BidBuys
<1>6. CASE U = T /\ out.amount = 0 /\ out.message # "successful"
  <2>1. out.amount \in Nat /\ out.amount <= x.amount
    BY <1>1, <1>6
  <2>2. Gets(T, U, c, x.ts, out.amount)
    BY <1>6 DEF Gets
  <2>3. LedgerStep(T, T, now, {}, {c}) /\ (TimelyLedger(T, now) => TimelyStep(T, T, now, {}))
    BY SameStep
  <2> QED BY <1>6, <2>1, <2>2, <2>3
<1>7. CASE /\ BuysAll(T, U, x.id, c, x.ts, out.amount)
           /\ out.amount =< x.amount /\ out.message = "successful"
  <2>1. out.amount \in Nat
    BY <1>1, <1>2, <1>7 DEF BuysAll, SplitToken
  <2>2. BuysAll(T, U, x.id, c, x.ts, out.amount)
    BY <1>7
  <2>3. Gets(T, U, c, x.ts, out.amount)
    BY <1>2, <2>2, BuysAllGets
  <2>4. /\ LedgerStep(T, U, now, {}, {c})
        /\ TimelyLedger(T, now) /\ x.ts = now => TimelyStep(T, U, now, {})
        /\ Conserves(T) => Conserves(U)
    BY <1>1, <2>2, BuysAllStep
  <2> QED BY <1>7, <2>1, <2>3, <2>4
<1>8. CASE /\ BuysPart(T, U, x.id, y, c, x.ts, out.amount)
           /\ out.amount = x.amount /\ out.message = "successful"
  <2>1. out.amount \in Nat /\ out.amount \in Nat \ {0} /\ out.amount <= x.amount
    BY <1>1, <1>8
  <2>2. BuysPart(T, U, x.id, y, c, x.ts, out.amount)
    BY <1>8
  <2>3. Gets(T, U, c, x.ts, out.amount)
    BY <1>2, <2>1, <2>2, BuysPartGets
  <2>4. /\ LedgerStep(T, U, now, {}, {c})
        /\ TimelyLedger(T, now) /\ x.ts = now => TimelyStep(T, U, now, {})
        /\ Conserves(T) => Conserves(U)
    BY <1>1, <1>4, <2>1, <2>2, BuysPartStep
  <2> QED BY <1>8, <2>1, <2>3, <2>4
<1> QED BY <1>5, <1>6, <1>7, <1>8

LEMMA SubmitStep ==
  ASSUME MarketTypes, NEW c \in Bidders, NEW x \in buying[c].asked, SubmitBid(c, x)
  PROVE  MarketGoesOn({}, {c})
<1> DEFINE b == buying[c]
           out == BidOnToken(tokens, x.id, c, x.price, Priority(c), x.amount, x.ts, x.id \o <<c, x.n>>)
           won == out.message = "successful"
           s == [n |-> x.n, ts |-> x.ts, started |-> x.started]
           success == IF won THEN b.success \cup {s} ELSE b.success
<1>1. /\ LedgerTypes /\ clock \in Nat /\ SplitLedger(tokens, clock)
      /\ SplitBuy(b, tokens, clock) /\ Goals[c] \in Nat /\ lost \in Nat /\ late \in Nat
  BY SplitMarketAssumption DEF MarketTypes, LedgerTypes, Consuming
<1>2. /\ DOMAIN b = BuyFields /\ b.charged \in Nat /\ b.left \in Nat
      /\ Asks(b.asked, tokens, clock, b.left) /\ x \in b.asked
  BY <1>1 DEF SplitBuy
<1>3. GoodBid(x, tokens, clock) /\ b.pc = "bid" /\ x.amount \in Nat
  BY <1>1, <1>2 DEF Asks, SplitBuy, GoodBid
<1>4. /\ tokens' = out.tokens /\ auction' = auction
      /\ (clock = x.ts \/ late' = late + 1)
      /\ \/ /\ Consumed(c, [b EXCEPT !.asked = b.asked \ {x}, !.left = b.left - out.amount, !.success = success])
            /\ lost' = lost
         \/ lost' = lost + 1 /\ buying' = buying
  BY DEF SubmitBid
<1>5. PICK o : o = out
  OBVIOUS
<1>6. /\ o.amount \in Nat /\ o.amount <= x.amount
      /\ Gets(tokens, o.tokens, c, x.ts, o.amount)
      /\ o.message # "successful" => o.tokens = tokens
      /\ LedgerStep(tokens, o.tokens, clock, {}, {c})
      /\ x.ts = clock /\ TimelyLedger(tokens, clock) => TimelyStep(tokens, o.tokens, clock, {})
      /\ Conserves(tokens) => Conserves(o.tokens)
  <2>1. \E p : o = BidOnToken(tokens, x.id, c, x.price, p, x.amount, x.ts, x.id \o <<c, x.n>>)
    BY <1>5
  <2> HIDE DEF out, b
  <2> QED BY <1>1, <1>3, <2>1, BidDoes
<1>7. /\ success = IF o.message = "successful" THEN b.success \cup {s} ELSE b.success
      /\ tokens' = o.tokens /\ out.amount = o.amount
  BY <1>4, <1>5
<1> HIDE DEF out, success, b
<1>8. late' = 0 => clock = x.ts
  BY <1>1, <1>4
<1>9. LedgerGoesOn({}, {c})
  BY <1>6, <1>7, <1>8 DEF LedgerGoesOn
<1>10. ProducersGoOn
  BY <1>1, <1>4, <1>9, ProducersRest
<1>11. CASE lost' = lost + 1 /\ buying' = buying
  <2>1. lost' # 0
    BY <1>1, <1>11
  <2>2. ConsumersGoOn
    BY <1>9, <1>11, <2>1, ConsumersRest
  <2> QED BY <1>9, <1>10, <2>2 DEF MarketGoesOn
<1>12. CASE Consumed(c, [b EXCEPT !.asked = b.asked \ {x}, !.left = b.left - out.amount, !.success = success])
  <2>1. PICK n : n = [b EXCEPT !.asked = b.asked \ {x}, !.left = b.left - o.amount, !.success = success]
    OBVIOUS
  <2>2. buying' = [buying EXCEPT ![c] = n]
    BY <1>7, <1>12, <2>1 DEF Consumed
  <2>3. /\ DOMAIN n = BuyFields /\ n.pc = b.pc /\ n.charged = b.charged /\ n.left = b.left - o.amount
        /\ n.valid = b.valid /\ n.asked = b.asked \ {x} /\ n.success = success /\ n.bids = b.bids
        /\ n.first = b.first /\ n.last = b.last /\ n.early = b.early /\ n.due = b.due
    BY <1>2, <2>1 DEF BuyFields
  <2>4. /\ HasAmounts(tokens) /\ HasAmounts(tokens') /\ Keeps(tokens, tokens')
        /\ DOMAIN tokens \subseteq DOMAIN tokens'
    BY <1>6, <1>7, LedgersAdd
  <2>5. SplitBuy(b, tokens', clock)
    BY <1>1, <2>4, BuyStays
  <2>6. n.left \in Nat /\ Asks(n.asked, tokens', clock, n.left)
    <3>1. Asks(b.asked, tokens', clock, b.left)
      BY <2>5 DEF SplitBuy
    <3>2. b.left - o.amount \in Nat /\ Asks(b.asked \ {x}, tokens', clock, b.left - o.amount)
      BY <1>2, <1>6, <3>1, AsksShrink
    <3> QED BY <2>3, <3>2
  <2>7. success \subseteq b.success \cup {s} /\ s.ts = x.ts
    BY <1>7
  <2>8. SplitBuy(n, tokens', clock)
    <3>1. GoodSuccess(s, clock)
      BY <1>3 DEF GoodBid, GoodSuccess
    <3>2. \A z \in n.success : GoodSuccess(z, clock)
      BY <2>3, <2>5, <2>7, <3>1 DEF SplitBuy
    <3> HIDE DEF s
    <3> QED BY <1>3, <2>3, <2>5, <2>6, <3>2 DEF SplitBuy
  <2> HIDE DEF s
  <2>9. \A z \in n.asked \cup n.success : \E y \in b.asked \cup b.success : y.ts = z.ts
    BY <1>2, <2>3, <2>7
  <2>10. ASSUME late' = 0, TimelyLedger(tokens, clock), Owns(tokens, b, c, clock)
         PROVE  Owns(tokens', n, c, clock)
    <3>1. SettlesAll(tokens, tokens')
      BY <1>9, <2>10 DEF LedgerGoesOn, TimelyStep
    <3>2. Owns(tokens', b, c, clock)
      BY <1>2, <2>4, <2>10, <3>1, OwnsStays
    <3> QED BY <1>1, <1>3, <2>3, <2>9, <3>2, SameCharge
  <2>11. ASSUME WithinGoal(tokens, b, c, clock) PROVE WithinGoal(tokens', n, c, clock)
    <3>1. SUFFICES ASSUME NEW t \in 0..clock, RoundFits(tokens, b, c, t) PROVE RoundFits(tokens', n, c, t)
      BY <2>3, <2>11 DEF WithinGoal
    <3> DEFINE sum == AmountSum(tokens, Bought(tokens, c, t))
               next == AmountSum(tokens', Bought(tokens', c, t))
    <3>2. /\ \A z \in b.asked \cup b.success : t <= z.ts
          /\ b.charged + sum + b.left <= Goals[c]
          /\ \A id \in Bought(tokens, c, t) : \E z \in b.success : z.ts = tokens[id].bidTime
      BY <1>3, <3>1 DEF RoundFits
    <3>3. /\ sum \in Nat /\ next \in Nat /\ next <= sum + o.amount
          /\ \A id \in Bought(tokens', c, t) :
               \/ tokens' # tokens /\ tokens'[id].bidTime = x.ts
               \/ id \in Bought(tokens, c, t) /\ tokens'[id].bidTime = tokens[id].bidTime
      <4>1. Gets(tokens, tokens', c, x.ts, o.amount) /\ o.amount \in Nat
        BY <1>6, <1>7
      <4> QED BY <2>4, <4>1, GetsMore
    <3> HIDE DEF sum, next
    <3>4. n.charged + next + n.left <= Goals[c]
      BY <1>1, <1>2, <1>6, <2>3, <2>6, <3>2, <3>3
    <3>5. \A id \in Bought(tokens', c, t) : \E z \in n.success : z.ts = tokens'[id].bidTime
      <4>1. b.success \subseteq n.success
        BY <1>7, <2>3
      <4>2. tokens' # tokens => s \in n.success
        BY <1>6, <1>7, <2>3
      <4> QED BY <2>7, <3>2, <3>3, <4>1, <4>2
    <3>6. \A z \in n.asked \cup n.success : t <= z.ts
      BY <2>9, <3>2
    <3> QED BY <1>3, <2>3, <3>4, <3>5, <3>6 DEF RoundFits, next
  <2>12. ConsumersGoOn
    <3>1. {c} \subseteq {c}
      OBVIOUS
    <3>2. Owns(tokens, b, c, clock) = Owns(tokens, buying[c], c, clock)
          /\ WithinGoal(tokens, b, c, clock) = WithinGoal(tokens, buying[c], c, clock)
      BY DEF b
    <3> QED BY <1>9, <2>2, <2>8, <2>10, <2>11, <3>1, ConsumerDoes DEF b
  <2> QED BY <1>9, <1>10, <2>12 DEF MarketGoesOn
<1> QED BY <1>4, <1>11, <1>12

-----------------------------------------------------------------------------
(* The invariant.                                                             *)

\* What is bought is within the goals unless an answer was lost, and the rest but
\* for the amounts holds unless a bid came late.
SplitInv ==
  /\ MarketTypes
  /\ Conserves(tokens)
  /\ late = 0 =>
       TimelyLedger(tokens, clock) /\ Counts(tokens, auction) /\ Owning(buying, tokens, clock)
  /\ lost = 0 /\ late = 0 => Fitting(buying, tokens, clock)

\* Steps at one time.
LEMMA MarketMoves ==
  ASSUME SplitInv, NEW G, NEW C, MarketGoesOn(G, C), clock' = clock,
         lost' \in {lost, lost + 1}, late' \in {late, late + 1}
  PROVE  SplitInv'
<1>1. /\ clock \in 0..MarketEnd /\ lost \in Nat /\ late \in Nat
      /\ TimelyLedger(tokens, clock) \/ late # 0
  BY DEF SplitInv, MarketTypes, LedgerTypes
<1>2. /\ lost' \in Nat /\ late' \in Nat
      /\ late' = 0 => late = 0
      /\ lost' = 0 => lost = 0
  BY <1>1
<1>3. /\ SplitLedger(tokens', clock)
      /\ late' = 0 /\ TimelyLedger(tokens, clock) => TimelyLedger(tokens', clock)
      /\ Conserves(tokens')
  BY DEF SplitInv, MarketGoesOn, LedgerGoesOn, LedgerStep, TimelyStep
<1>4. /\ Working(auction', tokens', clock) /\ Belong(tokens', auction')
      /\ late' = 0 /\ TimelyLedger(tokens, clock) /\ Counts(tokens, auction) => Counts(tokens', auction')
  BY DEF SplitInv, MarketGoesOn, ProducersGoOn
<1>5. /\ Consuming(buying', tokens', clock)
      /\ late' = 0 /\ TimelyLedger(tokens, clock) /\ Owning(buying, tokens, clock) =>
           Owning(buying', tokens', clock)
      /\ late' = 0 /\ lost' = 0 /\ TimelyLedger(tokens, clock) /\ Fitting(buying, tokens, clock) =>
           Fitting(buying', tokens', clock)
  BY DEF MarketGoesOn, ConsumersGoOn
<1>6. MarketTypes'
  BY <1>1, <1>2, <1>3, <1>4, <1>5 DEF MarketTypes, LedgerTypes
<1>7. late' = 0 =>
        TimelyLedger(tokens', clock) /\ Counts(tokens', auction') /\ Owning(buying', tokens', clock)
  BY <1>2, <1>3, <1>4, <1>5 DEF SplitInv
<1>8. lost' = 0 /\ late' = 0 => Fitting(buying', tokens', clock)
  BY <1>2, <1>5 DEF SplitInv
<1> QED BY <1>3, <1>6, <1>7, <1>8 DEF SplitInv

LEMMA SplitTicks ==
  ASSUME SplitInv, Tick
  PROVE  SplitInv'
<1>1. /\ clock \in 0..MarketEnd /\ clock \in Nat /\ MarketEnd \in Nat
      /\ SplitLedger(tokens, clock) /\ Working(auction, tokens, clock)
      /\ Belong(tokens, auction) /\ Consuming(buying, tokens, clock) /\ lost \in Nat /\ late \in Nat
  BY SplitMarketAssumption DEF SplitInv, MarketTypes, LedgerTypes
<1>2. /\ clock < MarketEnd /\ clock' = clock + 1
      /\ tokens' = tokens /\ auction' = auction /\ buying' = buying /\ lost' = lost /\ late' = late
  BY DEF Tick
<1>3. clock + 1 \in Nat /\ clock <= clock + 1 /\ clock + 1 \in 0..MarketEnd
  BY <1>1, <1>2
<1>4. SplitLedger(tokens, clock + 1) /\ (TimelyLedger(tokens, clock) => TimelyLedger(tokens, clock + 1))
  BY <1>1, LedgerTicks
<1>5. Working(auction, tokens, clock + 1)
  BY <1>1, <1>3, WorkStays DEF Working
<1>6. Consuming(buying, tokens, clock + 1)
  BY <1>1, <1>3, BuyStays DEF Consuming
<1>7. Owning(buying, tokens, clock) => Owning(buying, tokens, clock + 1)
  <2>1. \A t \in 0..clock : t \in 0..(clock + 1)
    BY <1>1
  <2> QED BY <2>1 DEF Owning, Owns
<1>8. Fitting(buying, tokens, clock) => Fitting(buying, tokens, clock + 1)
  <2>1. \A t \in 0..clock : t \in 0..(clock + 1)
    BY <1>1
  <2> QED BY <2>1 DEF Fitting, WithinGoal
<1>9. MarketTypes'
  BY <1>1, <1>2, <1>3, <1>4, <1>5, <1>6 DEF MarketTypes, LedgerTypes
<1> QED BY <1>2, <1>4, <1>7, <1>8, <1>9 DEF SplitInv

LEMMA SplitBegins ==
  ASSUME SplitInit
  PROVE  SplitInv
<1>1. /\ clock = 0 /\ DOMAIN tokens = {} /\ auction = [g \in Gens |-> Producing]
      /\ buying = [c \in Bidders |-> Buying] /\ lost = 0 /\ late = 0
  BY DEF SplitInit
<1>2. clock \in 0..MarketEnd
  BY <1>1, SplitMarketAssumption
<1>3. SplitLedger(tokens, clock) /\ TimelyLedger(tokens, clock) /\ Conserves(tokens)
  BY <1>1, FS_EmptySet DEF SplitLedger, TimelyLedger, Conserves
<1>4. Working(auction, tokens, clock) /\ Belong(tokens, auction) /\ Counts(tokens, auction)
  <2>1. SplitWork(Producing, tokens, clock)
    BY <1>1 DEF SplitWork, Producing, WorkFields
  <2>2. Producing.pc = "create" /\ Producing.soldOut = FALSE
    BY DEF Producing
  <2> QED BY <1>1, <2>1, <2>2 DEF Working, Belong, BelongsTo, Counts, EndedCounts, SoldOutOf
<1>5. /\ DOMAIN Buying = BuyFields /\ Buying.pc = "ask" /\ Buying.charged = 0 /\ Buying.left = 0
      /\ Buying.valid = <<>> /\ Buying.asked = {} /\ Buying.success = {} /\ Buying.bids = 0
      /\ Buying.first = 0 /\ Buying.last = 0 /\ Buying.due = 0 /\ Buying.early = FALSE
  BY DEF Buying, BuyFields
<1>6. HasAmounts(tokens)
  BY <1>1, FS_EmptySet DEF HasAmounts
<1>7. SplitBuy(Buying, tokens, clock)
  <2>1. Summable(AskedFor({}), {})
    BY FS_EmptySet DEF Summable
  <2>2. AskedSum({}) = 0
    BY <2>1, TotalFacts DEF AskedSum
  <2>3. Asks({}, tokens, clock, 0)
    BY <2>2, FS_EmptySet DEF Asks
  <2>4. Asks(Buying.asked, tokens, clock, Buying.left)
    BY <1>5, <2>3
  <2>5. Buying.valid \in Seq(Finds(tokens, clock))
    BY <1>5
  <2>8. Buying.early \in BOOLEAN
    BY DEF Buying
  <2>6. Buying.charged \in Nat /\ Buying.left \in Nat /\ Buying.bids \in Nat
        /\ Buying.first \in Nat /\ Buying.last \in Nat /\ Buying.due \in Nat
    BY <1>5
  <2>7. \A x \in Buying.success : GoodSuccess(x, clock)
    BY <1>5
  <2> QED BY <1>5, <2>4, <2>5, <2>6, <2>7, <2>8 DEF SplitBuy
<1>8. \A c \in Bidders : Owns(tokens, Buying, c, clock) /\ WithinGoal(tokens, Buying, c, clock)
  <2>1. SUFFICES ASSUME NEW c \in Bidders
                 PROVE  ChargedBefore(tokens, Buying, c, 0) /\ RoundFits(tokens, Buying, c, 0)
    BY <1>1 DEF Owns, WithinGoal
  <2>2. Bought(tokens, c, 0) = {} /\ OwnedBefore(tokens, c, 0) = {}
    BY <1>1 DEF Bought, OwnedBefore
  <2>3. AmountSum(tokens, OwnedBefore(tokens, c, 0)) = 0
    BY <1>6, <2>2, HeldNone
  <2>4. Goals[c] \in Nat
    BY SplitMarketAssumption
  <2> QED BY <1>5, <2>2, <2>3, <2>4 DEF ChargedBefore, RoundFits
<1>9. Consuming(buying, tokens, clock) /\ Owning(buying, tokens, clock) /\ Fitting(buying, tokens, clock)
  BY <1>1, <1>7, <1>8 DEF Consuming, Owning, Fitting
<1>10. MarketTypes
  BY <1>1, <1>2, <1>3, <1>4, <1>9 DEF MarketTypes, LedgerTypes
<1> QED BY <1>3, <1>4, <1>9, <1>10 DEF SplitInv

\* A step of a producer.
LEMMA ProducersMove ==
  ASSUME MarketTypes, NEW G, LedgerGoesOn(G, {}), ProducersGoOn, buying' = buying
  PROVE  MarketGoesOn(G, {})
<1>1. ConsumersGoOn
  BY ConsumersRest
<1> QED BY <1>1 DEF MarketGoesOn

LEMMA SplitSteps ==
  ASSUME SplitInv, Steps
  PROVE  SplitInv'
<1>1. MarketTypes /\ LedgerTypes
  BY DEF SplitInv, MarketTypes
<1>2. ASSUME NEW g \in Gens, Create(g) PROVE SplitInv'
  <2>1. MarketGoesOn({g}, {})
    BY <1>1, <1>2, CreateStep, ProducersMove DEF Create
  <2> QED BY <1>2, <2>1, MarketMoves DEF Create
<1>3. ASSUME NEW g \in Gens, EndQuery(g) PROVE SplitInv'
  <2>1. MarketGoesOn({}, {})
    BY <1>1, <1>3, EndQueryStep, ProducersMove DEF EndQuery
  <2> QED BY <1>3, <2>1, MarketMoves DEF EndQuery
<1>4. ASSUME NEW g \in Gens, NEW id \in auction[g].toEnd, EndToken(g, id) PROVE SplitInv'
  <2>1. MarketGoesOn({}, {})
    BY <1>1, <1>4, EndTokenStep, ProducersMove DEF EndToken
  <2> QED BY <1>4, <2>1, MarketMoves DEF EndToken
<1>5. ASSUME NEW g \in Gens, EndSum(g) PROVE SplitInv'
  <2>1. MarketGoesOn({}, {})
    BY <1>1, <1>5, EndSumStep, ProducersMove DEF EndSum
  <2> QED BY <1>5, <2>1, MarketMoves DEF EndSum
<1>6. ASSUME NEW c \in Bidders, Search(c) PROVE SplitInv'
  BY <1>1, <1>6, SearchStep, MarketMoves DEF Search
<1>7. ASSUME NEW c \in Bidders, AskAgain(c) PROVE SplitInv'
  BY <1>1, <1>7, AskAgainStep, MarketMoves DEF AskAgain
<1>8. ASSUME NEW c \in Bidders, Tally(c) PROVE SplitInv'
  BY <1>1, <1>8, TallyStep, MarketMoves DEF Tally
<1>9. ASSUME NEW c \in Bidders, Check(c) PROVE SplitInv'
  BY <1>1, <1>9, CheckStep, MarketMoves DEF Check
<1>10. ASSUME NEW c \in Bidders, TimeUp(c) PROVE SplitInv'
  BY <1>1, <1>10, TimeUpStep, MarketMoves DEF TimeUp
<1>11. ASSUME NEW c \in Bidders, NEW x \in buying[c].asked, SubmitBid(c, x) PROVE SplitInv'
  BY <1>1, <1>11, SubmitStep, MarketMoves DEF SubmitBid
<1>12. CASE Tick
  BY <1>12, SplitTicks
<1> QED BY <1>2, <1>3, <1>4, <1>5, <1>6, <1>7, <1>8, <1>9, <1>10, <1>11, <1>12 DEF Steps

LEMMA SplitRests ==
  ASSUME SplitInv, UNCHANGED splitVars
  PROVE  SplitInv'
<1>1. /\ clock' = clock /\ tokens' = tokens /\ auction' = auction /\ buying' = buying
      /\ lost' = lost /\ late' = late
  BY DEF splitVars
<1> QED BY <1>1 DEF SplitInv, MarketTypes, LedgerTypes

LEMMA SplitInvWorks ==
  ASSUME SplitInv
  PROVE  SplitMarketWorks
<1>1. /\ SplitLedger(tokens, clock) /\ HasAmounts(tokens) /\ Conserves(tokens)
      /\ clock \in Nat /\ Consuming(buying, tokens, clock)
  <2>1. SplitLedger(tokens, clock) /\ Conserves(tokens) /\ clock \in Nat /\ Consuming(buying, tokens, clock)
    BY SplitMarketAssumption DEF SplitInv, MarketTypes, LedgerTypes
  <2> QED BY <2>1, LedgerAmounts
<1>2. EnergyIsConserved
  <2>1. SUFFICES ASSUME NEW g \in Gens, NEW n \in 0..(MaxTries - 1), <<g, n>> \in DOMAIN tokens
                 PROVE  AmountOf({id \in DOMAIN tokens : SubSeq(id, 1, 2) = <<g, n>>}) = Output[g]
    BY DEF EnergyIsConserved
  <2> DEFINE r == <<g, n>>
             K == {id \in DOMAIN tokens : SubSeq(id, 1, 2) = r}
  <2>2. n \in Nat
    BY SplitMarketAssumption
  <2>3. RootOf(r) = r /\ r[1] = g
    BY <2>2, RootName
  <2>4. K = ClassOf(tokens, r)
    BY DEF ClassOf, RootOf
  <2>5. r \in DOMAIN tokens
    BY <2>1
  <2> HIDE DEF r, K
  <2>6. AmountSum(tokens, K) = Output[g]
    BY <1>1, <2>3, <2>4, <2>5 DEF Conserves
  <2>7. AmountOf(K) = Output[g]
    BY <2>6 DEF AmountOf, AmountSum
  <2> QED BY <2>7 DEF K, r
<1>3. SoldOutIsOver
  <2>1. SUFFICES ASSUME NEW g \in Gens, auction[g].soldOut, auction[g].tries = 0, late = 0, Alone(g),
                        NEW id \in DOMAIN tokens, tokens[id].gen = g
                 PROVE  tokens[id].status # "generated"
    BY DEF SoldOutIsOver
  <2>2. SoldOutOf(tokens, auction[g], g)
    BY <2>1 DEF SplitInv, Counts
  <2>3. AloneIn(tokens, auction[g], g)
    BY <2>1 DEF Alone, AloneIn
  <2> QED BY <2>1, <2>2, <2>3 DEF SoldOutOf
<1>4. ChargedIsOwned
  <2>1. SUFFICES ASSUME late = 0, NEW c \in Bidders
                 PROVE  buying[c].charged <= AmountOf({id \in DOMAIN tokens :
                                                         tokens[id].owner = c /\ tokens[id].status = "sold"})
    BY DEF ChargedIsOwned
  <2>2. PICK t \in 0..clock : ChargedBefore(tokens, buying[c], c, t)
    BY <2>1 DEF SplitInv, Owning, Owns
  <2> DEFINE S == OwnedBefore(tokens, c, t)
             R == {id \in DOMAIN tokens : tokens[id].owner = c /\ tokens[id].status = "sold"}
  <2>3. S \subseteq R /\ S \subseteq DOMAIN tokens /\ R \subseteq DOMAIN tokens
    BY DEF OwnedBefore
  <2>4. buying[c].charged <= AmountSum(tokens, S) /\ buying[c].charged \in Nat
    BY <1>1, <2>2 DEF ChargedBefore, Consuming, SplitBuy
  <2> HIDE DEF S, R
  <2>5. \A id \in S : tokens[id].amount <= tokens[id].amount
    BY <1>1, <2>3 DEF HasAmounts
  <2>6. AmountSum(tokens, S) <= AmountSum(tokens, R)
    BY <1>1, <2>3, <2>5, HeldGrows
  <2>7. AmountSum(tokens, S) \in Nat /\ AmountSum(tokens, R) \in Nat
    BY <1>1, <2>3, HeldSum
  <2>8. buying[c].charged <= AmountSum(tokens, R)
    BY <2>4, <2>6, <2>7
  <2>9. AmountOf(R) = AmountSum(tokens, R)
    BY DEF AmountOf, AmountSum
  <2> QED BY <2>8, <2>9 DEF R
<1>5. NeverOverfull
  <2>1. SUFFICES ASSUME lost = 0, late = 0, NEW c \in Bidders, ~buying[c].early
                 PROVE  buying[c].charged <= Goals[c]
    BY DEF NeverOverfull
  <2>2. PICK t \in 0..clock : RoundFits(tokens, buying[c], c, t)
    BY <2>1 DEF SplitInv, Fitting, WithinGoal
  <2>3. /\ buying[c].charged \in Nat /\ buying[c].left \in Nat /\ Goals[c] \in Nat
        /\ buying[c].pc \in {"ask", "bid", "check", "done"}
    BY <1>1, SplitMarketAssumption DEF Consuming, SplitBuy
  <2>4. Bought(tokens, c, t) \subseteq DOMAIN tokens
    BY DEF Bought
  <2>5. AmountSum(tokens, Bought(tokens, c, t)) \in Nat
    BY <1>1, <2>4, HeldSum
  <2> QED BY <2>2, <2>3, <2>5 DEF RoundFits
<1> QED BY <1>2, <1>3, <1>4, <1>5 DEF SplitMarketWorks

\* Whoever bids how often on what, and however many answers are lost or bids come late,
\* the earlier market keeps the amounts of what it splits, ends no auction before all of
\* it is sold, and charges nobody more than it owns or wants (b4-chaincode-go and
\* application-gateway-go of b4/proposal).  The bounds of SplitNext are not assumed.
THEOREM EarlierMarketWorks == SplitInit /\ [][Steps]_splitVars => []SplitMarketWorks
<1>1. SplitInit => SplitInv
  BY SplitBegins
<1>2. SplitInv /\ [Steps]_splitVars => SplitInv'
  BY SplitSteps, SplitRests
<1>3. SplitInv => SplitMarketWorks
  BY SplitInvWorks
<1> QED BY <1>1, <1>2, <1>3, PTL

\* The same of the steps within the bounds that the run checks.
COROLLARY BoundedMarketWorks == SplitInit /\ [][SplitNext]_splitVars => []SplitMarketWorks
<1>1. [SplitNext]_splitVars => [Steps]_splitVars
  BY DEF SplitNext
<1> QED BY <1>1, EarlierMarketWorks, PTL

=============================================================================
