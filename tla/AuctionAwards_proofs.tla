------------------------ MODULE AuctionAwards_proofs ------------------------
(* What is sold and what the winners get, for any producers, buyers, tokens   *)
(* and bids, and any delays, failures and retries: the energy counted as sold *)
(* covers the awards, and is exactly them as long as no call has failed; no   *)
(* token is left behind without an auction; every value keeps its kind.       *)
EXTENDS AuctionHouse_proofs

-----------------------------------------------------------------------------
(* What a world promises the winners of a token.                              *)

WinnersIn(s, e) == {b \in Bids : Settled(s[b]) /\ s[b].energy = e}
Amounts(s) == [b \in Bids |-> IF Settled(s[b]) THEN s[b].amount ELSE 0]
Promised(s, e) == Total(Amounts(s), WinnersIn(s, e))

LEMMA AmountsAdd ==
  ASSUME NEW s, World(s), NEW S \in SUBSET Bids
  PROVE  Summable(Amounts(s), S)
<1>1. \A b \in Bids : Amounts(s)[b] \in Nat
  BY DEF World, HouseBid, Amounts, Settled
<1> QED BY <1>1, FS_Subset, ContractAssumption DEF Summable

LEMMA PromisedIsNat ==
  ASSUME NEW s, World(s), NEW e
  PROVE  Promised(s, e) \in Nat
<1> DEFINE W == WinnersIn(s, e)
<1>1. W \in SUBSET Bids
  BY DEF WinnersIn
<1>2. Summable(Amounts(s), W)
  BY <1>1, AmountsAdd
<1> QED BY <1>2, TotalFacts DEF Promised

LEMMA AwardedTotal ==
  ASSUME NEW s, World(s), NEW e
  PROVE  AmountSum(s, WinnersIn(s, e)) = Promised(s, e)
<1> DEFINE W == WinnersIn(s, e)
           f == [b \in W |-> s[b].amount]
<1>1. W \in SUBSET Bids /\ \A b \in W : Amounts(s)[b] = f[b]
  BY DEF WinnersIn, Amounts
<1>2. Summable(Amounts(s), W)
  BY <1>1, AmountsAdd
<1>3. Summable(f, W) /\ Total(Amounts(s), W) = Total(f, W)
  <2> HIDE DEF W, f
  <2> QED BY <1>1, <1>2, TotalSame
<1> QED BY <1>3, AmountTotal DEF Promised

LEMMA AwardedIs ==
  ASSUME NEW e, World(ws)
  PROVE  AwardedOn(e) = Promised(ws, e)
<1>1. Winners(e) = WinnersIn(ws, e)
  BY DEF Winners, WinnersIn, BidsOn, Settled
<1>2. AwardedOn(e) = AmountSum(ws, Winners(e))
  BY DEF AwardedOn, AmountSum, MapThenSumSet, MapThenFoldSet
<1> QED BY <1>1, <1>2, AwardedTotal

\* The awards of a list add up to n.
ListSum(list, n) ==
  \E g : Sums(g, Len(list), [i \in 1..Len(list) |-> list[i].amount]) /\ g[Len(list)] = n

\* A settlement adds what its list adds up to, less what was settled before.
LEMMA SettlementAdds ==
  ASSUME NEW s, World(s), NEW t, World(t), NEW e,
         NEW list \in HouseAwards, Awarded(list) \subseteq Bids, NEW n, ListSum(list, n),
         \A b \in WinnersIn(s, e) : t[b] = s[b],
         WinnersIn(t, e) = WinnersIn(s, e) \cup Awarded(list),
         \A i \in DOMAIN list : t[list[i].id].amount = list[i].amount
  PROVE  /\ n \in Nat
         /\ Promised(t, e) =< Promised(s, e) + n
         /\ Awarded(list) \cap WinnersIn(s, e) = {} => Promised(t, e) = Promised(s, e) + n
<1> DEFINE L == Len(list)
           A == Awarded(list)
           W == WinnersIn(s, e)
           V == WinnersIn(t, e)
           f == Amounts(t)
           q == [i \in 1..L |-> list[i].id]
<1>1. /\ L \in Nat /\ DOMAIN list = 1..L
      /\ \A i, j \in 1..L : i # j => list[i].id # list[j].id
  BY DEF HouseAwards
<1>2. PICK g : Sums(g, L, [i \in 1..L |-> list[i].amount]) /\ g[L] = n
  BY DEF ListSum
<1>3. \A i \in 1..L : q[i] \in Bids /\ q[i] \in A
  BY <1>1 DEF Awarded
<1>4. A = {q[i] : i \in 1..L}
  BY <1>1 DEF Awarded
<1>5. V \in SUBSET Bids /\ A \in SUBSET V /\ W \in SUBSET V
  BY DEF WinnersIn
<1>6. \A i \in 1..L : f[q[i]] = list[i].amount
  <2>1. ASSUME NEW i \in 1..L PROVE f[q[i]] = list[i].amount
    <3>1. q[i] \in V /\ q[i] \in Bids
      BY <1>3, <1>5
    <3>2. f[q[i]] = t[q[i]].amount
      BY <3>1 DEF Amounts, WinnersIn
    <3> QED BY <1>1, <3>2
  <2> QED BY <2>1
<1>7. Summable(f, V) /\ Summable(f, A) /\ Summable(f, W) /\ Summable(f, V \ W)
  BY <1>5, AmountsAdd
<1>8. [i \in 1..L |-> list[i].amount] = [i \in 1..L |-> f[q[i]]]
  BY <1>6
<1> HIDE DEF f, A, W, V
<1>9. Total(f, A) = n
  <2>1. q \in [1..L -> A]
    BY <1>3
  <2>2. \A i, j \in 1..L : i # j => q[i] # q[j]
    BY <1>1
  <2>3. L \in Nat /\ Sums(g, L, [i \in 1..L |-> f[q[i]]]) /\ Summable(f, A)
    BY <1>1, <1>2, <1>7, <1>8
  <2> HIDE DEF q, L
  <2>4. Total(f, {q[i] : i \in 1..L}) = g[L]
    BY <2>1, <2>2, <2>3, ListTotal
  <2>5. A = {q[i] : i \in 1..L} /\ g[L] = n
    BY <1>2, <1>4 DEF q, L
  <2> QED BY <2>4, <2>5
<1>10. Total(f, A) \in Nat
  BY <1>7, TotalFacts
<1>11. Total(f, V) = Total(f, W) + Total(f, V \ W)
  BY <1>5, <1>7, TotalSplits
<1>12. V \ W \in SUBSET A /\ (A \cap W = {} => V \ W = A)
  BY DEF V, W, A
<1>13. Total(f, V \ W) =< Total(f, A)
  BY <1>7, <1>12, TotalOfPart
<1>14. Total(f, W) = Total(Amounts(s), W)
  <2>1. \A b \in W : f[b] = Amounts(s)[b]
    BY DEF W, f, Amounts, WinnersIn
  <2> QED BY <1>7, <2>1, TotalSame
<1>15. Promised(t, e) = Total(f, V) /\ Promised(s, e) = Total(f, W)
  BY <1>14 DEF Promised, f, V, W
<1>16. Total(f, W) \in Nat /\ Total(f, V \ W) \in Nat
  BY <1>7, TotalFacts
<1>17. A \cap W = {} => Total(f, V \ W) = n
  BY <1>9, <1>12
<1> QED BY <1>9, <1>10, <1>11, <1>13, <1>15, <1>16, <1>17 DEF A, W

LEMMA PromisedStays ==
  ASSUME NEW s, World(s), NEW t, NEW e,
         \A b \in Bids : \/ t[b] = s[b]
                         \/ /\ ~(Settled(s[b]) /\ s[b].energy = e)
                            /\ ~(Settled(t[b]) /\ t[b].energy = e)
  PROVE  Promised(t, e) = Promised(s, e)
<1>1. WinnersIn(t, e) = WinnersIn(s, e)
  BY DEF WinnersIn, Settled
<1> DEFINE W == WinnersIn(s, e)
<1>2. W \in SUBSET Bids /\ \A b \in W : Amounts(s)[b] = Amounts(t)[b]
  BY DEF WinnersIn, Amounts
<1>3. Summable(Amounts(s), W)
  BY <1>2, AmountsAdd
<1>4. Total(Amounts(s), W) = Total(Amounts(t), W)
  BY <1>2, <1>3, TotalSame
<1> QED BY <1>1, <1>4 DEF Promised

-----------------------------------------------------------------------------
(* The invariant.  As long as no call has failed, every transaction is        *)
(* awaited, so that a settlement that commits is the one its goroutine is     *)
(* working on, and none of its bids has been settled before (OfferNew).  The  *)
(* last tick is late enough for the contract to call the token old (Timed),   *)
(* and an auction that has found bids for all its energy is told that it is   *)
(* sold, or that the amount is wrong (Told): there is no other end for it     *)
(* (Ends).  A token of a goroutine is the one it has asked for last (Keeps).  *)

Timed(a) ==
  /\ a.ticks \in Nat /\ a.due \in Nat
  /\ a.pc \in {"idle", "create", "creating"} => a.ticks = 0
  /\ a.pc = "wait" => a.ticks =< LaterTicks
  /\ a.pc \in {"query", "submit", "submitted"} =>
       a.ticks \in 1..(LaterTicks + 1) /\ a.ts >= a.gen + a.ticks * Interval
  /\ a.pc \in {"wait", "query", "submit", "submitted"} =>
       a.due >= a.gen + (a.ticks + 1) * Interval

Offered(a, m) ==
  a.pc \in {"submit", "submitted"} =>
    /\ ListSum(a.offer, a.amount)
    /\ a.isSold \in BOOLEAN
    /\ a.isSold = TRUE => a.amount = Output[m]

Accounts == {"auction end", OldMessage, "auction continue", "energy amount is wrong"}
Endings == {"auction end", OldMessage, "time up", "energy amount is wrong", "many create error"}

\* r is what the goroutine has been answered.
Told(a, r) ==
  a.pc = "submitted" /\ r.kind = "ok" =>
    /\ r.msg \in Accounts \cup Refusals
    /\ ContractLife =< TokenLife /\ r.msg = "auction continue" =>
         a.isSold = FALSE /\ a.ticks =< LaterTicks

Ends(a) == ContractLife =< TokenLife /\ a.pc = "done" => a.last \in Endings

OfferNew(a, r) ==
  a.pc \in {"submit", "submitted"} /\ ~(a.pc = "submitted" /\ r.kind = "ok") =>
    \A i \in DOMAIN a.offer : a.offer[i].id \in Bids => ~Settled(ws[a.offer[i].id])

Keeps(a, r, m) ==
  \A e \in TokenIds[m] : ws[e] # Absent =>
    /\ a.id = e
    /\ a.pc \notin {"idle", "create"}
    /\ a.pc = "creating" => r.kind = "ok"
    /\ a.pc = "done" => a.last # "many create error"

MakerOK(a, r, m) ==
  /\ Timed(a) /\ Offered(a, m) /\ Told(a, r) /\ Ends(a)
  /\ faults = 0 => OfferNew(a, r) /\ Keeps(a, r, m)

\* What a transaction asks for.
AsksRight(tx) ==
  /\ tx.req \in Creations =>
       /\ tx.req.amount = Output[tx.client]
       /\ tx.awaited => /\ auction[tx.client].pc = "creating"
                        /\ auction[tx.client].id = tx.req.id
  /\ tx.req \in Settlements => ListSum(tx.req.bidInput, tx.req.in.amount)

HasMaker(e) == \E m \in Makers : e \in TokenIds[m] /\ ws[e].amount = Output[m]

Covers(e) ==
  /\ Promised(ws, e) =< ws[e].sold
  /\ faults = 0 => Promised(ws, e) = ws[e].sold

AwardsInv ==
  /\ AnswerInv
  /\ \A m \in Makers : MakerOK(auction[m], reply[m], m)
  /\ \A tx \in pool : AsksRight(tx)
  /\ \A e \in Energies : ws[e] # Absent => HasMaker(e) /\ Covers(e)

-----------------------------------------------------------------------------
(* A goroutine of a producer moves without sending anything.                  *)

LEMMA MakerGoesOn ==
  ASSUME AwardsInv, AnswerInv', NEW m \in Makers, NEW a, NEW r,
         UNCHANGED <<ws, pool>>,
         faults' \in {faults, faults + 1},
         reply' \in {reply, [reply EXCEPT ![m] = NoReply]},
         auction' = [auction EXCEPT ![m] = a],
         \A tx \in pool : tx.client = m => ~tx.awaited,
         r = reply'[m], MakerOK(a, r, m)
  PROVE  AwardsInv'
<1>1. auction'[m] = a /\ \A n \in Makers : n # m => auction'[n] = auction[n]
  BY DEF AwardsInv, AnswerInv, FinalInv, HouseInv, AuctionsOK
<1>2. \A c \in Clients : c # m => reply'[c] = reply[c]
  BY DEF AwardsInv, AnswerInv, FinalInv
<1>3. Makers \subseteq Clients
  BY ProducerAssumption
<1>4. faults' = 0 => faults = 0
  BY DEF AwardsInv, AnswerInv
<1>5. ASSUME NEW n \in Makers PROVE MakerOK(auction[n], reply[n], n)'
  <2>1. CASE n = m
    BY <1>1, <1>4, <2>1 DEF MakerOK, Timed, Offered, Told, Ends, OfferNew, Keeps, Settled
  <2>2. CASE n # m
    <3>1. MakerOK(auction[n], reply[n], n) /\ auction'[n] = auction[n] /\ reply'[n] = reply[n]
      BY <1>1, <1>2, <1>3, <2>2 DEF AwardsInv
    <3>2. faults' = 0 => OfferNew(auction[n], reply[n])' /\ Keeps(auction[n], reply[n], n)'
      <4>1. ws' = ws
        OBVIOUS
      <4>2. faults = 0 => OfferNew(auction[n], reply[n]) /\ Keeps(auction[n], reply[n], n)
        BY <3>1 DEF MakerOK
      <4>3. OfferNew(auction[n], reply[n]) => OfferNew(auction[n], reply[n])'
        BY <3>1, <4>1 DEF OfferNew, Settled
      <4>4. Keeps(auction[n], reply[n], n) => Keeps(auction[n], reply[n], n)'
        BY <3>1, <4>1 DEF Keeps
      <4> QED BY <1>4, <4>2, <4>3, <4>4
    <3>3. /\ Timed(auction[n])' /\ Offered(auction[n], n)'
          /\ Told(auction[n], reply[n])' /\ Ends(auction[n])'
      BY <3>1 DEF MakerOK, Timed, Offered, Told, Ends
    <3> QED BY <3>2, <3>3 DEF MakerOK
  <2> QED BY <2>1, <2>2
<1>6. ASSUME NEW tx \in pool' PROVE AsksRight(tx)'
  <2>1. tx \in pool /\ AsksRight(tx) /\ Owned(tx)
    BY DEF AwardsInv, AnswerInv, FinalInv
  <2> QED BY <1>1, <2>1 DEF AsksRight, Owned
<1>7. \A e \in Energies : ws'[e] # Absent => HasMaker(e)' /\ Covers(e)'
  BY <1>4 DEF AwardsInv, HasMaker, Covers
<1> QED BY <1>5, <1>6, <1>7 DEF AwardsInv

\* The time of a tick grows with its number, and the last tick comes after the
\* life of the token.
LEMMA TickTimes ==
  /\ LaterTicks \in Nat
  /\ \A k \in Nat : /\ k * Interval \in Nat
                    /\ (k + 1) * Interval = k * Interval + Interval
                    /\ k > LaterTicks => k * Interval > TokenLife
<1>1. Interval \in Nat \ {0} /\ TokenLife \in Nat
  BY ProducerAssumption
<1> DEFINE q == LaterTicks
<1>2. q \in Nat /\ TokenLife < (q + 1) * Interval
  <2>1. TokenLife \div Interval \in Nat
    BY <1>1
  <2>2. TokenLife < ((TokenLife \div Interval) + 1) * Interval
    BY <1>1
  <2> QED BY <2>1, <2>2 DEF LaterTicks
<1> HIDE DEF q
<1>3. ASSUME NEW k \in Nat
      PROVE  /\ k * Interval \in Nat
             /\ (k + 1) * Interval = k * Interval + Interval
             /\ k > q => k * Interval > TokenLife
  <2>1. k * Interval \in Nat /\ (k + 1) * Interval = k * Interval + Interval
    BY <1>1
  <2>2. ASSUME k > q PROVE k * Interval > TokenLife
    <3>1. (q + 1) * Interval =< k * Interval
      BY <1>1, <1>2, <2>2
    <3>2. (q + 1) * Interval \in Nat
      BY <1>1, <1>2
    <3> QED BY <1>1, <1>2, <2>1, <3>1, <3>2
  <2> QED BY <2>1, <2>2
<1> QED BY <1>2, <1>3 DEF q

\* What Finish and Waiting leave as it is.
LEMMA FinishedAs ==
  ASSUME HouseInv, NEW m \in Makers, NEW why, auction' = Finish(m, why)
  PROVE  \E a : /\ auction' = [auction EXCEPT ![m] = a]
                /\ a.pc = "done" /\ a.id = auction[m].id /\ a.ticks = auction[m].ticks
                /\ a.due = 0 /\ a.last = why
<1> DEFINE a == [auction[m] EXCEPT !.pc = "done", !.tries = 0, !.due = 0, !.ts = 0,
                                   !.offer = NoOffer, !.amount = 0, !.last = why]
<1>1. AuctionOK(auction[m], m) /\ auction' = [auction EXCEPT ![m] = a]
  BY DEF HouseInv, AuctionsOK, Finish
<1>2. /\ a.pc = "done" /\ a.id = auction[m].id /\ a.ticks = auction[m].ticks
      /\ a.due = 0 /\ a.last = why
  BY <1>1 DEF AuctionOK, AuctionFields
<1> HIDE DEF a
<1> QED BY <1>1, <1>2

LEMMA WaitingAs ==
  ASSUME HouseInv, NEW m \in Makers, NEW why, auction' = Waiting(m, why)
  PROVE  \E a : /\ auction' = [auction EXCEPT ![m] = a]
                /\ a.pc = "wait" /\ a.id = auction[m].id /\ a.ticks = auction[m].ticks
                /\ a.due = auction[m].due /\ a.gen = auction[m].gen
<1> DEFINE a == [auction[m] EXCEPT !.pc = "wait", !.tries = 0, !.ts = 0,
                            !.offer = NoOffer, !.amount = 0, !.isSold = FALSE,
                            !.last = why]
<1>1. AuctionOK(auction[m], m) /\ auction' = [auction EXCEPT ![m] = a]
  BY DEF HouseInv, AuctionsOK, Waiting
<1>2. /\ a.pc = "wait" /\ a.id = auction[m].id /\ a.ticks = auction[m].ticks
      /\ a.due = auction[m].due /\ a.gen = auction[m].gen
  BY <1>1 DEF AuctionOK, AuctionFields
<1> HIDE DEF a
<1> QED BY <1>1, <1>2

\* What is known of the time of a goroutine that has ended, and of one that waits.
LEMMA TimeIsOver ==
  ASSUME NEW a, a.pc = "done", a.ticks \in Nat, a.due = 0
  PROVE  Timed(a)
BY DEF Timed

LEMMA TimeGoesOn ==
  ASSUME NEW a, NEW b, Timed(b), b.pc \in {"query", "submitted"}, b.ticks =< LaterTicks,
         a.pc = "wait", a.ticks = b.ticks, a.due = b.due, a.gen = b.gen
  PROVE  Timed(a)
BY DEF Timed

LEMMA TimeStays ==
  ASSUME NEW a, NEW b, Timed(b), b.pc \in {"query", "submit", "submitted"},
         a.pc \in {"query", "submit", "submitted"}, a.ticks = b.ticks, a.due = b.due,
         a.gen = b.gen, a.ts = b.ts
  PROVE  Timed(a)
BY DEF Timed

\* An end for a reason a goroutine may end for.
LEMMA EndsWell ==
  ASSUME AwardsInv, AnswerInv', NEW m \in Makers, NEW why, auction' = Finish(m, why),
         UNCHANGED <<ws, pool, faults>>,
         reply' \in {reply, [reply EXCEPT ![m] = NoReply]},
         \A tx \in pool : tx.client = m => ~tx.awaited,
         ContractLife =< TokenLife => why \in Endings,
         why = "many create error" /\ faults = 0 => \A e \in TokenIds[m] : ws[e] = Absent
  PROVE  AwardsInv'
<1>1. MakerOK(auction[m], reply[m], m) /\ HouseInv
  BY DEF AwardsInv, AnswerInv, FinalInv
<1>2. PICK a : /\ auction' = [auction EXCEPT ![m] = a]
               /\ a.pc = "done" /\ a.id = auction[m].id /\ a.ticks = auction[m].ticks
               /\ a.due = 0 /\ a.last = why
  BY <1>1, FinishedAs
<1>3. ASSUME NEW r PROVE MakerOK(a, r, m)
  <2>1. Timed(a)
    <3>1. auction[m].ticks \in Nat
      BY <1>1 DEF MakerOK, Timed
    <3> QED BY <1>2, <3>1, TimeIsOver
  <2>2. Offered(a, m) /\ Told(a, r) /\ OfferNew(a, r)
    BY <1>2 DEF Offered, Told, OfferNew
  <2>4. Ends(a)
    BY <1>2 DEF Ends
  <2>3. faults = 0 => Keeps(a, r, m)
    BY <1>1, <1>2 DEF MakerOK, Keeps
  <2> QED BY <2>1, <2>2, <2>3, <2>4 DEF MakerOK
<1>4. faults' \in {faults, faults + 1}
  OBVIOUS
<1> QED BY <1>2, <1>3, <1>4, MakerGoesOn

\* Another tick to wait for.
LEMMA WaitsOn ==
  ASSUME AwardsInv, AnswerInv', NEW m \in Makers, NEW why, auction' = Waiting(m, why),
         auction[m].pc \in {"query", "submitted"}, auction[m].ticks =< LaterTicks,
         UNCHANGED <<ws, pool, faults>>,
         reply' \in {reply, [reply EXCEPT ![m] = NoReply]},
         \A tx \in pool : tx.client = m => ~tx.awaited
  PROVE  AwardsInv'
<1>1. MakerOK(auction[m], reply[m], m) /\ HouseInv
  BY DEF AwardsInv, AnswerInv, FinalInv
<1>2. PICK a : /\ auction' = [auction EXCEPT ![m] = a]
               /\ a.pc = "wait" /\ a.id = auction[m].id /\ a.ticks = auction[m].ticks
               /\ a.due = auction[m].due /\ a.gen = auction[m].gen
  BY <1>1, WaitingAs
<1>3. ASSUME NEW r PROVE MakerOK(a, r, m)
  <2>1. Timed(a)
    <3>1. Timed(auction[m])
      BY <1>1 DEF MakerOK
    <3> QED BY <1>2, <3>1, TimeGoesOn
  <2>2. Offered(a, m) /\ Told(a, r) /\ OfferNew(a, r)
    BY <1>2 DEF Offered, Told, OfferNew
  <2>4. Ends(a)
    BY <1>2 DEF Ends
  <2>3. faults = 0 => Keeps(a, r, m)
    BY <1>1, <1>2 DEF MakerOK, Keeps
  <2> QED BY <2>1, <2>2, <2>3, <2>4 DEF MakerOK
<1>4. faults' \in {faults, faults + 1}
  OBVIOUS
<1> QED BY <1>2, <1>3, <1>4, MakerGoesOn


\* Outside of settling and ending, time and token are all there is to say.
LEMMA OnlyTimed ==
  ASSUME NEW a, NEW r, NEW m, a.pc \notin {"submit", "submitted", "done"}, Timed(a),
         faults = 0 => Keeps(a, r, m)
  PROVE  MakerOK(a, r, m)
BY DEF MakerOK, Offered, Told, Ends, OfferNew

\* What is known of a goroutine that moves.
LEMMA MakerKnown ==
  ASSUME AwardsInv, NEW m \in Makers
  PROVE  /\ HouseInv /\ FinalInv /\ AgesOK /\ AnswerOK(m)
         /\ DOMAIN reply = Clients /\ m \in Clients /\ m \notin Buyers /\ faults \in Nat
         /\ AuctionOK(auction[m], m) /\ MakerOK(auction[m], reply[m], m)
         /\ auction[m].gen \in Nat /\ auction[m].ts \in Nat /\ now \in Nat
         /\ TokenIds[m] \subseteq Energies
         /\ auction[m].pc \notin {"creating", "submitted"} \/ reply[m].kind # "none" =>
              \A tx \in pool : tx.client = m => ~tx.awaited
<1>1. FinalInv /\ HouseInv /\ AgesOK /\ AnswerOK(m) /\ MakerOK(auction[m], reply[m], m)
  BY DEF AwardsInv, AnswerInv, FinalInv
<1>2. AuctionOK(auction[m], m)
  BY <1>1, NothingPending
<1>3. auction[m].gen \in Nat /\ auction[m].ts \in Nat /\ now \in Nat
  BY <1>1, <1>2, Numbers DEF AuctionOK, HouseInv
<1>4. DOMAIN reply = Clients /\ m \in Clients /\ m \notin Buyers /\ faults \in Nat
  BY <1>1, ProducerAssumption, HouseAssumption DEF FinalInv, AwardsInv, AnswerInv
<1> QED BY <1>1, <1>2, <1>3, <1>4, NothingPending, ProducerAssumption

LEMMA AuctionStarts ==
  ASSUME AwardsInv, AnswerInv', NEW m \in Makers, Produce(m) \/ Created(m) \/ CreateFailed(m)
  PROVE  AwardsInv'
<1> DEFINE b == auction[m]
<1>1. /\ AuctionOK(b, m) /\ MakerOK(b, reply[m], m) /\ AgesOK
      /\ b.gen \in Nat /\ Timed(b) /\ (faults = 0 => Keeps(b, reply[m], m))
      /\ DOMAIN reply = Clients /\ m \in Clients
      /\ b.pc \in {"idle", "creating"} /\ b.ticks = 0
      /\ \A tx \in pool : tx.client = m => ~tx.awaited
  BY MakerKnown DEF Produce, Created, CreateFailed, At, MakerOK, Timed
<1>2. /\ UNCHANGED <<ws, pool, faults>> /\ reply' \in {reply, [reply EXCEPT ![m] = NoReply]}
      /\ faults' \in {faults, faults + 1}
  BY DEF Produce, Created, CreateFailed, gatewayVars, TakeReply
<1>3. CASE Produce(m)
  <2> DEFINE a == [auction[m] EXCEPT !.pc = "create", !.gen = now]
  <2>1. auction' = [auction EXCEPT ![m] = a] /\ b.pc = "idle"
    BY <1>3 DEF Produce, At
  <2>2. a.pc = "create" /\ a.ticks = 0 /\ a.due = b.due
    BY <1>1 DEF AuctionOK, AuctionFields
  <2> HIDE DEF a
  <2>3. Timed(a)
    BY <1>1, <2>2 DEF Timed
  <2>4. Keeps(a, reply'[m], m)
    BY <1>1, <2>1 DEF AgesOK, Keeps
  <2>5. MakerOK(a, reply'[m], m)
    BY <2>2, <2>3, <2>4, OnlyTimed
  <2> QED BY <1>1, <1>2, <2>1, <2>5, MakerGoesOn
<1>4. CASE Created(m)
  <2> DEFINE due == auction[m].gen + Interval
             a == [auction[m] EXCEPT !.pc = "wait", !.tries = 0, !.due = due]
  <2>1. auction' = [auction EXCEPT ![m] = a] /\ b.pc = "creating"
    BY <1>4 DEF Created, At
  <2>2. due \in Nat /\ due >= b.gen + (0 + 1) * Interval /\ 0 =< LaterTicks
    BY <1>1, TickTimes, ProducerAssumption
  <2>3. a.pc = "wait" /\ a.gen = b.gen /\ a.id = b.id /\ a.ticks = 0 /\ a.due = due
    <3> HIDE DEF due
    <3> QED BY <1>1 DEF AuctionOK, AuctionFields
  <2> HIDE DEF a
  <2>4. Timed(a)
    <3> HIDE DEF due
    <3> QED BY <1>1, <2>2, <2>3 DEF Timed
  <2>5. faults = 0 => Keeps(a, reply'[m], m)
    BY <1>1, <2>1, <2>3 DEF Keeps
  <2>6. MakerOK(a, reply'[m], m)
    BY <2>3, <2>4, <2>5, OnlyTimed
  <2> QED BY <1>1, <1>2, <2>1, <2>6, MakerGoesOn
<1>5. CASE CreateFailed(m)
  <2> DEFINE tries == auction[m].tries + 1
             a == [auction[m] EXCEPT !.pc = "create", !.id = NoId, !.tries = tries]
  <2>1. /\ auction' = [auction EXCEPT ![m] = a] \/ auction' = Finish(m, "many create error")
        /\ b.pc = "creating" /\ reply[m].kind = "error"
    BY <1>5 DEF CreateFailed, At
  <2>2. faults = 0 => \A e \in TokenIds[m] : ws[e] = Absent
    BY <1>1, <2>1 DEF Keeps
  <2>3. CASE auction' = [auction EXCEPT ![m] = a]
    <3> HIDE DEF tries
    <3>1. a.pc = "create" /\ a.ticks = 0 /\ a.due = b.due
      BY <1>1 DEF AuctionOK, AuctionFields
    <3> HIDE DEF a
    <3>2. Timed(a)
      BY <1>1, <3>1 DEF Timed
    <3>3. faults = 0 => Keeps(a, reply'[m], m)
      BY <2>2 DEF Keeps
    <3>4. MakerOK(a, reply'[m], m)
      BY <3>1, <3>2, <3>3, OnlyTimed
    <3> QED BY <1>1, <1>2, <2>3, <3>4, MakerGoesOn
  <2>4. CASE auction' = Finish(m, "many create error")
    BY <1>1, <1>2, <2>2, <2>4, EndsWell DEF Endings
  <2> QED BY <2>1, <2>3, <2>4
<1> QED BY <1>3, <1>4, <1>5

\* A tick is at least one interval after the one before.
LEMMA AuctionTicks ==
  ASSUME AwardsInv, AnswerInv', NEW m \in Makers, Tick(m)
  PROVE  AwardsInv'
<1> DEFINE b == auction[m]
           ticks == auction[m].ticks + 1
           due == IF auction[m].ticks = 0 THEN now + Interval
                  ELSE auction[m].due
                         + Interval * (((now - auction[m].due) \div Interval) + 1)
           a == [auction[m] EXCEPT !.pc = "query", !.ts = now, !.ticks = ticks, !.due = due]
<1>1. /\ AuctionOK(b, m) /\ now \in Nat /\ b.gen \in Nat
      /\ Timed(b) /\ (faults = 0 => Keeps(b, reply[m], m))
      /\ b.pc = "wait" /\ b.due =< now
      /\ \A tx \in pool : tx.client = m => ~tx.awaited
  BY MakerKnown DEF Tick, At, MakerOK
<1>2. /\ UNCHANGED <<ws, pool, faults, reply>> /\ auction' = [auction EXCEPT ![m] = a]
      /\ faults' \in {faults, faults + 1}
  BY DEF Tick, gatewayVars
<1>3. /\ b.ticks \in Nat /\ b.due \in Nat /\ b.ticks =< LaterTicks
      /\ b.due >= b.gen + (b.ticks + 1) * Interval
      /\ Interval \in Nat \ {0}
  BY <1>1, ProducerAssumption DEF Timed
<1>4. due \in Nat /\ due >= b.due + Interval
  <2>1. CASE b.ticks = 0
    <3>1. due = now + Interval
      BY <2>1
    <3> HIDE DEF due, b
    <3> QED BY <1>1, <1>3, <3>1
  <2>2. CASE b.ticks # 0
    <3> DEFINE x == now - b.due
               k == x \div Interval
    <3>1. due = b.due + Interval * (k + 1)
      BY <2>2
    <3>2. x \in Nat
      BY <1>1, <1>3
    <3> HIDE DEF x, b, due
    <3>3. k \in Nat
      BY <1>3, <3>2
    <3> HIDE DEF k
    <3>4. Interval * (k + 1) \in Nat /\ Interval * (k + 1) >= Interval
      BY <1>3, <3>3
    <3> QED BY <1>3, <3>1, <3>4
  <2> QED BY <2>1, <2>2
<1>5. /\ ticks \in 1..(LaterTicks + 1)
      /\ now >= b.gen + ticks * Interval
      /\ due >= b.gen + (ticks + 1) * Interval
  <2> HIDE DEF due, b
  <2>1. /\ ticks \in Nat /\ ticks = b.ticks + 1 /\ LaterTicks \in Nat
        /\ ticks * Interval \in Nat
        /\ (ticks + 1) * Interval = ticks * Interval + Interval
    BY <1>3, TickTimes DEF b
  <2> DEFINE x == ticks * Interval
  <2>2. x \in Nat /\ b.due >= b.gen + x /\ (ticks + 1) * Interval = x + Interval
    BY <1>3, <2>1
  <2> HIDE DEF x, ticks
  <2>3. now >= b.gen + x /\ due >= b.gen + (ticks + 1) * Interval
    BY <1>1, <1>3, <1>4, <2>2
  <2> QED BY <1>3, <2>1, <2>3 DEF x
<1> HIDE DEF ticks, due
<1>6. /\ a.pc = "query" /\ a.gen = b.gen /\ a.id = b.id /\ a.ts = now
      /\ a.ticks = ticks /\ a.due = due
  BY <1>1 DEF AuctionOK, AuctionFields
<1> HIDE DEF a
<1>7. Timed(a)
  <2>1. ticks \in Nat
    BY <1>3 DEF ticks
  <2> QED BY <1>4, <1>5, <1>6, <2>1 DEF Timed
<1>8. faults = 0 => Keeps(a, reply'[m], m)
  BY <1>1, <1>2, <1>6 DEF Keeps
<1>9. MakerOK(a, reply'[m], m)
  BY <1>6, <1>7, <1>8, OnlyTimed
<1> QED BY <1>1, <1>2, <1>9, MakerGoesOn

\* What a tick offers adds up to what it says, and is all the energy when some
\* bid takes all of it; nothing in it is settled yet.
LEMMA OfferAdds ==
  ASSUME World(ws), NEW m \in Makers, NEW e, NEW ts,
         NEW q \in Rankings(AuctionEndQuery(ws, e, ts), ws), NEW offer,
         offer = IF AuctionEndQuery(ws, e, ts) = {} THEN <<[id |-> OldId, amount |-> 0]>>
                 ELSE Allocate(q, ws, Output[m])
  PROVE  /\ ListSum(offer, Allocated(q, ws, Output[m]))
         /\ TakesAll(q, ws, Output[m]) \in BOOLEAN
         /\ TakesAll(q, ws, Output[m]) => Allocated(q, ws, Output[m]) = Output[m]
         /\ \A i \in DOMAIN offer : offer[i].id \in Bids => ~Settled(ws[offer[i].id])
<1> DEFINE open == AuctionEndQuery(ws, e, ts)
           sold == Allocated(q, ws, Output[m])
           L == Cardinality(open)
           A == Asked(q, ws)
<1>1. open \subseteq Bids /\ \A b \in open : ws[b] # Absent /\ ws[b].status = "bid"
  BY DEF AuctionEndQuery, BidsOn
<1>2. IsFiniteSet(open)
  BY <1>1, FS_Subset, ContractAssumption
<1>3. \A b \in open : ws[b].bidAmount \in Nat \ {0}
  BY <1>1, Numbers DEF World, HouseBid
<1>4. Output[m] \in Nat \ {0} /\ q \in Rankings(open, ws)
  BY Numbers
<1> HIDE DEF open
<1>5. L \in Nat /\ q \in [1..L -> open] /\ Len(q) = L
  BY <1>2, <1>4, RankingFacts
<1>6. Sums(A, L, [n \in 1..L |-> ws[q[n]].bidAmount])
  <2> HIDE DEF L
  <2> QED BY <1>3, <1>5, AskedSums
<1>7. A[L] \in Nat /\ A[0] = 0
  <2> HIDE DEF A, L
  <2> QED BY <1>5, <1>6 DEF Sums
<1>8. sold = MinOf(A[L], Output[m]) /\ TakesAll(q, ws, Output[m]) \in BOOLEAN
  BY <1>5 DEF Allocated, TakesAll
<1>9. ASSUME TakesAll(q, ws, Output[m]) PROVE sold = Output[m]
  <2>1. A[L] >= Output[m]
    BY <1>5, <1>9 DEF TakesAll
  <2> HIDE DEF A, L, sold
  <2> QED BY <1>4, <1>7, <1>8, <2>1 DEF MinOf
<1>10. CASE open = {}
  <2>1. L = 0
    BY <1>10, FS_EmptySet
  <2>2. sold = 0
    <3> HIDE DEF A, L, sold
    <3> QED BY <1>4, <1>7, <1>8, <2>1 DEF MinOf
  <2>3. offer = <<[id |-> OldId, amount |-> 0]>>
    BY <1>10 DEF open
  <2>4. /\ Len(offer) = 1 /\ DOMAIN offer = {1} /\ offer[1].id = OldId /\ offer[1].amount = 0
        /\ \A i \in 1..1 : offer[i].amount = 0
    BY <2>3
  <2>5. ListSum(offer, 0)
    <3> DEFINE g == [n \in 0..1 |-> 0]
               a == [i \in 1..1 |-> offer[i].amount]
    <3>1. \A i \in 1..1 : a[i] = 0
      BY <2>4
    <3> HIDE DEF a
    <3>2. Sums(g, 1, a) /\ g[1] = 0
      BY <3>1 DEF Sums
    <3> HIDE DEF g
    <3>3. \E h : Sums(h, 1, a) /\ h[1] = 0
      BY <3>2
    <3> QED BY <2>4, <3>3 DEF ListSum, a
  <2> QED BY <1>8, <1>9, <2>2, <2>4, <2>5, KeyKinds
<1>11. CASE open # {}
  <2>1. offer = Allocate(q, ws, Output[m])
    BY <1>11 DEF open
  <2>2. OffersInOrder(offer, q, open, ws) /\ AddsUp(offer, sold, Output[m])
    BY <1>2, <1>3, <1>4, <2>1, AllocationIsFair
  <2> HIDE DEF sold
  <2>3. ListSum(offer, sold)
    BY <2>2 DEF AddsUp, ListSum
  <2>4. \A i \in DOMAIN offer : offer[i].id \in open
    BY <2>2 DEF OffersInOrder
  <2>5. \A i \in DOMAIN offer : ~Settled(ws[offer[i].id])
    BY <1>1, <2>4 DEF Settled
  <2> QED BY <1>8, <1>9, <2>3, <2>5 DEF sold
<1> QED BY <1>10, <1>11

LEMMA AuctionAsks ==
  ASSUME AwardsInv, AnswerInv', NEW m \in Makers, EndTimer(m) \/ TimeUp(m) \/ Query(m)
  PROVE  AwardsInv'
<1> DEFINE b == auction[m]
           open == AuctionEndQuery(ws, b.id, b.ts)
<1>1. /\ AuctionOK(b, m) /\ MakerOK(b, reply[m], m) /\ World(ws)
      /\ b.gen \in Nat /\ b.ts \in Nat
      /\ b.pc \in {"create", "wait", "query", "submit"}
      /\ \A tx \in pool : tx.client = m => ~tx.awaited
  BY MakerKnown DEF EndTimer, TimeUp, Query, At, HouseInv
<1>2. UNCHANGED <<ws, pool, faults, reply>> /\ faults' \in {faults, faults + 1}
  BY DEF EndTimer, TimeUp, Query, Evaluate, gatewayVars
<1>3. CASE auction' = Finish(m, "time up")
  <2> DEFINE why == "time up"
  <2>1. why \in Endings /\ why # "many create error" /\ auction' = Finish(m, why)
    BY <1>3 DEF Endings
  <2> HIDE DEF why
  <2> QED BY <1>1, <1>2, <2>1, EndsWell
<1>4. CASE b.pc = "query" /\ b.ts =< b.gen + TokenLife /\ auction' = Continue(m, "no bids")
  <2>1. /\ b.ticks \in Nat /\ b.ts >= b.gen + b.ticks * Interval
    BY <1>1, <1>4 DEF MakerOK, Timed
  <2>2. b.ticks =< LaterTicks
    <3> DEFINE k == b.ticks
               x == k * Interval
               t == b.ts
               g == b.gen
    <3>1. LaterTicks \in Nat /\ x \in Nat /\ (k > LaterTicks => x > TokenLife)
      BY <2>1, TickTimes
    <3>2. /\ t >= g + x /\ TokenLife \in Nat /\ t \in Nat /\ g \in Nat
          /\ t =< g + TokenLife /\ k \in Nat
      BY <1>1, <1>4, <2>1, ProducerAssumption
    <3> HIDE DEF x, k, t, g
    <3>3. k =< LaterTicks
      BY <3>1, <3>2
    <3> QED BY <3>3 DEF k
  <2>3. auction' = Waiting(m, "no bids")
    <3>1. ~(auction[m].ticks > LaterTicks)
      <4> DEFINE k == auction[m].ticks
      <4>1. k \in Nat /\ k =< LaterTicks /\ LaterTicks \in Nat
        BY <2>1, <2>2, TickTimes
      <4> HIDE DEF k
      <4>2. ~(k > LaterTicks)
        BY <4>1
      <4> QED BY <4>2 DEF k
    <3> QED BY <1>4, <3>1 DEF Continue
  <2> QED BY <1>1, <1>2, <1>4, <2>2, <2>3, WaitsOn
<1>5. CASE /\ b.pc = "query"
           /\ \E q \in Rankings(open, ws) :
                auction' = [auction EXCEPT ![m] =
                  [@ EXCEPT !.pc = "submit", !.tries = 0,
                            !.offer = IF open = {} THEN <<[id |-> OldId, amount |-> 0]>>
                                      ELSE Allocate(q, ws, Output[m]),
                            !.amount = Allocated(q, ws, Output[m]),
                            !.isSold = TakesAll(q, ws, Output[m])]]
  <2>1. PICK q \in Rankings(open, ws) :
                auction' = [auction EXCEPT ![m] =
                  [@ EXCEPT !.pc = "submit", !.tries = 0,
                            !.offer = IF open = {} THEN <<[id |-> OldId, amount |-> 0]>>
                                      ELSE Allocate(q, ws, Output[m]),
                            !.amount = Allocated(q, ws, Output[m]),
                            !.isSold = TakesAll(q, ws, Output[m])]]
    BY <1>5
  <2> DEFINE offer == IF open = {} THEN <<[id |-> OldId, amount |-> 0]>>
                      ELSE Allocate(q, ws, Output[m])
             sold == Allocated(q, ws, Output[m])
             isSold == TakesAll(q, ws, Output[m])
             a == [auction[m] EXCEPT !.pc = "submit", !.tries = 0, !.offer = offer,
                                     !.amount = sold, !.isSold = isSold]
  <2>2. /\ ListSum(offer, sold)
        /\ isSold \in BOOLEAN
        /\ isSold => sold = Output[m]
        /\ \A i \in DOMAIN offer : offer[i].id \in Bids => ~Settled(ws[offer[i].id])
    <3> DEFINE e == b.id
               ts == b.ts
    <3>1. q \in Rankings(AuctionEndQuery(ws, e, ts), ws)
      OBVIOUS
    <3>2. offer = IF AuctionEndQuery(ws, e, ts) = {} THEN <<[id |-> OldId, amount |-> 0]>>
                  ELSE Allocate(q, ws, Output[m])
      OBVIOUS
    <3> HIDE DEF offer, e, ts
    <3> QED BY <1>1, <3>1, <3>2, OfferAdds
  <2>3. auction' = [auction EXCEPT ![m] = a]
    BY <2>1
  <2> HIDE DEF offer, sold, isSold, open
  <2>4. /\ a.pc = "submit" /\ a.gen = b.gen /\ a.ts = b.ts /\ a.id = b.id /\ a.due = b.due
        /\ a.ticks = b.ticks /\ a.offer = offer /\ a.amount = sold /\ a.isSold = isSold
    BY <1>1 DEF AuctionOK, AuctionFields
  <2> HIDE DEF a
  <2>5. Timed(a)
    <3>1. Timed(b)
      BY <1>1 DEF MakerOK
    <3> HIDE DEF b
    <3> QED BY <1>5, <2>4, <3>1, TimeStays
  <2>6. Offered(a, m)
    <3>1. isSold = TRUE => sold = Output[m]
      BY <2>2
    <3>2. ListSum(offer, sold) /\ isSold \in BOOLEAN
      BY <2>2
    <3> QED BY <2>4, <3>1, <3>2 DEF Offered
  <2>7. Told(a, reply'[m]) /\ Ends(a)
    BY <2>4 DEF Told, Ends
  <2>8. OfferNew(a, reply'[m])
    BY <2>2, <2>4 DEF OfferNew
  <2>9. faults = 0 => Keeps(a, reply'[m], m)
    BY <1>1, <1>5, <2>4 DEF MakerOK, Keeps
  <2>10. MakerOK(a, reply'[m], m)
    BY <2>5, <2>6, <2>7, <2>8, <2>9 DEF MakerOK
  <2>11. reply' \in {reply, [reply EXCEPT ![m] = NoReply]}
    BY <1>2
  <2>12. ASSUME TRUE PROVE AwardsInv'
    BY <1>1, <1>2, <2>3, <2>10, <2>11, MakerGoesOn
  <2> QED BY <2>12
<1>6. CASE EndTimer(m) \/ TimeUp(m)
  BY <1>3, <1>6 DEF EndTimer, TimeUp
<1>7. CASE Query(m)
  BY <1>4, <1>5, <1>7 DEF Query, At
<1> QED BY <1>6, <1>7


\* An auction goes on after an answer only if it has ticks left.
LEMMA AuctionIsTold ==
  ASSUME AwardsInv, AnswerInv', NEW m \in Makers, Ended(m)
  PROVE  AwardsInv'
<1> DEFINE b == auction[m]
           msg == reply[m].msg
<1>1. /\ MakerOK(b, reply[m], m) /\ AnswerOK(m) /\ Told(b, reply[m]) /\ Offered(b, m)
      /\ b.pc = "submitted" /\ reply[m].kind = "ok"
      /\ \A tx \in pool : tx.client = m => ~tx.awaited
  BY MakerKnown DEF Ended, At, MakerOK
<1>2. UNCHANGED <<ws, pool, faults>> /\ reply' \in {reply, [reply EXCEPT ![m] = NoReply]}
  BY DEF Ended, TakeReply
<1>3. /\ msg \in Accounts \cup Refusals
      /\ ContractLife =< TokenLife => msg \in Accounts
      /\ ContractLife =< TokenLife /\ msg = "auction continue" =>
           b.isSold = FALSE /\ b.ticks =< LaterTicks
      /\ msg # "many create error"
  <2>1. /\ msg \in Accounts \cup Refusals
        /\ ContractLife =< TokenLife /\ msg = "auction continue" =>
             b.isSold = FALSE /\ b.ticks =< LaterTicks
    BY <1>1 DEF Told
  <2>2. ContractLife =< TokenLife => msg \notin Refusals
    BY <1>1 DEF AnswerOK
  <2>3. \A w \in Accounts \cup Refusals : w # "many create error"
    BY DEF Accounts, Refusals, OldMessage
  <2> QED BY <2>1, <2>2, <2>3
<1>4. \A w \in Accounts : w \in Endings \/ w = "auction continue"
  BY DEF Accounts, Endings
<1>5. b.ticks \in Nat /\ LaterTicks \in Nat /\ b.isSold \in BOOLEAN
  BY <1>1, TickTimes DEF MakerOK, Timed, Offered
<1>6. CASE auction' = Finish(m, msg) /\ (b.isSold \/ msg \in Last \/ b.ticks > LaterTicks)
  <2>1. ASSUME ContractLife =< TokenLife, msg = "auction continue" PROVE FALSE
    <3>1. msg \notin Last
      BY <2>1, Words
    <3> DEFINE k == b.ticks
    <3>2. k \in Nat /\ LaterTicks \in Nat /\ k =< LaterTicks /\ b.isSold = FALSE
      BY <1>3, <1>5, <2>1
    <3> HIDE DEF k
    <3>3. ~(k > LaterTicks)
      BY <3>2
    <3> QED BY <1>6, <3>1, <3>2, <3>3 DEF k
  <2>2. ContractLife =< TokenLife => msg \in Endings
    BY <1>3, <1>4, <2>1
  <2>3. auction' = Finish(m, msg)
    BY <1>6
  <2> HIDE DEF msg
  <2> QED BY <1>1, <1>2, <1>3, <2>2, <2>3, EndsWell
<1>7. CASE auction' = Waiting(m, msg) /\ ~(b.ticks > LaterTicks)
  <2>1. b.ticks =< LaterTicks
    <3> DEFINE k == b.ticks
    <3>1. k \in Nat /\ LaterTicks \in Nat /\ ~(k > LaterTicks)
      BY <1>5, <1>7
    <3> HIDE DEF k
    <3>2. k =< LaterTicks
      BY <3>1
    <3> QED BY <3>2 DEF k
  <2>2. auction' = Waiting(m, msg)
    BY <1>7
  <2> HIDE DEF msg
  <2> QED BY <1>1, <1>2, <2>1, <2>2, WaitsOn
<1>8. \/ auction' = Finish(m, msg) /\ (b.isSold \/ msg \in Last \/ b.ticks > LaterTicks)
      \/ auction' = Waiting(m, msg) /\ ~(b.ticks > LaterTicks)
  BY DEF Ended, Continue, Last
<1> QED BY <1>6, <1>7, <1>8

\* What a failed call leaves as it is.
LEMMA FailedAs ==
  ASSUME HouseInv, NEW m \in Makers, NEW pc, CallFailed(m, pc)
  PROVE  \E a : /\ auction' = [auction EXCEPT ![m] = a]
                /\ a.pc \in {pc, auction[m].pc}
                /\ a.id = auction[m].id /\ a.ticks = auction[m].ticks
                /\ a.due = auction[m].due /\ a.gen = auction[m].gen /\ a.ts = auction[m].ts
                /\ a.offer = auction[m].offer /\ a.amount = auction[m].amount
                /\ a.isSold = auction[m].isSold
<1>1. AuctionOK(auction[m], m) /\ auction = [n \in Makers |-> auction[n]]
  BY DEF HouseInv, AuctionsOK
<1>2. CASE auction' = auction
  <2>1. auction' = [auction EXCEPT ![m] = auction[m]]
    BY <1>1, <1>2
  <2> QED BY <2>1
<1>3. CASE auction' = [auction EXCEPT ![m] = [@ EXCEPT !.pc = pc, !.tries = auction[m].tries + 1]]
  <2> DEFINE tries == auction[m].tries + 1
             a == [auction[m] EXCEPT !.pc = pc, !.tries = tries]
  <2>1. auction' = [auction EXCEPT ![m] = a]
    BY <1>3
  <2> HIDE DEF tries
  <2>2. /\ a.pc = pc
        /\ a.id = auction[m].id /\ a.ticks = auction[m].ticks
        /\ a.due = auction[m].due /\ a.gen = auction[m].gen /\ a.ts = auction[m].ts
        /\ a.offer = auction[m].offer /\ a.amount = auction[m].amount
        /\ a.isSold = auction[m].isSold
    BY <1>1 DEF AuctionOK, AuctionFields
  <2> HIDE DEF a
  <2> QED BY <2>1, <2>2
<1> QED BY <1>2, <1>3 DEF CallFailed

LEMMA AuctionCallsAgain ==
  ASSUME AwardsInv, AnswerInv', NEW m \in Makers, EndFailed(m) \/ QueryFailed(m)
  PROVE  AwardsInv'
<1> DEFINE b == auction[m]
<1>1. /\ HouseInv /\ MakerOK(b, reply[m], m) /\ Timed(b) /\ Offered(b, m)
      /\ faults = 0 => OfferNew(b, reply[m]) /\ Keeps(b, reply[m], m)
      /\ DOMAIN reply = Clients /\ m \in Clients /\ faults \in Nat
      /\ \A tx \in pool : tx.client = m => ~tx.awaited
  BY MakerKnown DEF EndFailed, QueryFailed, At, MakerOK
<1>2. CASE EndFailed(m)
  <2>1. /\ b.pc = "submitted" /\ reply[m].kind = "error"
        /\ UNCHANGED <<ws, pool, faults>> /\ reply' = [reply EXCEPT ![m] = NoReply]
    BY <1>2 DEF EndFailed, At, TakeReply
  <2>2. PICK a : /\ auction' = [auction EXCEPT ![m] = a]
                 /\ a.pc \in {"submit", b.pc}
                 /\ a.id = b.id /\ a.ticks = b.ticks
                 /\ a.due = b.due /\ a.gen = b.gen /\ a.ts = b.ts
                 /\ a.offer = b.offer /\ a.amount = b.amount /\ a.isSold = b.isSold
    BY <1>1, <1>2, FailedAs DEF EndFailed
  <2>3. reply'[m].kind = "none"
    BY <1>1, <2>1, Kinds
  <2>4. Timed(a)
    BY <1>1, <2>1, <2>2, TimeStays
  <2>5. Offered(a, m) /\ Told(a, reply'[m]) /\ Ends(a)
    BY <1>1, <2>1, <2>2, <2>3 DEF Offered, Told, Ends
  <2>6. faults = 0 => OfferNew(a, reply'[m])
    BY <1>1, <2>1, <2>2, <2>3 DEF OfferNew
  <2>7. faults = 0 => Keeps(a, reply'[m], m)
    BY <1>1, <2>1, <2>2, <2>3 DEF Keeps
  <2>8. MakerOK(a, reply'[m], m)
    BY <2>4, <2>5, <2>6, <2>7 DEF MakerOK
  <2>9. reply' \in {reply, [reply EXCEPT ![m] = NoReply]} /\ faults' \in {faults, faults + 1}
    BY <2>1
  <2> QED BY <1>1, <2>1, <2>2, <2>8, <2>9, MakerGoesOn
<1>3. CASE QueryFailed(m)
  <2>1. /\ b.pc = "query" /\ UNCHANGED <<ws, pool, reply>> /\ faults' = faults + 1
    BY <1>3 DEF QueryFailed, At, EvaluateFails
  <2>2. PICK a : /\ auction' = [auction EXCEPT ![m] = a]
                 /\ a.pc \in {"query", b.pc}
                 /\ a.id = b.id /\ a.ticks = b.ticks
                 /\ a.due = b.due /\ a.gen = b.gen /\ a.ts = b.ts
                 /\ a.offer = b.offer /\ a.amount = b.amount /\ a.isSold = b.isSold
    BY <1>1, <1>3, FailedAs DEF QueryFailed
  <2>3. Timed(a) /\ a.pc = "query"
    BY <1>1, <2>1, <2>2, TimeStays
  <2>4. faults = 0 => Keeps(a, reply'[m], m)
    BY <1>1, <2>1, <2>2, <2>3 DEF Keeps
  <2>5. MakerOK(a, reply'[m], m)
    BY <2>3, <2>4, OnlyTimed
  <2>6. reply' \in {reply, [reply EXCEPT ![m] = NoReply]} /\ faults' \in {faults, faults + 1}
    BY <2>1
  <2> QED BY <1>1, <2>1, <2>2, <2>5, <2>6, MakerGoesOn
<1> QED BY <1>2, <1>3


-----------------------------------------------------------------------------
(* A client sends a request.                                                  *)

LEMMA AwardsWhenSent ==
  ASSUME AwardsInv, AnswerInv', NEW c \in Clients, NEW req \in HouseRequests, Submit(c, req),
         \A tx \in pool : tx.client = c => ~tx.awaited,
         \A n \in Makers : n # c => auction'[n] = auction[n],
         c \in Makers => MakerOK(auction'[c], reply'[c], c),
         req \in Creations =>
           /\ c \in Makers /\ req.amount = Output[c]
           /\ auction'[c].pc = "creating" /\ auction'[c].id = req.id,
         req \in Settlements => ListSum(req.bidInput, req.in.amount)
  PROVE  AwardsInv'
<1>1. FinalInv /\ faults' = faults /\ Makers \subseteq Clients
  BY ProducerAssumption DEF AwardsInv, AnswerInv, Submit
<1>2. /\ ws' = ws
      /\ \A d \in Clients : d # c => reply'[d] = reply[d]
      /\ \A tx \in pool' : tx \notin pool => tx.client = c /\ tx.req = req
  BY <1>1, Sent
<1>3. ASSUME NEW n \in Makers PROVE MakerOK(auction[n], reply[n], n)'
  <2>1. CASE n = c
    BY <1>1, <1>2, <2>1 DEF MakerOK, Timed, Offered, Told, Ends, OfferNew, Keeps, Settled
  <2>2. CASE n # c
    <3>1. MakerOK(auction[n], reply[n], n) /\ auction'[n] = auction[n] /\ reply'[n] = reply[n]
      BY <1>1, <1>2, <2>2 DEF AwardsInv
    <3>2. /\ Timed(auction[n])' /\ Offered(auction[n], n)'
          /\ Told(auction[n], reply[n])' /\ Ends(auction[n])'
      BY <3>1 DEF MakerOK, Timed, Offered, Told, Ends
    <3>3. faults = 0 => OfferNew(auction[n], reply[n]) /\ Keeps(auction[n], reply[n], n)
      BY <3>1 DEF MakerOK
    <3>4. OfferNew(auction[n], reply[n]) => OfferNew(auction[n], reply[n])'
      BY <1>2, <3>1 DEF OfferNew, Settled
    <3>5. Keeps(auction[n], reply[n], n) => Keeps(auction[n], reply[n], n)'
      BY <1>2, <3>1 DEF Keeps
    <3> QED BY <1>1, <3>2, <3>3, <3>4, <3>5 DEF MakerOK
  <2> QED BY <2>1, <2>2
<1>4. ASSUME NEW tx \in pool' PROVE AsksRight(tx)'
  <2>1. CASE tx \notin pool
    BY <1>2, <2>1 DEF AsksRight
  <2>2. CASE tx \in pool
    <3>1. AsksRight(tx) /\ Owned(tx)
      BY <1>1, <2>2 DEF AwardsInv, FinalInv
    <3> QED BY <2>2, <3>1 DEF AsksRight, Owned
  <2> QED BY <2>1, <2>2
<1>5. \A e \in Energies : ws'[e] # Absent => HasMaker(e)' /\ Covers(e)'
  BY <1>1, <1>2 DEF AwardsInv, HasMaker, Covers
<1> QED BY <1>3, <1>4, <1>5 DEF AwardsInv

LEMMA AwardsWhenCreating ==
  ASSUME AwardsInv, AnswerInv', NEW m \in Makers, CreateToken(m)
  PROVE  AwardsInv'
<1> DEFINE b == auction[m]
<1>1. /\ AuctionOK(b, m) /\ b.pc = "create" /\ MakerOK(b, reply[m], m)
      /\ \A tx \in pool : tx.client = m => ~tx.awaited
  BY MakerKnown DEF CreateToken, At
<1>2. PICK id \in TokenIds[m] :
        /\ Submit(m, [op |-> "CreateEnergyToken", id |-> id, producer |-> Owner[m],
                      amount |-> Output[m], cat |-> Kind[m], time |-> b.gen])
        /\ auction' = [auction EXCEPT ![m] = [@ EXCEPT !.pc = "creating", !.id = id]]
  BY DEF CreateToken
<1> DEFINE req == [op |-> "CreateEnergyToken", id |-> id, producer |-> Owner[m],
                   amount |-> Output[m], cat |-> Kind[m], time |-> b.gen]
           a == [auction[m] EXCEPT !.pc = "creating", !.id = id]
<1>3. req \in Creations
  <2>1. /\ id \in Energies /\ Owner[m] \in Users /\ Kind[m] \in Categories
        /\ Output[m] \in Portions /\ b.gen \in Clock
    BY <1>1, Numbers, ProducerAssumption DEF AuctionOK
  <2> QED BY <2>1 DEF Creations
<1>4. req.id = id /\ req.amount = Output[m] /\ auction' = [auction EXCEPT ![m] = a]
  BY <1>2
<1>5. Submit(m, req)
  BY <1>2
<1> HIDE DEF req
<1>6. m \in Clients /\ req \in HouseRequests /\ req \notin Settlements
  BY <1>3, ProducerAssumption, Kinds DEF HouseRequests
<1>7. a.pc = "creating" /\ a.id = id /\ a.ticks = b.ticks
  BY <1>1 DEF AuctionOK, AuctionFields
<1> HIDE DEF a
<1>8. auction'[m] = a /\ \A n \in Makers : n # m => auction'[n] = auction[n]
  BY <1>4 DEF AwardsInv, AnswerInv, FinalInv, HouseInv, AuctionsOK
<1>9. Timed(a)
  <2>1. b.ticks = 0 /\ a.due \in Nat
    <3>1. b.ticks = 0 /\ b.due \in Nat
      BY <1>1 DEF MakerOK, Timed
    <3>2. a.due = b.due
      BY <1>1 DEF AuctionOK, AuctionFields, a
    <3> QED BY <3>1, <3>2
  <2> QED BY <1>7, <2>1 DEF Timed
<1>10. faults = 0 => Keeps(a, reply'[m], m)
  BY <1>1 DEF MakerOK, Keeps
<1>11. MakerOK(a, reply'[m], m)
  BY <1>7, <1>9, <1>10, OnlyTimed
<1> QED BY <1>1, <1>4, <1>5, <1>6, <1>7, <1>8, <1>11, AwardsWhenSent

LEMMA AwardsWhenSettling ==
  ASSUME AwardsInv, AnswerInv', NEW m \in Makers, SubmitEnd(m)
  PROVE  AwardsInv'
<1> DEFINE b == auction[m]
           a == [auction[m] EXCEPT !.pc = "submitted"]
           req == EndRequest(auction[m])
<1>1. /\ FinalInv /\ AuctionOK(b, m) /\ b.pc = "submit" /\ MakerOK(b, reply[m], m)
      /\ \A tx \in pool : tx.client = m => ~tx.awaited
  BY MakerKnown DEF SubmitEnd, At
<1>2. Submit(m, req) /\ auction' = [auction EXCEPT ![m] = a]
  BY DEF SubmitEnd, EndRequest
<1>3. req \in Settlements /\ req \in HouseRequests /\ req \notin Creations
  BY <1>1, EndRequestOK, Kinds
<1>4. /\ a.pc = "submitted" /\ a.gen = b.gen /\ a.id = b.id /\ a.ts = b.ts /\ a.due = b.due
      /\ a.ticks = b.ticks /\ a.offer = b.offer /\ a.amount = b.amount /\ a.isSold = b.isSold
  BY <1>1 DEF AuctionOK, AuctionFields
<1> HIDE DEF a
<1>5. auction'[m] = a /\ \A n \in Makers : n # m => auction'[n] = auction[n]
  BY <1>1, <1>2 DEF FinalInv, HouseInv, AuctionsOK
<1>6. reply'[m].kind # "ok" /\ m \in Clients
  BY <1>1, <1>2, <1>3, Sent, ProducerAssumption
<1>7. ListSum(req.bidInput, req.in.amount)
  <2>1. ListSum(b.offer, b.amount)
    BY <1>1 DEF MakerOK, Offered
  <2>2. req.bidInput = b.offer /\ req.in.amount = b.amount
    BY DEF EndRequest
  <2> QED BY <2>1, <2>2
<1>8. Timed(a)
  <2>1. Timed(b)
    BY <1>1 DEF MakerOK
  <2> QED BY <1>1, <1>4, <2>1, TimeStays
<1>9. Offered(a, m) /\ Told(a, reply'[m]) /\ Ends(a)
  BY <1>1, <1>4, <1>6 DEF MakerOK, Offered, Told, Ends
<1>10. faults = 0 => OfferNew(a, reply'[m])
  BY <1>1, <1>4, <1>6 DEF MakerOK, OfferNew
<1>11. faults = 0 => Keeps(a, reply'[m], m)
  BY <1>1, <1>4 DEF MakerOK, Keeps
<1>12. MakerOK(a, reply'[m], m)
  BY <1>8, <1>9, <1>10, <1>11 DEF MakerOK
<1> HIDE DEF req
<1> QED BY <1>1, <1>2, <1>3, <1>5, <1>6, <1>7, <1>12, AwardsWhenSent

LEMMA AwardsWhenBidding ==
  ASSUME AwardsInv, AnswerInv', NEW c \in Buyers, UNCHANGED auction, SendBids(c)
  PROVE  AwardsInv'
<1> DEFINE req == PlaceRequest(basket[c])
<1>1. /\ Submit(c, req) /\ basket[c].pc = "send" /\ BasketOK(basket[c])
  BY DEF SendBids, Shopping, PlaceRequest, AwardsInv, AnswerInv, FinalInv, HouseInv, BasketsOK
<1>2. req \in Placements
  BY <1>1 DEF BasketOK, Placements, PlaceRequest
<1>3. /\ c \in Clients /\ c \notin Makers /\ req \in HouseRequests
      /\ req \notin Creations /\ req \notin Settlements
  BY <1>2, BuyerAssumption, HouseAssumption, Kinds DEF HouseRequests
<1>4. \A tx \in pool : tx.client = c => ~tx.awaited
  BY <1>1 DEF AwardsInv, AnswerInv, FinalInv, Awaiting
<1>5. \A n \in Makers : n # c => auction'[n] = auction[n]
  OBVIOUS
<1> HIDE DEF req
<1> QED BY <1>1, <1>3, <1>4, <1>5, AwardsWhenSent

-----------------------------------------------------------------------------
(* What touches no auction, no token and no bid.                              *)

LEMMA AwardsUntouched ==
  ASSUME AwardsInv, AnswerInv', UNCHANGED auction,
         \A k \in Energies \cup Bids : ws'[k] = ws[k],
         faults' \in {faults, faults + 1},
         \A m \in Makers : \/ reply'[m] = reply[m]
                           \/ reply[m].kind = "none" /\ reply'[m].kind = "error",
         \A next \in pool' : \E tx \in pool :
           /\ next.client = tx.client /\ next.req = tx.req
           /\ next.awaited => tx.awaited
  PROVE  AwardsInv'
<1>1. faults' = 0 => faults = 0
  BY DEF AwardsInv, AnswerInv
<1>2. World(ws) /\ \A m \in Makers : AuctionOK(auction[m], m) /\ TokenIds[m] \subseteq Energies
  BY ProducerAssumption DEF AwardsInv, AnswerInv, FinalInv, HouseInv, AuctionsOK
<1>3. ASSUME NEW m \in Makers PROVE MakerOK(auction[m], reply[m], m)'
  <2>1. MakerOK(auction[m], reply[m], m)
    BY DEF AwardsInv
  <2>2. Timed(auction[m])' /\ Offered(auction[m], m)' /\ Ends(auction[m])'
    BY <2>1 DEF MakerOK, Timed, Offered, Ends
  <2>3. reply'[m].kind = "ok" => reply'[m] = reply[m]
    OBVIOUS
  <2>4. Told(auction[m], reply[m])'
    BY <2>1, <2>3 DEF MakerOK, Told
  <2>5. OfferNew(auction[m], reply[m]) => OfferNew(auction[m], reply[m])'
    BY <2>3 DEF OfferNew, Settled
  <2>6. Keeps(auction[m], reply[m], m) => Keeps(auction[m], reply[m], m)'
    <3>1. reply[m].kind = "ok" => reply'[m].kind = "ok"
      OBVIOUS
    <3> QED BY <1>2, <3>1 DEF Keeps
  <2> QED BY <1>1, <2>1, <2>2, <2>4, <2>5, <2>6 DEF MakerOK
<1>4. ASSUME NEW next \in pool' PROVE AsksRight(next)'
  <2>1. PICK tx \in pool : /\ next.client = tx.client /\ next.req = tx.req
                           /\ next.awaited => tx.awaited
    OBVIOUS
  <2>2. AsksRight(tx) /\ Owned(tx)
    BY DEF AwardsInv, AnswerInv, FinalInv
  <2> QED BY <2>1, <2>2 DEF AsksRight, Owned
<1>5. ASSUME NEW e \in Energies, ws'[e] # Absent PROVE HasMaker(e)' /\ Covers(e)'
  <2>1. HasMaker(e) /\ Covers(e) /\ ws'[e] = ws[e]
    BY <1>5 DEF AwardsInv
  <2>2. HasMaker(e)'
    BY <2>1 DEF HasMaker
  <2>3. Promised(ws', e) = Promised(ws, e)
    <3>1. \A b \in Bids : ws'[b] = ws[b]
      OBVIOUS
    <3> QED BY <1>2, <3>1, PromisedStays
  <2>4. Covers(e)'
    BY <1>1, <2>1, <2>3 DEF Covers
  <2> QED BY <2>2, <2>4
<1> QED BY <1>3, <1>4, <1>5 DEF AwardsInv


LEMMA AwardsWhenSilent ==
  ASSUME AwardsInv, AnswerInv', UNCHANGED auction,
         \/ ClockTick
         \/ \E tx \in pool : Invalidate(tx) \/ GiveUp(tx) \/ Drop(tx)
  PROVE  AwardsInv'
<1>1. faults \in Nat /\ DOMAIN reply = Clients /\ Makers \subseteq Clients
  BY ProducerAssumption DEF AwardsInv, AnswerInv, FinalInv
<1>2. CASE ClockTick
  <2>1. UNCHANGED <<ws, pool, reply, faults>>
    BY <1>2 DEF ClockTick
  <2>2. faults' \in {faults, faults + 1}
    BY <2>1
  <2> QED BY <2>1, <2>2, AwardsUntouched
<1>3. ASSUME NEW tx \in pool, Invalidate(tx) \/ Drop(tx) PROVE AwardsInv'
  <2>1. ws' = ws /\ faults' = faults /\ pool' \subseteq pool
    BY <1>3 DEF Invalidate, Drop
  <2>2. \A m \in Makers :
          reply'[m] = reply[m] \/ (reply[m].kind = "none" /\ reply'[m].kind = "error")
    <3>1. tx.awaited => reply[tx.client].kind = "none"
      BY DEF AwardsInv, AnswerInv, FinalInv, Awaiting
    <3>2. reply' = reply \/ (tx.awaited /\ reply' = [reply EXCEPT ![tx.client] = Failed])
      BY <1>3 DEF Invalidate, Drop, Answer
    <3> QED BY <1>1, <3>1, <3>2, Kinds
  <2> QED BY <2>1, <2>2, AwardsUntouched
<1>4. ASSUME NEW tx \in pool, GiveUp(tx) PROVE AwardsInv'
  <2> DEFINE late == [tx EXCEPT !.awaited = FALSE]
  <2>1. ws' = ws /\ faults' = faults + 1 /\ pool' = (pool \ {tx}) \cup {late}
    BY <1>4 DEF GiveUp
  <2>2. Awaiting(tx) /\ DOMAIN tx = TxFields
    BY DEF AwardsInv, AnswerInv, FinalInv, HouseInv, PoolOK, TxOK
  <2>3. \A m \in Makers :
          reply'[m] = reply[m] \/ (reply[m].kind = "none" /\ reply'[m].kind = "error")
    <3>1. reply[tx.client].kind = "none" /\ reply' = [reply EXCEPT ![tx.client] = Failed]
      BY <1>4, <2>2 DEF GiveUp, Awaiting
    <3> QED BY <1>1, <3>1, Kinds
  <2>4. late.client = tx.client /\ late.req = tx.req /\ ~late.awaited
    BY <2>2 DEF TxFields
  <2> HIDE DEF late
  <2> QED BY <2>1, <2>3, <2>4, AwardsUntouched
<1> QED BY <1>2, <1>3, <1>4

LEMMA AwardsWhenPriced ==
  ASSUME AwardsInv, AnswerInv', PriceUpdate
  PROVE  AwardsInv'
<1>1. PICK cat \in Categories, p \in NewPrices :
        /\ ws' = Apply(ws, UpdateUnitPrice(ws, cat, p).writes)
        /\ pool' = {[tx EXCEPT !.stale = @ \/ cat \in tx.reads] : tx \in pool}
  BY DEF PriceUpdate
<1>2. UNCHANGED <<reply, faults, auction>>
  BY DEF PriceUpdate
<1>3. DOMAIN UpdateUnitPrice(ws, cat, p).writes \subseteq {cat}
  BY DEF UpdateUnitPrice, Error, Result, NoWrite
<1>4. \A k \in Energies \cup Bids : ws'[k] = ws[k]
  BY <1>1, <1>3, KeyKinds DEF Apply
<1>5. ASSUME NEW next \in pool'
      PROVE  \E tx \in pool : /\ next.client = tx.client /\ next.req = tx.req
                              /\ next.awaited => tx.awaited
  <2>1. PICK tx \in pool : next = [tx EXCEPT !.stale = tx.stale \/ cat \in tx.reads]
    BY <1>1, <1>5
  <2>2. DOMAIN tx = TxFields
    BY DEF AwardsInv, AnswerInv, FinalInv, HouseInv, PoolOK, TxOK
  <2> QED BY <2>1, <2>2, Marked
<1> QED BY <1>2, <1>4, <1>5, AwardsUntouched

LEMMA AwardsWhenBuying ==
  ASSUME AwardsInv, AnswerInv', NEW c \in Buyers, UNCHANGED auction,
         Bidding(c) \/ BidsPlaced(c) \/ BidsFailed(c)
  PROVE  AwardsInv'
<1>1. UNCHANGED <<ws, pool, faults>> /\ reply' \in {reply, [reply EXCEPT ![c] = NoReply]}
  BY DEF Bidding, StampBids, BidsPlaced, BidsFailed, TakeReply, gatewayVars
<1>2. \A m \in Makers : reply'[m] = reply[m]
  BY <1>1, HouseAssumption, ProducerAssumption DEF AwardsInv, AnswerInv, FinalInv
<1> QED BY <1>1, <1>2, AwardsUntouched

-----------------------------------------------------------------------------
(* A transaction commits: what a token has sold and what it promises.         *)

LEMMA CoversStays ==
  ASSUME AwardsInv, AnswerInv', faults' = faults, NEW e \in Energies,
         ws[e] # Absent, ws'[e].amount = ws[e].amount, ws'[e].sold = ws[e].sold,
         \A b \in Bids : \/ ws'[b] = ws[b]
                         \/ /\ ~(Settled(ws[b]) /\ ws[b].energy = e)
                            /\ ~(Settled(ws'[b]) /\ ws'[b].energy = e)
  PROVE  HasMaker(e)' /\ Covers(e)'
<1>1. HasMaker(e) /\ Covers(e) /\ World(ws)
  BY DEF AwardsInv, AnswerInv, FinalInv, HouseInv
<1>2. HasMaker(e)'
  BY <1>1 DEF HasMaker
<1>3. Promised(ws', e) = Promised(ws, e)
  BY <1>1, PromisedStays
<1> QED BY <1>1, <1>2, <1>3 DEF Covers

LEMMA CreationCovers ==
  ASSUME AwardsInv, AnswerInv', NEW tx \in pool, Commit(tx), UNCHANGED auction,
         tx.req \in Creations, NEW e \in Energies, ws'[e] # Absent
  PROVE  HasMaker(e)' /\ Covers(e)'
<1> DEFINE req == tx.req
<1>1. /\ Fresh(tx) /\ Owned(tx) /\ AsksRight(tx) /\ BidsSound /\ faults' = faults
      /\ \A k \in Keys : ws'[k] = IF k \in DOMAIN tx.writes THEN tx.writes[k] ELSE ws[k]
  BY CommitFacts DEF AwardsInv, AnswerInv, FinalInv
<1>2. /\ ws[req.id] = Absent
      /\ tx.writes = [k \in {req.id} |-> Generated(ws, req.producer, req.amount,
                                                  req.cat, req.time)]
  BY <1>1, CreationWrites DEF Fresh, TxOK, Endorsed
<1>3. \A b \in Bids : ws'[b] = ws[b]
  <2>1. req.id \in Energies
    BY DEF Creations
  <2> QED BY <1>1, <1>2, <2>1, KeyKinds
<1>4. CASE e = req.id
  <2>1. ws'[e].amount = req.amount /\ ws'[e].sold = 0
    BY <1>1, <1>2, <1>4, KeyKinds DEF Generated
  <2>2. HasMaker(e)'
    BY <1>1, <1>4, <2>1 DEF HasMaker, Owned, AsksRight
  <2>3. Promised(ws', e) = 0
    <3>1. \A b \in Bids : ws[b] # Absent => ws[b].energy # e
      BY <1>1, <1>2, <1>4 DEF BidsSound
    <3>2. WinnersIn(ws', e) = {}
      BY <1>3, <3>1 DEF WinnersIn, Settled
    <3>3. Summable(Amounts(ws'), WinnersIn(ws', e))
      BY <3>2, FS_EmptySet DEF Summable
    <3>4. Total(Amounts(ws'), WinnersIn(ws', e)) = 0
      BY <3>2, <3>3, TotalFacts
    <3> QED BY <3>4 DEF Promised
  <2> QED BY <2>1, <2>2, <2>3 DEF Covers
<1>5. CASE e # req.id
  <2>1. ws'[e] = ws[e]
    BY <1>1, <1>2, <1>5, KeyKinds
  <2> QED BY <1>1, <1>3, <2>1, CoversStays
<1> QED BY <1>4, <1>5

LEMMA PlacementCovers ==
  ASSUME AwardsInv, AnswerInv', NEW tx \in pool, Commit(tx), UNCHANGED auction,
         tx.req \in Placements, NEW e \in Energies, ws'[e] # Absent
  PROVE  HasMaker(e)' /\ Covers(e)'
<1> DEFINE req == tx.req
<1>1. /\ Fresh(tx) /\ faults' = faults
      /\ \A k \in Keys : ws'[k] = IF k \in DOMAIN tx.writes THEN tx.writes[k] ELSE ws[k]
  BY CommitFacts DEF AwardsInv
<1>2. /\ \A b \in DOMAIN req.bidList : b \in Bids /\ ws[b] = Absent
      /\ tx.writes = [b \in DOMAIN req.bidList |-> NewBid(req.bidList[b])]
  <2> DEFINE out == Execute(ws, req)
  <2>1. World(ws) /\ ~out.err /\ out.writes = tx.writes
    BY <1>1 DEF Fresh, TxOK, Endorsed
  <2>2. /\ \A b \in DOMAIN req.bidList : b \in Bids /\ ws[b] = Absent
        /\ out.writes = [b \in DOMAIN req.bidList |-> NewBid(req.bidList[b])]
    BY <2>1, PlacementWrites
  <2> HIDE DEF out
  <2> QED BY <2>1, <2>2
<1>3. ws'[e] = ws[e]
  BY <1>1, <1>2, KeyKinds
<1>4. ASSUME NEW b \in Bids, ws'[b] # ws[b] PROVE ~Settled(ws[b]) /\ ~Settled(ws'[b])
  <2>1. b \in DOMAIN req.bidList /\ ws'[b] = tx.writes[b]
    BY <1>1, <1>2, <1>4, KeyKinds
  <2>2. ws'[b] = NewBid(req.bidList[b])
    BY <1>2, <2>1
  <2> QED BY <1>2, <2>1, <2>2 DEF NewBid, Settled
<1> QED BY <1>1, <1>3, <1>4, CoversStays


\* What a settlement that goes through does to its token and to the bids.
LEMMA SettledBy ==
  ASSUME AnswerInv, NEW tx \in pool, Commit(tx), tx.req \in Settlements,
         Settles(ws, tx.req.in, tx.req.bidInput, Execute(ws, tx.req))
  PROVE  LET in == tx.req.in
             list == tx.req.bidInput
         IN  /\ in.id \in Energies /\ ws[in.id] \in HouseToken /\ ws[in.id] # Absent
             /\ Effective(tx) /\ list \in HouseAwards /\ Awarded(list) \subseteq Bids
             /\ ws'[in.id] = AfterSale(ws[in.id], in.amount)
             /\ \A e \in Energies : e # in.id => ws'[e] = ws[e]
             /\ \A b \in Bids : b \notin Awarded(list) => ws'[b] = ws[b]
             /\ \A b \in Awarded(list) :
                  /\ ws[b] # Absent /\ ws[b].energy = in.id
                  /\ Settled(ws'[b]) /\ ws'[b].energy = in.id
             /\ \A i \in DOMAIN list : ws'[list[i].id].amount = list[i].amount
<1> DEFINE in == tx.req.in
           list == tx.req.bidInput
           out == Execute(ws, tx.req)
<1>1. /\ Fresh(tx)
      /\ \A k \in Keys : ws'[k] = IF k \in DOMAIN tx.writes THEN tx.writes[k] ELSE ws[k]
  BY CommitFacts
<1>2. World(ws) /\ ~out.err /\ out.writes = tx.writes /\ GoodWrites(tx.writes)
  BY <1>1 DEF Fresh, TxOK, Endorsed
<1>3. in.id \in Energies /\ ws[in.id] \in HouseToken /\ ws[in.id] # Absent
  BY <1>2, SettlementWrites
<1>4. /\ tx.writes = Settle(ws, in.id, in.amount, list)
      /\ \A i \in DOMAIN list : AwardCheck(ws, in.id, list[i]) = "fine"
      /\ Awarded(list) \subseteq Bids
  BY <1>2 DEF Settles
<1>5. DOMAIN tx.writes = {in.id} \cup Awarded(list) /\ in.id \notin Awarded(list)
  BY <1>3, <1>4, KeyKinds DEF Settle
<1>6. Effective(tx)
  BY <1>1, <1>5 DEF Effective, Fresh
<1>7. list \in HouseAwards
  BY DEF Settlements
<1>8. ws'[in.id] = AfterSale(ws[in.id], in.amount)
  <2>1. tx.writes[in.id] = AfterSale(ws[in.id], in.amount)
    BY <1>4 DEF Settle
  <2> QED BY <1>1, <1>3, <1>5, <2>1, KeyKinds
<1>9. \A e \in Energies : e # in.id => ws'[e] = ws[e]
  BY <1>1, <1>4, <1>5, KeyKinds
<1>10. \A b \in Bids : b \notin Awarded(list) => ws'[b] = ws[b]
  BY <1>1, <1>3, <1>5, KeyKinds
<1>11. ASSUME NEW i \in DOMAIN list
       PROVE  LET b == list[i].id IN
              /\ ws[b] # Absent /\ ws[b].energy = in.id
              /\ Settled(ws'[b]) /\ ws'[b].energy = in.id
              /\ ws'[b].amount = list[i].amount
  <2> DEFINE b == list[i].id
             v == ws[b]
             n == list[i].amount
             u == ws[in.id].producer
  <2>1. b \in Awarded(list) /\ b \in Bids
    BY <1>4 DEF Awarded
  <2>2. v # Absent /\ v.energy = in.id
    <3>1. AwardCheck(ws, in.id, list[i]) = "fine"
      BY <1>4
    <3> HIDE DEF list, in
    <3> QED BY <3>1 DEF AwardCheck, EnergyExists
  <2>3. v \in HouseBid
    BY <1>2, <2>1, <2>2 DEF World
  <2>4. ws'[b] = AfterAward(v, n, u)
    <3>1. tx.writes[b] = AfterAward(v, AwardTo(list, b), u)
      BY <1>4, <1>5, <2>1 DEF Settle
    <3>2. AwardTo(list, b) = n
      BY <1>7, AwardFacts
    <3> QED BY <1>1, <1>5, <2>1, <3>1, <3>2, KeyKinds
  <2>5. ws'[b] # Absent
    <3>1. tx.writes[b] \in HouseBid /\ ws'[b] = tx.writes[b]
      BY <1>1, <1>2, <1>5, <2>1, KeyKinds DEF GoodWrites
    <3> QED BY <3>1, NoRecordIsAbsent
  <2> HIDE DEF v, n, u
  <2>6. /\ AfterAward(v, n, u).energy = v.energy /\ AfterAward(v, n, u).amount = n
        /\ AfterAward(v, n, u).status = "success"
    BY <2>3 DEF AfterAward, HouseBid
  <2> QED BY <2>2, <2>4, <2>5, <2>6 DEF v, n, Settled
<1>12. \A b \in Awarded(list) :
         /\ ws[b] # Absent /\ ws[b].energy = in.id
         /\ Settled(ws'[b]) /\ ws'[b].energy = in.id
  BY <1>11 DEF Awarded
<1>13. \A i \in DOMAIN list : ws'[list[i].id].amount = list[i].amount
  BY <1>11
<1> QED BY <1>3, <1>4, <1>6, <1>7, <1>8, <1>9, <1>10, <1>12, <1>13

\* Without a failed call, what commits is what its goroutine is working on.
LEMMA NothingSettledTwice ==
  ASSUME AwardsInv, faults = 0, NEW tx \in pool, Effective(tx)
  PROVE  /\ tx.awaited /\ tx.client \in Makers /\ auction[tx.client].pc = "submitted"
         /\ tx.req = EndRequest(auction[tx.client])
         /\ \A i \in DOMAIN tx.req.bidInput :
              tx.req.bidInput[i].id \in Bids => ~Settled(ws[tx.req.bidInput[i].id])
<1> DEFINE m == tx.client
<1>1. Owned(tx) /\ Awaiting(tx) /\ Current(tx) /\ tx.awaited
  BY DEF AwardsInv, AnswerInv, FinalInv, NothingForgotten
<1>2. m \in Makers
  BY <1>1 DEF Owned, Effective
<1>3. auction[m].pc = "submitted" /\ tx.req = EndRequest(auction[m]) /\ reply[m].kind = "none"
  BY <1>1, <1>2 DEF Awaiting, Current
<1>4. OfferNew(auction[m], reply[m])
  BY <1>2 DEF AwardsInv, MakerOK
<1>5. \A i \in DOMAIN auction[m].offer :
        auction[m].offer[i].id \in Bids => ~Settled(ws[auction[m].offer[i].id])
  BY <1>3, <1>4 DEF OfferNew
<1>6. tx.req.bidInput = auction[m].offer
  BY <1>3 DEF EndRequest
<1> QED BY <1>1, <1>2, <1>3, <1>5, <1>6


LEMMA SettlementCovers ==
  ASSUME AwardsInv, AnswerInv', NEW tx \in pool, Commit(tx), UNCHANGED auction,
         tx.req \in Settlements, NEW e \in Energies, ws'[e] # Absent
  PROVE  HasMaker(e)' /\ Covers(e)'
<1> DEFINE in == tx.req.in
           list == tx.req.bidInput
           out == Execute(ws, tx.req)
           t == ws[in.id]
<1>1. /\ AnswerInv /\ Fresh(tx) /\ AsksRight(tx) /\ Lasting(tx) /\ ~tx.stale /\ faults' = faults
      /\ \A k \in Keys : ws'[k] = IF k \in DOMAIN tx.writes THEN tx.writes[k] ELSE ws[k]
  BY CommitFacts DEF AwardsInv, AnswerInv, FinalInv, Commit
<1>2. /\ World(ws) /\ ~out.err /\ out.writes = tx.writes /\ World(ws')
  BY <1>1 DEF Fresh, TxOK, Endorsed, AnswerInv, FinalInv, HouseInv
<1>3. /\ in.id \in Energies /\ t \in HouseToken /\ t # Absent
      /\ \/ TurnsOld(ws, in, out)
         \/ Refuses(ws, in, list, out)
         \/ Settles(ws, in, list, out)
  BY <1>2, SettlementWrites
<1>4. CASE TurnsOld(ws, in, out)
  <2>1. tx.writes = [k \in {in.id} |-> [t EXCEPT !.status = "old"]]
    BY <1>2, <1>4 DEF TurnsOld
  <2>2. \A b \in Bids : ws'[b] = ws[b]
    BY <1>1, <1>3, <2>1, KeyKinds
  <2>3. ws[e] # Absent /\ ws'[e].amount = ws[e].amount /\ ws'[e].sold = ws[e].sold
    <3>1. CASE e = in.id
      <4>1. ws'[e] = [t EXCEPT !.status = "old"] /\ ws[e] = t
        BY <1>1, <2>1, <3>1, KeyKinds
      <4> HIDE DEF t
      <4> QED BY <1>3, <4>1 DEF HouseToken
    <3>2. CASE e # in.id
      <4>1. ws'[e] = ws[e]
        BY <1>1, <2>1, <3>2, KeyKinds
      <4> QED BY <4>1
    <3> QED BY <3>1, <3>2
  <2> QED BY <1>1, <2>2, <2>3, CoversStays
<1>5. CASE Refuses(ws, in, list, out)
  <2>1. DOMAIN tx.writes = {}
    BY <1>2, <1>5 DEF Refuses, NoWrite
  <2>2. \A k \in Keys : ws'[k] = ws[k]
    BY <1>1, <2>1
  <2>3. ws'[e] = ws[e] /\ \A b \in Bids : ws'[b] = ws[b]
    BY <2>2, KeyKinds
  <2> QED BY <1>1, <2>3, CoversStays
<1>6. CASE Settles(ws, in, list, out)
  <2>1. /\ Effective(tx) /\ list \in HouseAwards /\ Awarded(list) \subseteq Bids
        /\ ws'[in.id] = AfterSale(t, in.amount)
        /\ \A f \in Energies : f # in.id => ws'[f] = ws[f]
        /\ \A b \in Bids : b \notin Awarded(list) => ws'[b] = ws[b]
        /\ \A b \in Awarded(list) :
             /\ ws[b] # Absent /\ ws[b].energy = in.id
             /\ Settled(ws'[b]) /\ ws'[b].energy = in.id
        /\ \A i \in DOMAIN list : ws'[list[i].id].amount = list[i].amount
    BY <1>1, <1>6, SettledBy
  <2>2. CASE e # in.id
    <3>1. ws'[e] = ws[e]
      BY <2>1, <2>2
    <3>2. ASSUME NEW b \in Bids
          PROVE  \/ ws'[b] = ws[b]
                 \/ /\ ~(Settled(ws[b]) /\ ws[b].energy = e)
                    /\ ~(Settled(ws'[b]) /\ ws'[b].energy = e)
      BY <2>1, <2>2
    <3> QED BY <1>1, <3>1, <3>2, CoversStays
  <2>3. CASE e = in.id
    <3> DEFINE n == in.amount
    <3>1. ListSum(list, n) /\ n \in Nat
      <4>1. in \in [id : Energies, amount : Portions \cup {0}, time : Clock]
        BY DEF Settlements
      <4>2. ListSum(list, n)
        BY <1>1 DEF AsksRight
      <4> HIDE DEF list
      <4>3. n \in Portions \cup {0}
        <5> HIDE DEF in
        <5> QED BY <4>1
      <4> HIDE DEF n
      <4> QED BY <4>2, <4>3, Numbers
    <3>2. \A b \in WinnersIn(ws, e) : ws'[b] = ws[b]
      <4>1. ASSUME NEW b \in Bids, Settled(ws[b]) PROVE ws'[b] = ws[b]
        BY <1>1, <4>1, KeyKinds DEF Lasting
      <4> QED BY <4>1 DEF WinnersIn
    <3>3. WinnersIn(ws', e) = WinnersIn(ws, e) \cup Awarded(list)
      <4>1. ASSUME NEW b \in WinnersIn(ws', e) PROVE b \in WinnersIn(ws, e) \cup Awarded(list)
        BY <2>1, <4>1 DEF WinnersIn
      <4>2. ASSUME NEW b \in WinnersIn(ws, e) PROVE b \in WinnersIn(ws', e)
        BY <3>2, <4>2 DEF WinnersIn
      <4>3. ASSUME NEW b \in Awarded(list) PROVE b \in WinnersIn(ws', e)
        BY <2>1, <2>3, <4>3 DEF WinnersIn
      <4> QED BY <4>1, <4>2, <4>3
    <3>4. /\ Promised(ws', e) =< Promised(ws, e) + n
          /\ Awarded(list) \cap WinnersIn(ws, e) = {} => Promised(ws', e) = Promised(ws, e) + n
      <4> HIDE DEF list, n
      <4> QED BY <1>2, <2>1, <3>1, <3>2, <3>3, SettlementAdds
    <3>5. /\ ws'[e].amount = ws[e].amount /\ ws'[e].sold = ws[e].sold + n /\ ws[e].sold \in Nat
      <4>1. ws[e] = t /\ ws'[e] = AfterSale(t, n)
        BY <2>1, <2>3
      <4> HIDE DEF t, n
      <4> QED BY <1>3, <4>1 DEF AfterSale, HouseToken
    <3>6. HasMaker(e) /\ Covers(e)
      BY <1>3, <2>3 DEF AwardsInv
    <3>7. HasMaker(e)'
      BY <3>5, <3>6 DEF HasMaker
    <3>8. faults = 0 => Awarded(list) \cap WinnersIn(ws, e) = {}
      <4>1. ASSUME faults = 0, NEW b \in Awarded(list), b \in WinnersIn(ws, e) PROVE FALSE
        <5>1. PICK i \in DOMAIN list : list[i].id = b
          BY <4>1 DEF Awarded
        <5>2. Settled(ws[b]) /\ b \in Bids
          BY <4>1 DEF WinnersIn
        <5> QED BY <2>1, <4>1, <5>1, <5>2, NothingSettledTwice
      <4> QED BY <4>1
    <3>9. Promised(ws, e) \in Nat /\ Promised(ws', e) \in Nat
      BY <1>2, PromisedIsNat
    <3>10. Covers(e)'
      <4> DEFINE p == Promised(ws, e)
                 q == Promised(ws', e)
                 x == ws[e].sold
      <4>1. p \in Nat /\ q \in Nat /\ x \in Nat /\ n \in Nat /\ p =< x /\ q =< p + n
        BY <3>1, <3>4, <3>5, <3>6, <3>9 DEF Covers
      <4>2. faults = 0 => p = x /\ q = p + n
        BY <3>4, <3>6, <3>8 DEF Covers
      <4>3. ws'[e].sold = x + n
        BY <3>5
      <4> HIDE DEF p, q, x, n
      <4>4. q =< x + n /\ (faults = 0 => q = x + n)
        BY <4>1, <4>2
      <4>5. q =< ws'[e].sold /\ (faults' = 0 => q = ws'[e].sold)
        BY <1>1, <4>3, <4>4
      <4> QED BY <4>5 DEF Covers, q
    <3> QED BY <3>7, <3>10
  <2> QED BY <2>2, <2>3
<1> QED BY <1>3, <1>4, <1>5, <1>6


-----------------------------------------------------------------------------
(* A transaction commits: what its goroutine is told.                         *)

LEMMA FreshTold ==
  ASSUME AwardsInv, NEW tx \in pool, Commit(tx), NEW m \in Makers,
         tx.awaited, tx.client = m, auction[m].pc = "submitted"
  PROVE  /\ tx.msg \in Accounts \cup Refusals
         /\ ContractLife =< TokenLife /\ tx.msg = "auction continue" =>
              auction[m].isSold = FALSE /\ auction[m].ticks =< LaterTicks
<1> DEFINE a == auction[m]
           e == a.id
           t == ws[e]
           in == tx.req.in
           out == Execute(ws, tx.req)
<1>1. /\ AnswerInv /\ FinalInv /\ MakerOK(a, reply[m], m) /\ AuctionOK(a, m)
      /\ a.gen \in Nat /\ a.ts \in Nat
  BY MakerKnown DEF AwardsInv
<1>2. /\ Fresh(tx) /\ tx.req = EndRequest(a) /\ tx.req \in Settlements
  <2>1. Awaiting(tx) /\ Fresh(tx)
    BY <1>1, CommitFacts
  <2>2. tx.req = EndRequest(a)
    BY <2>1 DEF Awaiting
  <2> QED BY <1>1, <2>1, <2>2, EndRequestOK
<1>3. in.id = e /\ in.time = a.ts /\ in.amount = a.amount /\ tx.req.bidInput = a.offer
  BY <1>2 DEF EndRequest
<1>4. World(ws) /\ ~out.err /\ out.msg = tx.msg
  BY <1>2 DEF Fresh, TxOK, Endorsed
<1>5. /\ e \in Energies /\ t \in HouseToken /\ t # Absent
      /\ \/ TurnsOld(ws, in, out)
         \/ Refuses(ws, in, a.offer, out)
         \/ Settles(ws, in, a.offer, out)
  BY <1>2, <1>3, <1>4, SettlementWrites
<1>6. CASE TurnsOld(ws, in, out)
  <2>1. tx.msg = OldMessage
    BY <1>4, <1>6 DEF TurnsOld
  <2>2. OldMessage \in Accounts /\ OldMessage # "auction continue"
    BY DEF Accounts, OldMessage
  <2> QED BY <2>1, <2>2
<1>7. CASE Refuses(ws, in, a.offer, out)
  <2>1. \/ tx.msg = "energy amount is wrong"
        \/ \E i \in DOMAIN a.offer : /\ tx.msg = AwardCheck(ws, in.id, a.offer[i])
                                     /\ tx.msg \notin {"error", "fine"}
    BY <1>4, <1>7 DEF Refuses
  <2>2. ASSUME NEW i \in DOMAIN a.offer, tx.msg = AwardCheck(ws, in.id, a.offer[i]),
               tx.msg \notin {"error", "fine"}
        PROVE  tx.msg \in Refusals
    BY <2>2 DEF AwardCheck, Refusals
  <2>3. tx.msg \in Refusals => tx.msg # "auction continue"
    BY DEF Refusals
  <2>4. "energy amount is wrong" \in Accounts /\ "energy amount is wrong" # "auction continue"
    BY DEF Accounts
  <2> QED BY <2>1, <2>2, <2>3, <2>4
<1>8. CASE Settles(ws, in, a.offer, out)
  <2>1. /\ tx.msg = IF t.amount = t.sold + in.amount THEN "auction end" ELSE "auction continue"
        /\ ~Expired(in.time, t.gen) /\ ~Oversells(t, in.amount)
    BY <1>3, <1>4, <1>8 DEF Settles
  <2>2. tx.msg \in Accounts
    BY <2>1 DEF Accounts
  <2>3. t.gen = a.gen /\ t.amount = Output[m]
    <3>1. e \in TokenIds[m]
      BY <1>1 DEF AuctionOK
    <3>2. HasMaker(e)
      BY <1>5 DEF AwardsInv
    <3>3. PICK n \in Makers : e \in TokenIds[n] /\ t.amount = Output[n]
      BY <3>2 DEF HasMaker
    <3>4. n = m
      BY <3>1, <3>3, ProducerAssumption
    <3> QED BY <1>1, <1>5, <3>1, <3>3, <3>4 DEF AnswerInv, AgesOK
  <2>4. ASSUME tx.msg = "auction continue" PROVE a.isSold = FALSE
    <3>1. a.isSold \in BOOLEAN /\ (a.isSold = TRUE => a.amount = Output[m])
      BY <1>1 DEF MakerOK, Offered
    <3>2. ASSUME a.isSold = TRUE PROVE FALSE
      <4> DEFINE x == t.amount
                 y == t.sold
      <4>1. in.amount = x /\ x \in Nat /\ y \in Nat
        <5>1. Output[m] \in Nat
          BY Numbers
        <5> QED BY <1>3, <1>5, <2>3, <3>1, <3>2, <5>1 DEF HouseToken
      <4>2. ~(x < y + x) /\ ~(x = y + x)
        <5>1. ~(x = y + x)
          BY <2>1, <2>4, <4>1
        <5>2. ~(x < y + x)
          BY <2>1, <4>1 DEF Oversells
        <5> QED BY <5>1, <5>2
      <4> HIDE DEF x, y
      <4> QED BY <4>1, <4>2
    <3> QED BY <3>1, <3>2
  <2>5. ASSUME ContractLife =< TokenLife PROVE a.ticks =< LaterTicks
    <3> DEFINE k == a.ticks
               x == k * Interval
               ts == a.ts
               g == a.gen
    <3>1. k \in Nat /\ ts >= g + x /\ ts \in Nat /\ g \in Nat
      BY <1>1 DEF MakerOK, Timed
    <3>2. LaterTicks \in Nat /\ x \in Nat /\ (k > LaterTicks => x > TokenLife)
      BY <3>1, TickTimes
    <3>3. ContractLife \in Nat /\ TokenLife \in Nat /\ ~(ts - ContractLife > g)
      BY <1>3, <2>1, <2>3, ContractAssumption, ProducerAssumption DEF Expired
    <3> HIDE DEF x, k, ts, g
    <3>4. k =< LaterTicks
      BY <2>5, <3>1, <3>2, <3>3
    <3> QED BY <3>4 DEF k
  <2> QED BY <2>2, <2>4, <2>5
<1> QED BY <1>5, <1>6, <1>7, <1>8

LEMMA MakersAfterCommit ==
  ASSUME AwardsInv, NEW tx \in pool, Commit(tx), UNCHANGED auction, NEW m \in Makers
  PROVE  MakerOK(auction[m], reply[m], m)'
<1> DEFINE a == auction[m]
<1>1. /\ MakerOK(a, reply[m], m) /\ FinalInv /\ AnswerInv /\ AuctionOK(a, m) /\ m \in Clients
      /\ TokenIds[m] \subseteq Energies /\ OfferSound(a) /\ AsksRight(tx)
  BY MakerKnown DEF AwardsInv, FinalInv
<1>2. /\ Fresh(tx) /\ Owned(tx) /\ Awaiting(tx) /\ faults' = faults
      /\ \A k \in Keys : ws'[k] = IF k \in DOMAIN tx.writes THEN tx.writes[k] ELSE ws[k]
      /\ \/ reply'[m] = reply[m] /\ ~(tx.awaited /\ tx.client = m)
         \/ /\ tx.awaited /\ tx.client = m
            /\ reply'[m].kind = "ok" /\ reply'[m].msg = tx.msg
  BY <1>1, CommitFacts
<1>3. Timed(a)' /\ Offered(a, m)' /\ Ends(a)'
  BY <1>1 DEF MakerOK, Timed, Offered, Ends
<1>4. Told(a, reply[m])'
  <2>1. CASE reply'[m] = reply[m]
    BY <1>1, <2>1 DEF MakerOK, Told
  <2>2. CASE tx.awaited /\ tx.client = m /\ reply'[m].msg = tx.msg
    <3>1. a.pc = "submitted" =>
            /\ tx.msg \in Accounts \cup Refusals
            /\ ContractLife =< TokenLife /\ tx.msg = "auction continue" =>
                 a.isSold = FALSE /\ a.ticks =< LaterTicks
      BY <2>2, FreshTold
    <3> QED BY <2>2, <3>1 DEF Told
  <2> QED BY <1>2, <2>1, <2>2
<1>5. ASSUME faults = 0 PROVE OfferNew(a, reply[m])'
  <2>1. SUFFICES ASSUME a.pc \in {"submit", "submitted"},
                        ~(a.pc = "submitted" /\ reply'[m].kind = "ok"),
                        NEW i \in DOMAIN a.offer, a.offer[i].id \in Bids,
                        Settled(ws'[a.offer[i].id])
                 PROVE  FALSE
    BY DEF OfferNew, Settled
  <2> DEFINE b == a.offer[i].id
  <2>2. ~(a.pc = "submitted" /\ reply[m].kind = "ok")
    BY <1>2, <2>1
  <2>3. ~Settled(ws[b])
    BY <1>1, <1>5, <2>1, <2>2 DEF MakerOK, OfferNew
  <2>4. ws[b].energy = a.id /\ a.id \in TokenIds[m]
    BY <1>1, <2>1, KeyKinds DEF OfferSound, AuctionOK
  <2>5. Effective(tx) /\ ws[b].energy = tx.req.in.id
    BY <1>1, <2>1, <2>3, BidAfterCommit
  <2>6. /\ tx.client \in Makers /\ tx.req.in.id \in TokenIds[tx.client] /\ tx.awaited
        /\ auction[tx.client].pc = "submitted"
    BY <1>2, <1>5, <2>5, NothingSettledTwice DEF Owned, Effective
  <2>7. tx.client = m
    BY <2>4, <2>5, <2>6, ProducerAssumption
  <2> QED BY <1>2, <2>1, <2>6, <2>7
<1>6. ASSUME faults = 0 PROVE Keeps(a, reply[m], m)'
  <2>1. SUFFICES ASSUME NEW e \in TokenIds[m], ws'[e] # Absent
                 PROVE  /\ a.id = e
                        /\ a.pc \notin {"idle", "create"}
                        /\ a.pc = "creating" => reply'[m].kind = "ok"
                        /\ a.pc = "done" => a.last # "many create error"
    BY DEF Keeps
  <2>2. CASE ws[e] # Absent
    BY <1>1, <1>2, <1>5, <1>6, <2>2 DEF MakerOK, Keeps
  <2>3. CASE ws[e] = Absent
    <3>1. e \in Energies /\ e \in DOMAIN tx.writes
      BY <1>1, <1>2, <2>1, <2>3, KeyKinds
    <3>2. tx.req \in Creations /\ tx.req.id = e
      BY <1>2, <2>3, <3>1, TokenWritten
    <3>3. tx.client \in Makers /\ e \in TokenIds[tx.client]
      BY <1>2, <3>2 DEF Owned
    <3>4. tx.client = m
      BY <3>3, ProducerAssumption
    <3>5. tx.awaited
      BY <1>1, <1>6 DEF AnswerInv, NothingForgotten
    <3>6. a.pc = "creating" /\ a.id = e
      BY <1>1, <3>2, <3>4, <3>5 DEF AsksRight
    <3> QED BY <1>2, <3>4, <3>5, <3>6
  <2> QED BY <2>2, <2>3
<1> QED BY <1>2, <1>3, <1>4, <1>5, <1>6 DEF MakerOK


LEMMA AsksAfterCommit ==
  ASSUME AwardsInv, NEW tx \in pool, Commit(tx), UNCHANGED auction, NEW next \in pool'
  PROVE  AsksRight(next)'
<1>1. PICK other \in pool :
        next = [other EXCEPT !.stale = other.stale \/ other.reads \cap DOMAIN tx.writes # {}]
  BY DEF Commit, Remaining
<1>2. DOMAIN other = TxFields /\ AsksRight(other)
  BY DEF AwardsInv, AnswerInv, FinalInv, HouseInv, PoolOK, TxOK
<1>3. next.client = other.client /\ next.req = other.req /\ next.awaited = other.awaited
  BY <1>1, <1>2, Marked
<1> HIDE DEF AsksRight
<1> QED BY <1>2, <1>3 DEF AsksRight

LEMMA AwardsAfterCommit ==
  ASSUME AwardsInv, AnswerInv', NEW tx \in pool, Commit(tx), UNCHANGED auction
  PROVE  AwardsInv'
<1>1. \A m \in Makers : MakerOK(auction[m], reply[m], m)'
  BY MakersAfterCommit
<1>2. \A next \in pool' : AsksRight(next)'
  BY AsksAfterCommit
<1>3. tx.req \in HouseRequests
  BY DEF AwardsInv, AnswerInv, FinalInv, HouseInv, PoolOK, TxOK
<1>4. ASSUME NEW e \in Energies, ws'[e] # Absent PROVE HasMaker(e)' /\ Covers(e)'
  <2>1. CASE tx.req \in Creations
    BY <1>4, <2>1, CreationCovers
  <2>2. CASE tx.req \in Placements
    BY <1>4, <2>2, PlacementCovers
  <2>3. CASE tx.req \in Settlements
    BY <1>4, <2>3, SettlementCovers
  <2> QED BY <1>3, <2>1, <2>2, <2>3 DEF HouseRequests
<1> QED BY <1>1, <1>2, <1>4 DEF AwardsInv

-----------------------------------------------------------------------------
(* All steps.                                                                 *)

LEMMA AwardsInvInit == Init => AwardsInv
<1> SUFFICES ASSUME Init PROVE AwardsInv
  OBVIOUS
<1>1. AnswerInv
  BY AnswerInvInit
<1>2. pool = {}
  BY DEF Init, GatewayInit
<1>3. \A e \in Energies : ws[e] = Absent
  <2> DEFINE w == InitLedger(EmptyState).writes
  <2>1. ws = Apply(EmptyState, w) /\ DOMAIN w = Categories
    BY DEF Init, GatewayInit, InitLedger, Result
  <2> HIDE DEF w
  <2> QED BY <2>1, KeyKinds DEF Apply, EmptyState
<1>4. ASSUME NEW m \in Makers PROVE MakerOK(auction[m], reply[m], m)
  <2>1. auction[m].pc = "idle" /\ auction[m].ticks = 0 /\ auction[m].due = 0
    BY DEF Init, ProducerInit, Idle
  <2>2. TokenIds[m] \subseteq Energies
    BY ProducerAssumption
  <2> QED BY <1>3, <2>1, <2>2 DEF MakerOK, Timed, Offered, Told, Ends, OfferNew, Keeps
<1> QED BY <1>1, <1>2, <1>3, <1>4 DEF AwardsInv

LEMMA AwardsInvStep == AwardsInv /\ [Next]_vars => AwardsInv'
<1> SUFFICES ASSUME AwardsInv, [Next]_vars PROVE AwardsInv'
  OBVIOUS
<1>1. AnswerInv'
  BY AnswerInvStep DEF AwardsInv
<1>2. CASE UNCHANGED vars
  <2>1. UNCHANGED <<ws, pool, reply, faults, auction>>
    BY <1>2 DEF vars
  <2>2. faults' \in {faults, faults + 1}
    BY <2>1
  <2> QED BY <1>1, <2>1, <2>2, AwardsUntouched
<1>3. CASE Network
  BY <1>1, <1>3, AwardsAfterCommit, AwardsWhenSilent DEF Network, GatewayNext
<1>4. CASE Producers
  BY <1>1, <1>4, AwardsWhenCreating, AwardsWhenSettling, AuctionStarts, AuctionTicks,
     AuctionAsks, AuctionIsTold, AuctionCallsAgain
     DEF Producers, ProducerNext, ProducerStep
<1>5. CASE BuyersStart \/ BuyersPlace
  BY <1>1, <1>5, AwardsWhenBidding, AwardsWhenBuying DEF BuyersStart, BuyersPlace, BuyerStep
<1>6. CASE PriceUpdate
  BY <1>1, <1>6, AwardsWhenPriced
<1> QED BY <1>2, <1>3, <1>4, <1>5, <1>6 DEF Next

LEMMA AwardsInvHolds == Spec => []AwardsInv
BY AwardsInvInit, AwardsInvStep, PTL DEF Spec

\* The energy counted as sold covers the awards, and is exactly their sum as long
\* as no call has failed (SoldCoversAwards; auctionEnd adds the amount of its input
\* to Sold and awards what its list says, smartcontract.go:267-329).
THEOREM SoldIsAwarded == Spec => []SoldCoversAwards
<1>1. ASSUME AwardsInv PROVE SoldCoversAwards
  <2>1. World(ws)
    BY <1>1 DEF AwardsInv, AnswerInv, FinalInv, HouseInv
  <2>2. ASSUME NEW e \in Market PROVE AwardedOn(e) <= ws[e].sold /\ (faults = 0 => AwardedOn(e) = ws[e].sold)
    <3>1. e \in Energies /\ ws[e] # Absent
      BY DEF Market
    <3>2. Covers(e)
      BY <1>1, <3>1 DEF AwardsInv
    <3>3. AwardedOn(e) = Promised(ws, e)
      BY <2>1, AwardedIs
    <3> QED BY <3>2, <3>3 DEF Covers
  <2> QED BY <2>2 DEF SoldCoversAwards
<1> QED BY <1>1, AwardsInvHolds, PTL

\* As long as no call has failed, a token for sale has a goroutine that auctions
\* it or has ended with the simulation or with the amount of a retried settlement
\* (NoTokenIsAbandoned), if the contract's life of a token is not longer than the
\* producers' (both are 30 minutes: smartcontract.go:250, producerAppAuction.go:85).
THEOREM EveryTokenIsAuctioned ==
  ASSUME ContractLife =< TokenLife
  PROVE  Spec => []NoTokenIsAbandoned
<1>1. ASSUME AwardsInv PROVE NoTokenIsAbandoned
  <2>1. SUFFICES ASSUME NEW e \in Market, ws[e].status = "generated", faults = 0
                 PROVE  \E m \in Makers :
                          /\ auction[m].id = e
                          /\ auction[m].pc = "done" =>
                               auction[m].last \in {"time up", "energy amount is wrong"}
    BY DEF NoTokenIsAbandoned
  <2>2. e \in Energies /\ ws[e] # Absent
    BY DEF Market
  <2>3. PICK m \in Makers : e \in TokenIds[m]
    BY <1>1, <2>2 DEF AwardsInv, HasMaker
  <2>4. MakerOK(auction[m], reply[m], m) /\ AnswerOK(m)
    BY <1>1 DEF AwardsInv, AnswerInv
  <2>5. /\ auction[m].id = e
        /\ auction[m].pc = "done" => auction[m].last # "many create error"
    BY <2>1, <2>2, <2>3, <2>4 DEF MakerOK, Keeps
  <2>6. ASSUME auction[m].pc = "done"
        PROVE  auction[m].last \in {"time up", "energy amount is wrong"}
    <3>1. auction[m].last \in Endings
      BY <2>4, <2>6 DEF MakerOK, Ends
    <3>2. auction[m].last # "auction end" /\ auction[m].last # OldMessage
      BY <2>1, <2>4, <2>5, <2>6 DEF AnswerOK, Says
    <3> QED BY <2>5, <2>6, <3>1, <3>2 DEF Endings
  <2> QED BY <2>5, <2>6
<1> QED BY <1>1, AwardsInvHolds, PTL


-----------------------------------------------------------------------------
(* Type correctness.  The attempts are counted per call: the count restarts   *)
(* when a call has succeeded, so that "wait" and "done" have none.            *)

Typed(a, m) ==
  /\ a.pc \in {"idle", "create", "creating", "wait", "query", "submit", "submitted", "done"}
  /\ a.id \in TokenIds[m] \cup {NoId}
  /\ a.gen \in 0..EndTime
  /\ a.amount \in 0..Output[m]
  /\ a.ticks \in 0..(LaterTicks + 1)
  /\ a.tries \in Nat
  /\ a.pc \in {"idle", "wait", "done"} => a.tries = 0
  /\ a.pc \in {"create", "creating"} => a.tries =< MaxCreateErrors + 1
  /\ a.pc \in {"query", "submit", "submitted"} => a.tries =< MaxErrors

Filled(k, c) ==
  /\ k.pc \in {"idle", "send", "sent"}
  /\ k.tries \in 0..MaxBidErrors
  /\ k.drawn \in 0..Len(BidIds[c])

Replies == [kind : {"none", "ok", "error"}, msg : Messages]

CallsOK ==
  /\ reply \in [Clients -> Replies]
  /\ faults \in 0..MaxFaults
  /\ crashed \in BOOLEAN

TypeInv ==
  /\ CallsOK
  /\ \A m \in Makers : Typed(auction[m], m)
  /\ \A c \in Buyers : Filled(basket[c], c)

LEMMA MessagesAre ==
  ASSUME NEW s, World(s), NEW req \in HouseRequests, ~Execute(s, req).err
  PROVE  Execute(s, req).msg \in Messages
<1> DEFINE out == Execute(s, req)
<1>1. CASE req \in Creations
  <2>1. req.op = "CreateEnergyToken"
    BY <1>1 DEF Creations
  <2>2. out = CreateEnergyToken(s, req.id, req.producer, req.amount, req.cat, req.time)
    BY <2>1 DEF Execute
  <2>3. out.msg = "created"
    BY <2>2 DEF CreateEnergyToken, Error, Result
  <2> QED BY <2>3 DEF Messages
<1>2. CASE req \in Placements
  <2>1. req.op = "BidOnEnergy"
    BY <1>2 DEF Placements
  <2>2. out = BidOnEnergy(s, req.bidList)
    BY <2>1 DEF Execute
  <2>3. out.msg = "bids"
    BY <2>2 DEF BidOnEnergy, Error, Result
  <2> QED BY <2>3 DEF Messages
<1>3. CASE req \in Settlements
  <2>1. \/ TurnsOld(s, req.in, out)
        \/ Refuses(s, req.in, req.bidInput, out)
        \/ Settles(s, req.in, req.bidInput, out)
    BY <1>3, SettlementWrites
  <2>2. CASE TurnsOld(s, req.in, out)
    BY <2>2 DEF TurnsOld, Messages
  <2>3. CASE Refuses(s, req.in, req.bidInput, out)
    <3>1. \/ out.msg = "energy amount is wrong"
          \/ \E i \in DOMAIN req.bidInput : out.msg = AwardCheck(s, req.in.id, req.bidInput[i])
      BY <2>3 DEF Refuses
    <3>2. out.msg # "fine"
      BY <2>3 DEF Refuses
    <3>3. ASSUME NEW award, out.msg = AwardCheck(s, req.in.id, award) PROVE out.msg \in Messages
      <4>1. AwardCheck(s, req.in.id, award) \in
              {"the energy is alive", "error", "energy ID is wrong", "bid amount is wrong", "fine"}
        BY DEF AwardCheck
      <4> HIDE DEF out
      <4> QED BY <3>2, <3>3, <4>1 DEF Messages
    <3>4. "energy amount is wrong" \in Messages
      BY DEF Messages
    <3> QED BY <3>1, <3>3, <3>4
  <2>4. CASE Settles(s, req.in, req.bidInput, out)
    <3>1. out.msg \in {"auction end", "auction continue"}
      BY <2>4 DEF Settles
    <3> QED BY <3>1 DEF Messages
  <2> QED BY <2>1, <2>2, <2>3, <2>4
<1> QED BY <1>1, <1>2, <1>3 DEF HouseRequests

LEMMA RepliesAre ==
  /\ NoReply \in Replies /\ Failed \in Replies
  /\ \A msg \in Messages : Succeeded(msg) \in Replies
BY DEF NoReply, Failed, Succeeded, Replies, Messages

LEMMA CallsTyped ==
  ASSUME AwardsInv, CallsOK, Next
  PROVE  CallsOK'
<1>1. MaxFaults \in Nat
  BY GatewayAssumption
<1>2. ASSUME NEW c, NEW r \in Replies, reply' = [reply EXCEPT ![c] = r]
      PROVE  reply' \in [Clients -> Replies]
  BY <1>2 DEF CallsOK
<1>3. CASE Network
  <2>1. ASSUME NEW tx \in pool, Commit(tx) PROVE CallsOK'
    <3>1. Succeeded(tx.msg) \in Replies
      <4>1. TxOK(tx, ws) /\ ~tx.stale /\ World(ws)
        BY <2>1 DEF Commit, AwardsInv, AnswerInv, FinalInv, HouseInv, PoolOK
      <4>2. tx.msg \in Messages
        BY <4>1, MessagesAre DEF TxOK, Endorsed
      <4> QED BY <4>2, RepliesAre
    <3> DEFINE r == Succeeded(tx.msg)
    <3>2. \/ reply' = reply
          \/ reply' = [reply EXCEPT ![tx.client] = r]
      BY <2>1 DEF Commit, Answer
    <3> HIDE DEF r
    <3>3. reply' \in [Clients -> Replies]
      BY <1>2, <3>1, <3>2 DEF CallsOK, r
    <3> QED BY <1>3, <2>1, <3>3 DEF CallsOK, Commit, Network, GatewayNext
  <2>2. ASSUME NEW tx \in pool, Invalidate(tx) \/ GiveUp(tx) \/ Drop(tx) \/ ClockTick
        PROVE  CallsOK'
    <3>1. \/ reply' = reply
          \/ reply' = [reply EXCEPT ![tx.client] = Failed]
      BY <2>2 DEF Invalidate, GiveUp, Drop, ClockTick, Answer
    <3>2. reply' \in [Clients -> Replies]
      BY <1>2, <3>1, RepliesAre DEF CallsOK
    <3>3. faults' \in 0..MaxFaults
      BY <1>1, <2>2 DEF CallsOK, Invalidate, GiveUp, Drop, ClockTick
    <3> QED BY <1>3, <3>2, <3>3 DEF CallsOK, Network, GatewayNext
  <2>3. CASE ClockTick
    BY <1>3, <2>3 DEF CallsOK, ClockTick, Network, GatewayNext
  <2> QED BY <1>3, <2>1, <2>2, <2>3 DEF Network, GatewayNext
<1>4. ASSUME NEW c, NEW req, Submit(c, req) PROVE reply' \in [Clients -> Replies] /\ faults' = faults
  BY <1>2, <1>4, RepliesAre DEF Submit
<1>5. ASSUME NEW c, TakeReply(c) PROVE reply' \in [Clients -> Replies] /\ faults' = faults
  BY <1>2, <1>5, RepliesAre DEF TakeReply
<1>6. ASSUME Evaluate PROVE reply' \in [Clients -> Replies] /\ faults' = faults
  BY <1>6 DEF CallsOK, Evaluate, gatewayVars
<1>7. ASSUME EvaluateFails PROVE reply' \in [Clients -> Replies] /\ faults' \in 0..MaxFaults
  BY <1>1, <1>7 DEF CallsOK, EvaluateFails
<1>8. CASE Producers
  <2>1. PICK m \in Makers : Produce(m) \/ ProducerStep(m) \/ QueryFailed(m)
    BY <1>8 DEF Producers, ProducerNext
  <2>2. crashed' \in BOOLEAN
    <3>1. crashed' \in {crashed, TRUE}
      BY <2>1 DEF Produce, ProducerStep, QueryFailed, CreateToken, Created, CreateFailed, EndTimer,
                  Tick, TimeUp, Query, SubmitEnd, Ended, EndFailed, CallFailed
    <3> QED BY <3>1 DEF CallsOK
  <2>3. CASE CreateToken(m) \/ SubmitEnd(m)
    BY <1>4, <2>2, <2>3 DEF CreateToken, SubmitEnd, CallsOK
  <2>4. CASE Created(m) \/ CreateFailed(m) \/ Ended(m) \/ EndFailed(m)
    BY <1>5, <2>2, <2>4 DEF Created, CreateFailed, Ended, EndFailed, CallsOK
  <2>5. CASE Produce(m) \/ EndTimer(m) \/ Tick(m) \/ TimeUp(m) \/ Query(m)
    BY <1>6, <2>2, <2>5 DEF Produce, EndTimer, Tick, TimeUp, Query, CallsOK, Evaluate
  <2>6. CASE QueryFailed(m)
    BY <1>7, <2>2, <2>6 DEF QueryFailed, CallsOK
  <2> QED BY <2>1, <2>3, <2>4, <2>5, <2>6 DEF ProducerStep
<1>9. CASE BuyersStart
  BY <1>6, <1>9 DEF BuyersStart, Bidding, StampBids, CallsOK, Evaluate
<1>10. CASE BuyersPlace
  <2>1. PICK c \in Buyers : SendBids(c) \/ BidsPlaced(c) \/ BidsFailed(c)
    BY <1>10 DEF BuyersPlace, BuyerStep
  <2>2. CASE SendBids(c)
    BY <1>4, <2>2 DEF SendBids, CallsOK
  <2>3. CASE BidsPlaced(c) \/ BidsFailed(c)
    BY <1>5, <2>3 DEF BidsPlaced, BidsFailed, CallsOK
  <2> QED BY <2>1, <2>2, <2>3
<1>11. CASE PriceUpdate
  BY <1>11 DEF PriceUpdate, CallsOK
<1> QED BY <1>3, <1>8, <1>9, <1>10, <1>11 DEF Next


LEMMA AuctionsTyped ==
  ASSUME AwardsInv, \A m \in Makers : Typed(auction[m], m), Producers, NEW n \in Makers
  PROVE  Typed(auction'[n], n)
<1>1. PICK m \in Makers : Produce(m) \/ ProducerStep(m) \/ QueryFailed(m)
  BY DEF Producers, ProducerNext
<1> DEFINE b == auction[m]
<1>2. /\ HouseInv /\ AuctionOK(b, m) /\ Typed(b, m) /\ MakerOK(b, reply[m], m)
      /\ auction = [k \in Makers |-> auction[k]]
  BY DEF AwardsInv, AnswerInv, FinalInv, HouseInv, AuctionsOK
<1>3. /\ now \in 0..(EndTime + 1) /\ EndTime \in Nat /\ MaxErrors \in Nat /\ MaxCreateErrors \in Nat
      /\ LaterTicks \in Nat /\ Output[m] \in Nat
  BY <1>2, GatewayAssumption, ProducerAssumption, TickTimes, Numbers DEF HouseInv, Clock
<1>4. ASSUME NEW a, Typed(a, m), auction' = [auction EXCEPT ![m] = a] PROVE Typed(auction'[n], n)
  <2>1. auction'[n] = IF n = m THEN a ELSE auction[n]
    BY <1>2, <1>4
  <2> QED BY <1>4, <2>1
<1>5. ASSUME NEW why, auction' = Finish(m, why) PROVE Typed(auction'[n], n)
  <2> DEFINE a == [auction[m] EXCEPT !.pc = "done", !.tries = 0, !.due = 0, !.ts = 0,
                                     !.offer = NoOffer, !.amount = 0, !.last = why]
  <2>1. /\ a.pc = "done" /\ a.id = b.id /\ a.gen = b.gen /\ a.amount = 0 /\ a.ticks = b.ticks
        /\ a.tries = 0
    BY <1>2 DEF AuctionOK, AuctionFields
  <2>2. auction' = [auction EXCEPT ![m] = a]
    BY <1>5 DEF Finish
  <2> HIDE DEF a
  <2>3. Typed(a, m)
    BY <1>2, <1>3, <2>1 DEF Typed
  <2> QED BY <1>4, <2>2, <2>3
<1>6. ASSUME NEW why, auction' = Waiting(m, why) PROVE Typed(auction'[n], n)
  <2> DEFINE a == [auction[m] EXCEPT !.pc = "wait", !.tries = 0, !.ts = 0,
                            !.offer = NoOffer, !.amount = 0, !.isSold = FALSE,
                            !.last = why]
  <2>1. /\ a.pc = "wait" /\ a.id = b.id /\ a.gen = b.gen /\ a.amount = 0 /\ a.ticks = b.ticks
        /\ a.tries = 0
    BY <1>2 DEF AuctionOK, AuctionFields
  <2>2. auction' = [auction EXCEPT ![m] = a]
    BY <1>6 DEF Waiting
  <2> HIDE DEF a
  <2>3. Typed(a, m)
    BY <1>2, <1>3, <2>1 DEF Typed
  <2> QED BY <1>4, <2>2, <2>3
<1>7. ASSUME NEW why, auction' = Continue(m, why) PROVE Typed(auction'[n], n)
  BY <1>5, <1>6, <1>7 DEF Continue
<1>8. CASE Produce(m)
  <2> DEFINE a == [auction[m] EXCEPT !.pc = "create", !.gen = now]
  <2>1. b.pc = "idle" /\ now < EndTime /\ auction' = [auction EXCEPT ![m] = a]
    BY <1>8 DEF Produce, At
  <2>2. /\ a.pc = "create" /\ a.id = b.id /\ a.gen = now /\ a.amount = b.amount /\ a.ticks = b.ticks
        /\ a.tries = b.tries
    BY <1>2 DEF AuctionOK, AuctionFields
  <2> HIDE DEF a
  <2>3. Typed(a, m)
    BY <1>2, <1>3, <2>1, <2>2 DEF Typed
  <2> QED BY <1>4, <2>1, <2>3
<1>9. CASE CreateToken(m)
  <2>1. PICK id \in TokenIds[m] :
          auction' = [auction EXCEPT ![m] = [@ EXCEPT !.pc = "creating", !.id = id]]
    BY <1>9 DEF CreateToken
  <2> DEFINE a == [auction[m] EXCEPT !.pc = "creating", !.id = id]
  <2>2. b.pc = "create" /\ auction' = [auction EXCEPT ![m] = a]
    BY <1>9, <2>1 DEF CreateToken, At
  <2>3. /\ a.pc = "creating" /\ a.id = id /\ a.gen = b.gen /\ a.amount = b.amount
        /\ a.ticks = b.ticks /\ a.tries = b.tries
    BY <1>2 DEF AuctionOK, AuctionFields
  <2> HIDE DEF a
  <2>4. Typed(a, m)
    BY <1>2, <2>2, <2>3 DEF Typed
  <2> QED BY <1>4, <2>2, <2>4
<1>10. CASE Created(m)
  <2> DEFINE due == b.gen + Interval
             a == [auction[m] EXCEPT !.pc = "wait", !.tries = 0, !.due = due]
  <2>1. auction' = [auction EXCEPT ![m] = a]
    BY <1>10 DEF Created
  <2> HIDE DEF due
  <2>2. /\ a.pc = "wait" /\ a.id = b.id /\ a.gen = b.gen /\ a.amount = b.amount
        /\ a.ticks = b.ticks /\ a.tries = 0
    BY <1>2 DEF AuctionOK, AuctionFields
  <2> HIDE DEF a
  <2>3. Typed(a, m)
    BY <1>2, <2>2 DEF Typed
  <2> QED BY <1>4, <2>1, <2>3
<1>11. CASE CreateFailed(m)
  <2>1. CASE b.tries > MaxCreateErrors
    BY <1>5, <1>11, <2>1 DEF CreateFailed
  <2>2. CASE ~(b.tries > MaxCreateErrors)
    <3> DEFINE tries == b.tries + 1
               a == [auction[m] EXCEPT !.pc = "create", !.id = NoId, !.tries = tries]
    <3>1. b.pc = "creating" /\ auction' = [auction EXCEPT ![m] = a]
      BY <1>11, <2>2 DEF CreateFailed, At
    <3>2. tries \in Nat /\ tries =< MaxCreateErrors + 1
      BY <1>2, <1>3, <2>2 DEF Typed
    <3> HIDE DEF tries
    <3>3. /\ a.pc = "create" /\ a.id = NoId /\ a.gen = b.gen /\ a.amount = b.amount
          /\ a.ticks = b.ticks /\ a.tries = tries
      BY <1>2 DEF AuctionOK, AuctionFields
    <3> HIDE DEF a
    <3>4. Typed(a, m)
      BY <1>2, <3>2, <3>3 DEF Typed
    <3> QED BY <1>4, <3>1, <3>4
  <2> QED BY <2>1, <2>2
<1>12. CASE EndTimer(m) \/ TimeUp(m)
  BY <1>5, <1>12 DEF EndTimer, TimeUp
<1>13. CASE Tick(m)
  <2> DEFINE ticks == b.ticks + 1
             due == IF b.ticks = 0 THEN now + Interval
                    ELSE b.due + Interval * (((now - b.due) \div Interval) + 1)
             a == [auction[m] EXCEPT !.pc = "query", !.ts = now, !.ticks = ticks, !.due = due]
  <2>1. b.pc = "wait" /\ auction' = [auction EXCEPT ![m] = a]
    BY <1>13 DEF Tick, At
  <2>2. ticks \in 0..(LaterTicks + 1)
    <3>1. b.ticks \in Nat /\ b.ticks =< LaterTicks
      BY <1>2, <2>1 DEF MakerOK, Timed
    <3> QED BY <1>3, <3>1
  <2> HIDE DEF ticks, due
  <2>3. /\ a.pc = "query" /\ a.id = b.id /\ a.gen = b.gen /\ a.amount = b.amount
        /\ a.ticks = ticks /\ a.tries = b.tries
    BY <1>2 DEF AuctionOK, AuctionFields
  <2> HIDE DEF a
  <2>4. Typed(a, m)
    BY <1>2, <1>3, <2>1, <2>2, <2>3 DEF Typed
  <2> QED BY <1>4, <2>1, <2>4
<1>14. CASE Query(m)
  <2>1. CASE auction' = Continue(m, "no bids")
    BY <1>7, <2>1
  <2>2. CASE auction' # Continue(m, "no bids")
    <3> DEFINE open == AuctionEndQuery(ws, b.id, b.ts)
    <3>1. PICK q \in Rankings(open, ws) :
            auction' = [auction EXCEPT ![m] =
              [@ EXCEPT !.pc = "submit", !.tries = 0,
                        !.offer = IF open = {} THEN <<[id |-> OldId, amount |-> 0]>>
                                  ELSE Allocate(q, ws, Output[m]),
                        !.amount = Allocated(q, ws, Output[m]),
                        !.isSold = TakesAll(q, ws, Output[m])]]
      BY <1>14, <2>2 DEF Query
    <3> DEFINE offer == IF open = {} THEN <<[id |-> OldId, amount |-> 0]>>
                        ELSE Allocate(q, ws, Output[m])
               sold == Allocated(q, ws, Output[m])
               isSold == TakesAll(q, ws, Output[m])
               a == [auction[m] EXCEPT !.pc = "submit", !.tries = 0, !.offer = offer,
                                       !.amount = sold, !.isSold = isSold]
    <3>2. auction' = [auction EXCEPT ![m] = a]
      BY <3>1
    <3>3. sold \in 0..Output[m]
      <4>1. open \subseteq Bids /\ \A o \in open : ws[o] # Absent
        BY DEF AuctionEndQuery, BidsOn
      <4>2. IsFiniteSet(open)
        BY <4>1, FS_Subset, ContractAssumption
      <4>3. \A o \in open : ws[o].bidAmount \in Nat \ {0}
        BY <1>2, <4>1, Numbers DEF HouseInv, World, HouseBid
      <4>4. Output[m] \in Nat \ {0}
        BY Numbers
      <4> HIDE DEF open
      <4>5. AddsUp(Allocate(q, ws, Output[m]), sold, Output[m])
        BY <4>2, <4>3, <4>4, AllocationIsFair
      <4> QED BY <4>5 DEF AddsUp
    <3> HIDE DEF open, offer, sold, isSold
    <3>4. /\ a.pc = "submit" /\ a.id = b.id /\ a.gen = b.gen /\ a.amount = sold
          /\ a.ticks = b.ticks /\ a.tries = 0
      BY <1>2 DEF AuctionOK, AuctionFields
    <3> HIDE DEF a
    <3>5. Typed(a, m)
      BY <1>2, <1>3, <3>3, <3>4 DEF Typed
    <3> QED BY <1>4, <3>2, <3>5
  <2> QED BY <2>1, <2>2
<1>15. CASE SubmitEnd(m)
  <2> DEFINE a == [auction[m] EXCEPT !.pc = "submitted"]
  <2>1. b.pc = "submit" /\ auction' = [auction EXCEPT ![m] = a]
    BY <1>15 DEF SubmitEnd, At
  <2>2. /\ a.pc = "submitted" /\ a.id = b.id /\ a.gen = b.gen /\ a.amount = b.amount
        /\ a.ticks = b.ticks /\ a.tries = b.tries
    BY <1>2 DEF AuctionOK, AuctionFields
  <2> HIDE DEF a
  <2>3. Typed(a, m)
    BY <1>2, <2>1, <2>2 DEF Typed
  <2> QED BY <1>4, <2>1, <2>3
<1>16. CASE Ended(m)
  <2> DEFINE msg == reply[m].msg
  <2>1. auction' = Finish(m, msg) \/ auction' = Continue(m, msg)
    BY <1>16 DEF Ended
  <2> HIDE DEF msg
  <2> QED BY <1>5, <1>7, <2>1
<1>17. ASSUME NEW pc \in {"query", "submit"}, b.pc \in {"query", "submitted"}, CallFailed(m, pc)
       PROVE  Typed(auction'[n], n)
  <2>1. CASE b.tries + 1 > MaxErrors
    BY <1>17, <2>1 DEF CallFailed
  <2>2. CASE ~(b.tries + 1 > MaxErrors)
    <3> DEFINE tries == b.tries + 1
               a == [auction[m] EXCEPT !.pc = pc, !.tries = tries]
    <3>1. auction' = [auction EXCEPT ![m] = a]
      BY <1>17, <2>2 DEF CallFailed
    <3>2. tries \in Nat /\ tries =< MaxErrors
      BY <1>2, <1>3, <2>2 DEF Typed
    <3> HIDE DEF tries
    <3>3. /\ a.pc = pc /\ a.id = b.id /\ a.gen = b.gen /\ a.amount = b.amount
          /\ a.ticks = b.ticks /\ a.tries = tries
      BY <1>2 DEF AuctionOK, AuctionFields
    <3> HIDE DEF a
    <3>4. Typed(a, m)
      BY <1>2, <1>17, <3>2, <3>3 DEF Typed
    <3> QED BY <1>4, <3>1, <3>4
  <2> QED BY <2>1, <2>2
<1>18. CASE EndFailed(m) \/ QueryFailed(m)
  BY <1>17, <1>18 DEF EndFailed, QueryFailed, At
<1> QED BY <1>1, <1>8, <1>9, <1>10, <1>11, <1>12, <1>13, <1>14, <1>15, <1>16, <1>18 DEF ProducerStep

LEMMA BasketsTyped ==
  ASSUME AwardsInv, \A c \in Buyers : Filled(basket[c], c), BuyersStart \/ BuyersPlace,
         NEW d \in Buyers
  PROVE  Filled(basket'[d], d)
<1>1. PICK c \in Buyers : Bidding(c) \/ SendBids(c) \/ BidsPlaced(c) \/ BidsFailed(c)
  BY DEF BuyersStart, BuyersPlace, BuyerStep
<1> DEFINE k == basket[c]
<1>2. BasketOK(k) /\ Filled(k, c) /\ basket = [e \in Buyers |-> basket[e]]
  BY DEF AwardsInv, AnswerInv, FinalInv, HouseInv, BasketsOK
<1>3. MaxBidErrors \in Nat /\ Len(BidIds[c]) \in Nat
  BY BuyerAssumption
<1>4. ASSUME NEW a, Filled(a, c), basket' = [basket EXCEPT ![c] = a] PROVE Filled(basket'[d], d)
  <2>1. basket'[d] = IF d = c THEN a ELSE basket[d]
    BY <1>2, <1>4
  <2> QED BY <1>4, <2>1
<1>5. CASE Bidding(c)
  <2>1. PICK n \in 1..MaxBatch :
          \E wanted \in [1..n -> UNION {WantedOn(e) : e \in Market}] : StampBids(c, wanted)
    BY <1>5 DEF Bidding
  <2>2. PICK wanted \in [1..n -> UNION {WantedOn(e) : e \in Market}] : StampBids(c, wanted)
    BY <2>1
  <2>3. PICK list : basket' = [basket EXCEPT ![c] =
          [@ EXCEPT !.pc = "send", !.tries = 0, !.drawn = k.drawn + Len(wanted), !.list = list]]
    BY <2>2 DEF StampBids
  <2>4. k.drawn + Len(wanted) =< Len(BidIds[c])
    BY <2>2 DEF StampBids
  <2>5. Len(wanted) \in Nat
    <3>1. n \in Nat /\ wanted \in [1..n -> UNION {WantedOn(e) : e \in Market}]
      BY <2>1, HouseAssumption
    <3> QED BY <3>1
  <2> DEFINE drawn == k.drawn + Len(wanted)
             a == [basket[c] EXCEPT !.pc = "send", !.tries = 0, !.drawn = drawn, !.list = list]
  <2>6. basket' = [basket EXCEPT ![c] = a]
    BY <2>3
  <2>7. drawn \in 0..Len(BidIds[c])
    BY <1>2, <1>3, <2>4, <2>5 DEF Filled
  <2> HIDE DEF drawn
  <2>8. a.pc = "send" /\ a.tries = 0 /\ a.drawn = drawn
    BY <1>2 DEF BasketOK, BasketFields
  <2> HIDE DEF a
  <2>9. Filled(a, c)
    BY <1>3, <2>7, <2>8 DEF Filled
  <2> QED BY <1>4, <2>6, <2>9
<1>6. CASE SendBids(c)
  <2> DEFINE a == [basket[c] EXCEPT !.pc = "sent"]
  <2>1. basket' = [basket EXCEPT ![c] = a]
    BY <1>6 DEF SendBids
  <2>2. a.pc = "sent" /\ a.tries = k.tries /\ a.drawn = k.drawn
    BY <1>2 DEF BasketOK, BasketFields
  <2> HIDE DEF a
  <2>3. Filled(a, c)
    BY <1>2, <2>2 DEF Filled
  <2> QED BY <1>4, <2>1, <2>3
<1>7. CASE BidsPlaced(c)
  <2> DEFINE placed == k.placed \cup DOMAIN k.list
             a == [basket[c] EXCEPT !.pc = "idle", !.list = <<>>, !.tries = 0, !.placed = placed]
  <2>1. basket' = [basket EXCEPT ![c] = a]
    BY <1>7 DEF BidsPlaced
  <2> HIDE DEF placed
  <2>2. a.pc = "idle" /\ a.tries = 0 /\ a.drawn = k.drawn
    BY <1>2 DEF BasketOK, BasketFields
  <2> HIDE DEF a
  <2>3. Filled(a, c)
    BY <1>2, <1>3, <2>2 DEF Filled
  <2> QED BY <1>4, <2>1, <2>3
<1>8. CASE BidsFailed(c)
  <2> DEFINE tries == k.tries + 1
             last == [basket[c] EXCEPT !.pc = "idle", !.list = <<>>, !.tries = 0]
             again == [basket[c] EXCEPT !.pc = "send", !.tries = tries]
             a == IF tries > MaxBidErrors THEN last ELSE again
  <2>1. basket' = [basket EXCEPT ![c] = a]
    BY <1>8 DEF BidsFailed
  <2>2. tries \in Nat
    BY <1>2, <1>3 DEF Filled
  <2> HIDE DEF tries
  <2>3. /\ last.pc = "idle" /\ last.tries = 0 /\ last.drawn = k.drawn
        /\ again.pc = "send" /\ again.tries = tries /\ again.drawn = k.drawn
    BY <1>2 DEF BasketOK, BasketFields
  <2> HIDE DEF last, again
  <2>4. Filled(a, c)
    BY <1>2, <1>3, <2>2, <2>3 DEF Filled
  <2> HIDE DEF a
  <2> QED BY <1>4, <2>1, <2>4
<1> QED BY <1>1, <1>5, <1>6, <1>7, <1>8

LEMMA TypeInvInit == Init => TypeInv
<1> SUFFICES ASSUME Init PROVE TypeInv
  OBVIOUS
<1>1. CallsOK
  <2>1. reply = [c \in Clients |-> NoReply] /\ faults = 0 /\ crashed = FALSE
    BY DEF Init, GatewayInit
  <2>2. 0 \in 0..MaxFaults
    BY GatewayAssumption
  <2> QED BY <2>1, <2>2, RepliesAre DEF CallsOK
<1>2. ASSUME NEW m \in Makers PROVE Typed(auction[m], m)
  <2>1. auction[m] = Idle
    BY DEF Init, ProducerInit
  <2>2. EndTime \in Nat /\ Output[m] \in Nat /\ LaterTicks \in Nat /\ MaxErrors \in Nat
    BY GatewayAssumption, Numbers, TickTimes, ProducerAssumption
  <2> QED BY <2>1, <2>2 DEF Typed, Idle
<1>3. ASSUME NEW c \in Buyers PROVE Filled(basket[c], c)
  <2>1. basket[c] = EmptyBasket
    BY DEF Init, BuyerInit
  <2>2. MaxBidErrors \in Nat /\ Len(BidIds[c]) \in Nat
    BY BuyerAssumption
  <2> QED BY <2>1, <2>2 DEF Filled, EmptyBasket
<1> QED BY <1>1, <1>2, <1>3 DEF TypeInv

LEMMA TypeInvStep == AwardsInv /\ TypeInv /\ [Next]_vars => TypeInv'
<1> SUFFICES ASSUME AwardsInv, TypeInv, [Next]_vars PROVE TypeInv'
  OBVIOUS
<1>1. CASE UNCHANGED vars
  BY <1>1 DEF TypeInv, CallsOK, vars
<1>2. CASE Next
  <2>1. CallsOK'
    BY <1>2, CallsTyped DEF TypeInv
  <2>2. ASSUME NEW m \in Makers PROVE Typed(auction'[m], m)
    <3>1. Producers \/ auction' = auction
      BY <1>2 DEF Next, Network, BuyersStart, BuyersPlace, PriceUpdate
    <3> QED BY <3>1, AuctionsTyped DEF TypeInv
  <2>3. ASSUME NEW c \in Buyers PROVE Filled(basket'[c], c)
    <3>1. BuyersStart \/ BuyersPlace \/ basket' = basket
      BY <1>2 DEF Next, Network, Producers, PriceUpdate
    <3> QED BY <3>1, BasketsTyped DEF TypeInv
  <2> QED BY <2>1, <2>2, <2>3 DEF TypeInv
<1> QED BY <1>1, <1>2

\* Every variable keeps its type: the attempts of a call stay within the bounds at
\* which the code gives up or panics (createToken and auctionEnd,
\* producerAppCreate.go and producerAppAuction.go), the ticks within the life of a
\* token, an award within the energy of its producer, and a client is answered
\* with an error or with one of the contract's messages (TypeOK).
THEOREM TypesHold == Spec => []TypeOK
<1>1. ASSUME AwardsInv, TypeInv PROVE TypeOK
  <2>1. World(ws) /\ PoolOK(pool, ws) /\ now \in Clock
    BY <1>1 DEF AwardsInv, AnswerInv, FinalInv, HouseInv
  <2>2. GatewayTypeOK
    <3>1. DOMAIN ws = Keys
      BY <2>1 DEF World
    <3>2. ASSUME NEW c \in Categories PROVE ws[c] \in Cost
      BY <2>1, Numbers DEF World, HouseCost, Cost
    <3>3. ASSUME NEW e \in Energies PROVE ws[e] \in Token \cup {Absent}
      <4>1. ws[e] \in HouseToken \cup {Absent}
        BY <2>1 DEF World
      <4>2. Portions \subseteq Nat /\ Clock \subseteq Nat /\ UnitPrices \subseteq Nat
        BY Numbers
      <4> QED BY <4>1, <4>2 DEF HouseToken, Token
    <3>4. ASSUME NEW b \in Bids PROVE ws[b] \in Bid \cup {Absent}
      <4>1. ws[b] \in HouseBid \cup {Absent}
        BY <2>1 DEF World
      <4>2. Portions \subseteq Nat /\ Clock \subseteq Nat /\ HousePrices \subseteq Nat /\ Prios \subseteq Nat
        BY Numbers, HouseAssumption
      <4> QED BY <4>1, <4>2 DEF HouseBid, Bid
    <3>5. ASSUME NEW tx \in pool
          PROVE  /\ tx.client \in Clients /\ tx.reads \subseteq Keys /\ DOMAIN tx.writes \subseteq Keys
                 /\ tx.stale \in BOOLEAN /\ tx.awaited \in BOOLEAN
      BY <2>1 DEF PoolOK, TxOK, GoodWrites
    <3>6. /\ reply \in [Clients -> [kind : {"none", "ok", "error"}, msg : Messages]]
          /\ faults \in 0..MaxFaults /\ crashed \in BOOLEAN
      BY <1>1 DEF TypeInv, CallsOK, Replies
    <3> QED BY <2>1, <3>1, <3>2, <3>3, <3>4, <3>5, <3>6 DEF GatewayTypeOK, Clock
  <2>3. ASSUME NEW m \in Makers
        PROVE  /\ auction[m].pc \in {"idle", "create", "creating", "wait", "query", "submit",
                                     "submitted", "done"}
               /\ auction[m].id \in TokenIds[m] \cup {NoId}
               /\ auction[m].gen \in 0..EndTime
               /\ auction[m].tries \in 0..(MaxErrors + MaxCreateErrors + 1)
               /\ auction[m].ticks \in 0..(LaterTicks + 1)
               /\ auction[m].amount \in 0..Output[m]
    <3>1. Typed(auction[m], m) /\ MaxErrors \in Nat /\ MaxCreateErrors \in Nat
      BY <1>1, ProducerAssumption DEF TypeInv
    <3>2. auction[m].tries \in 0..(MaxErrors + MaxCreateErrors + 1)
      BY <3>1 DEF Typed
    <3> QED BY <3>1, <3>2 DEF Typed
  <2>4. ProducerTypeOK
    BY <2>3 DEF ProducerTypeOK
  <2>5. BuyerTypeOK
    <3>1. ASSUME NEW c \in Buyers
          PROVE  /\ Filled(basket[c], c) /\ basket[c].placed \subseteq Bids
      <4>1. PlacedOK(c)
        BY <1>1 DEF AwardsInv, AnswerInv
      <4> QED BY <1>1, <4>1 DEF TypeInv, PlacedOK
    <3> QED BY <3>1 DEF BuyerTypeOK, Filled
  <2> QED BY <2>2, <2>4, <2>5 DEF TypeOK
<1> QED BY <1>1, AwardsInvInit, AwardsInvStep, TypeInvInit, TypeInvStep, PTL DEF Spec

=============================================================================
