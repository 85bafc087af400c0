------------------------- MODULE EnergyMarket_proofs -------------------------
(* What consumers do, for any producers, buyers, tokens and bids, and any     *)
(* delays, failures and retries: their bids are among those AuctionHouse is   *)
(* open to, so its theorems hold of the simulation; and what they charge is   *)
(* what their bids were awarded, which never exceeds what they need.  And     *)
(* while calls are punctual, no bid is missed by a tick, and none is awarded  *)
(* anything after its result was read.                                        *)
EXTENDS TimelyMarket, AuctionAwards_proofs

-----------------------------------------------------------------------------
(* What bids ask for, on the ledger and in a list that is being sent.         *)

Volumes(s) == [b \in Bids |-> IF s[b] # Absent THEN s[b].bidAmount ELSE 0]
ListVolumes(list) == [b \in Bids |-> IF b \in DOMAIN list THEN list[b].bidAmount ELSE 0]

LEMMA VolumesAdd ==
  ASSUME NEW s, World(s), NEW S \in SUBSET Bids
  PROVE  Summable(Volumes(s), S)
<1>1. \A b \in Bids : Volumes(s)[b] \in Nat
  BY Numbers DEF World, HouseBid, Volumes
<1> QED BY <1>1, FS_Subset, ContractAssumption DEF Summable

LEMMA ListVolumesAdd ==
  ASSUME NEW list \in HouseBatches, NEW S \in SUBSET Bids
  PROVE  Summable(ListVolumes(list), S)
<1>1. \A b \in DOMAIN list : list[b] \in HouseBids
  BY DEF HouseBatches
<1>2. \A b \in DOMAIN list : list[b].bidAmount \in Nat
  <2>1. \A v \in HouseBids : v.bidAmount \in Portions
    BY DEF HouseBids
  <2> QED BY <1>1, <2>1, Numbers
<1>3. \A b \in Bids : ListVolumes(list)[b] \in Nat
  BY <1>2 DEF ListVolumes
<1> QED BY <1>3, FS_Subset, ContractAssumption DEF Summable

LEMMA AsksTotal ==
  ASSUME World(ws), NEW S \in SUBSET Bids, \A b \in S : ws[b] # Absent
  PROVE  Asks(S) = Total(Volumes(ws), S)
<1> DEFINE f == [b \in S |-> ws[b].bidAmount]
<1>1. Summable(Volumes(ws), S)
  BY VolumesAdd
<1>2. \A b \in S : Volumes(ws)[b] = f[b]
  BY DEF Volumes
<1>3. Summable(f, S) /\ Total(Volumes(ws), S) = Total(f, S)
  <2> HIDE DEF f
  <2> QED BY <1>1, <1>2, TotalSame
<1>4. Asks(S) = BidAmountSum(ws, S)
  BY DEF Asks, BidAmountSum, MapThenSumSet, MapThenFoldSet
<1> QED BY <1>3, <1>4, BidAmountTotal

LEMMA AwardedToTotal ==
  ASSUME World(ws), NEW c \in Buyers, basket[c].placed \in SUBSET Bids
  PROVE  AwardedTo(c) = Total(Amounts(ws), {b \in basket[c].placed : Settled(ws[b])})
<1> DEFINE S == {b \in basket[c].placed : Settled(ws[b])}
           f == [b \in S |-> ws[b].amount]
<1>1. S \in SUBSET Bids /\ \A b \in S : Amounts(ws)[b] = f[b]
  BY DEF Amounts
<1>2. Summable(Amounts(ws), S)
  BY <1>1, AmountsAdd
<1>3. Summable(f, S) /\ Total(Amounts(ws), S) = Total(f, S)
  <2> HIDE DEF S, f
  <2> QED BY <1>1, <1>2, TotalSame
<1>4. S = {b \in basket[c].placed : ws[b] # Absent /\ ws[b].status = "success"}
  BY DEF Settled
<1>5. AwardedTo(c) = AmountSum(ws, S)
  BY <1>4 DEF AwardedTo, AmountSum, MapThenSumSet, MapThenFoldSet
<1> QED BY <1>3, <1>5, AmountTotal

\* Two sets of bids that have none in common.
LEMMA TotalOfTwo ==
  ASSUME NEW S, NEW T, NEW f, Summable(f, S \cup T), S \cap T = {}
  PROVE  Total(f, S \cup T) = Total(f, S) + Total(f, T)
<1>1. S \in SUBSET (S \cup T) /\ (S \cup T) \ S = T
  OBVIOUS
<1> QED BY <1>1, TotalSplits

-----------------------------------------------------------------------------
(* The bids a consumer makes: tokens from the front of its ranking, as many   *)
(* as are needed, the last cut to what is left.                               *)

OnSale(s) == {e \in Energies : s[e] # Absent}

\* Tokens that exist, each once.
IsRanking(q, s) ==
  \E L \in Nat : q \in [1..L -> OnSale(s)] /\ \A i, j \in 1..L : i # j => q[i] # q[j]

LEMMA SupplySums ==
  ASSUME World(ws), NEW c \in Buyers, NEW L \in Nat, charging[c].valid \in [1..L -> OnSale(ws)]
  PROVE  /\ [n \in 1..L |-> ws[charging[c].valid[n]].amount] \in [1..L -> Nat \ {0}]
         /\ Sums(Supply(c), L, [n \in 1..L |-> ws[charging[c].valid[n]].amount])
<1> DEFINE q == charging[c].valid
           a == [n \in 1..L |-> ws[q[n]].amount]
<1>1. Len(q) = L
  OBVIOUS
<1>2. a \in [1..L -> Nat \ {0}]
  <2>1. \A e \in OnSale(ws) : ws[e].amount \in Nat \ {0}
    BY Numbers DEF OnSale, World, HouseToken
  <2> QED BY <2>1
<1>3. PICK g : Sums(g, L, a)
  <2>1. a \in [1..L -> Nat]
    BY <1>2
  <2> QED BY <2>1, SumsExist
<1> DEFINE Fix(f) == f = [n \in 0..L |-> IF n = 0 THEN 0 ELSE f[n - 1] + ws[q[n]].amount]
<1>4. Fix(g)
  <2>1. ASSUME NEW n \in 0..L PROVE g[n] = IF n = 0 THEN 0 ELSE g[n - 1] + ws[q[n]].amount
    <3>1. CASE n = 0
      BY <1>3, <3>1 DEF Sums
    <3>2. CASE n # 0
      <4>1. n \in 1..L
        BY <3>2
      <4> QED BY <1>3, <3>2, <4>1 DEF Sums
    <3> QED BY <3>1, <3>2
  <2> QED BY <1>3, <2>1 DEF Sums
<1>5. Supply(c) = CHOOSE f : Fix(f)
  BY <1>1 DEF Supply
<1>6. Fix(Supply(c))
  BY <1>4, <1>5
<1> DEFINE A == Supply(c)
           T == {n \in 0..L : A[n] # g[n]}
<1>7. /\ A = [n \in 0..L |-> A[n]]
      /\ A[0] = 0
      /\ \A n \in 1..L : A[n] = A[n - 1] + a[n]
  <2> HIDE DEF A
  <2>1. Fix(A)
    BY <1>6 DEF A
  <2>2. ASSUME NEW n \in 1..L PROVE A[n] = A[n - 1] + a[n]
    <3>1. n \in 0..L /\ n # 0
      OBVIOUS
    <3> QED BY <2>1, <3>1
  <2> QED BY <2>1, <2>2
<1> HIDE DEF A, a
<1>8. T = {}
  <2>1. SUFFICES ASSUME T # {} PROVE FALSE
    OBVIOUS
  <2>2. PICK n \in T : \A y \in T : n =< y
    <3>1. T \in SUBSET Nat
      OBVIOUS
    <3> QED BY <2>1, <3>1, LeastOf
  <2>3. n \in 0..L /\ A[n] # g[n] /\ g[0] = 0
    BY <1>3 DEF Sums
  <2>4. n \in 1..L
    BY <1>7, <2>3
  <2>5. n - 1 \in 0..L /\ n - 1 \notin T
    <3>1. n - 1 \in 0..L /\ ~(n =< n - 1)
      BY <2>4
    <3> QED BY <2>2, <3>1
  <2>6. A[n - 1] = g[n - 1]
    BY <2>5
  <2> QED BY <1>3, <1>7, <2>3, <2>4, <2>6 DEF Sums
<1>9. A = g
  BY <1>3, <1>7, <1>8 DEF Sums
<1> QED BY <1>2, <1>3, <1>9 DEF A, a

LEMMA FewTokens ==
  ASSUME NEW L \in Nat, NEW q \in [1..L -> Energies], \A i, j \in 1..L : i # j => q[i] # q[j]
  PROVE  L =< MaxBatch
<1>1. q \in Injection(1..L, Energies)
  BY DEF Injection, IsInjective
<1>2. IsFiniteSet(1..L) /\ Cardinality(1..L) = L
  BY CountUpTo
<1>3. L =< Cardinality(Energies)
  BY <1>1, <1>2, FS_Injection, MarketAssumption
<1>4. Cardinality(Energies) \in Nat
  BY FS_CardinalityType, MarketAssumption
<1> QED BY <1>3, <1>4, MarketAssumption, HouseAssumption

\* Bids on the first k tokens of the ranking q for the amounts r, which add up to
\* no more than left.
Shares(r, k, q, left) ==
  /\ \A n \in 1..k : r[n] \in 1..ws[q[n]].amount
  /\ \E h : Sums(h, k, r) /\ h[k] =< left

LEMMA WantedFits ==
  ASSUME World(ws), NEW c \in Buyers, NEW L \in Nat \ {0},
         charging[c].valid \in [1..L -> OnSale(ws)], charging[c].left \in Nat \ {0}
  PROVE  \E k \in 1..L : \E r \in [1..k -> Nat] :
           /\ TokenCount(c) = k
           /\ Wanted(c) = [n \in 1..k |-> BidOn(c, charging[c].valid[n], r[n])]
           /\ Shares(r, k, charging[c].valid, charging[c].left)
<1> DEFINE q == charging[c].valid
           left == charging[c].left
           a == [n \in 1..L |-> ws[q[n]].amount]
           g == Supply(c)
<1>1. a \in [1..L -> Nat \ {0}] /\ Sums(g, L, a)
  BY SupplySums
<1>2. Len(q) = L /\ left \in Nat \ {0}
  OBVIOUS
<1>3. TokenCount(c) = Cardinality({n \in 1..L : g[n - 1] < left})
  BY <1>2 DEF TokenCount
<1>4. \A n \in 1..L : a[n] = ws[q[n]].amount
  OBVIOUS
<1> HIDE DEF a, g, left
<1>5. PICK k \in 0..L :
        /\ Cardinality({n \in 1..L : g[n - 1] < left}) = k
        /\ Reaches(k, L, g, left)
        /\ L > 0 => k > 0
  BY <1>1, <1>2, FirstPlaces
<1>6. k \in 1..L /\ TokenCount(c) = k
  BY <1>3, <1>5
<1> DEFINE r == CutList(k, a, g, left)
<1>7. /\ \A n \in 1..k : r[n] \in 1..a[n]
      /\ \E h : Sums(h, k, r) /\ h[k] = IF g[L] < left THEN g[L] ELSE left
  <2>1. r = CutList(k, a, g, left) /\ L \in Nat
    OBVIOUS
  <2> HIDE DEF r
  <2>2. Fits(r, k, L, a, g, left)
    BY <1>1, <1>2, <1>5, <2>1, CutToFit
  <2> QED BY <2>2 DEF Fits
<1>8. \A n \in 1..k : n \in 1..L /\ g[n - 1] \in Nat /\ g[n - 1] < left /\ a[n] \in Nat
  <2>1. ASSUME NEW n \in 1..k PROVE n \in 1..L /\ g[n - 1] \in Nat /\ g[n - 1] < left /\ a[n] \in Nat
    <3>1. n - 1 \in 0..L /\ n - 1 < k /\ n \in 1..L
      OBVIOUS
    <3> QED BY <1>1, <1>5, <3>1 DEF Sums, Reaches
  <2> QED BY <2>1
<1>9. \A n \in 1..k : r[n] = Min({ws[q[n]].amount, left - g[n - 1]})
  <2>1. ASSUME NEW n \in 1..k PROVE r[n] = Min({ws[q[n]].amount, left - g[n - 1]})
    <3> DEFINE d == left - g[n - 1]
    <3>1. d \in Nat /\ a[n] \in Nat /\ a[n] = ws[q[n]].amount
      BY <1>2, <1>4, <1>8
    <3>2. Min({a[n], d}) = IF a[n] < d THEN a[n] ELSE d
      <4> HIDE DEF d
      <4> QED BY <3>1, SmallerOf
    <3>3. r[n] = IF a[n] < d THEN a[n] ELSE d
      BY DEF CutList
    <3> QED BY <3>1, <3>2, <3>3
  <2> QED BY <2>1
<1>10. r \in [1..k -> Nat]
  BY <1>2, <1>8 DEF CutList
<1> HIDE DEF r
<1>11. Wanted(c) = [n \in 1..k |-> BidOn(c, q[n], r[n])]
  BY <1>6, <1>9 DEF Wanted, left, g
<1>12. Shares(r, k, q, left)
  <2>1. PICK h : Sums(h, k, r) /\ h[k] = IF g[L] < left THEN g[L] ELSE left
    BY <1>7
  <2>2. g[L] \in Nat
    BY <1>1 DEF Sums
  <2>3. h[k] =< left
    BY <1>2, <2>1, <2>2
  <2>4. \A n \in 1..k : r[n] \in 1..ws[q[n]].amount
    BY <1>4, <1>7, <1>8
  <2> QED BY <2>1, <2>3, <2>4 DEF Shares
<1> QED BY <1>6, <1>10, <1>11, <1>12 DEF left

-----------------------------------------------------------------------------
(* The invariant.  What a consumer may still get is bounded before it is won: *)
(* what it has, what its bids ask for and what is left to ask for never       *)
(* exceed its goal.  What it has counted are awards that are final, of bids   *)
(* it will not read again.  Of a consumer c: its locals k, its batch j, what  *)
(* its last call returned, r, and the world state s.                          *)

ChargeFields ==
  {"pc", "start", "charged", "beforeUse", "requested", "zeros", "toAsk", "fine", "valid",
   "left", "batch", "success", "unread", "got", "wake"}

\* What it has and what it asks for.
Purse(k, c) ==
  /\ DOMAIN k = ChargeFields
  /\ k.pc \in {"idle", "round", "ask", "bid", "placing", "check", "rest", "done"}
  /\ k.start \in Charged0[c] /\ k.charged \in Nat /\ k.start =< k.charged
  /\ k.got \in Nat /\ k.charged + k.got =< Goal[c]
  /\ k.beforeUse \in Nat /\ k.beforeUse =< ChargeRate * Spare
  /\ k.requested \in Nat /\ k.left \in Nat
  /\ k.pc = "ask" => k.charged + k.requested =< Goal[c]
  /\ k.pc \notin {"check", "done"} => k.got = 0
  /\ k.pc \in {"idle", "round", "ask", "rest"} => k.success = {}
  /\ k.pc # "placing" => k.batch = {}
  /\ k.success \cap k.batch = {}

\* All its bids may win.
Spent(k, c, s) ==
  /\ k.pc \in {"bid", "placing"} => k.charged + Total(Volumes(s), k.success) + k.left =< Goal[c]
  /\ k.pc = "check" => k.charged + k.got + Total(Volumes(s), k.unread) =< Goal[c]

\* The bids of this round that it has not counted.
Uncounted(k) ==
  IF k.pc \in {"bid", "placing"} THEN k.success \cup k.batch
  ELSE IF k.pc = "check" THEN k.unread ELSE {}

\* What it has are the awards of the bids R.
Counts(k, R, s) ==
  /\ R \cap Uncounted(k) = {}
  /\ \A b \in R : Settled(s[b])
  /\ k.charged + k.got = k.start + Total(Amounts(s), R)

Reckons(k, placed, s) ==
  /\ k.success \subseteq placed /\ k.unread \subseteq placed
  /\ \E R \in SUBSET placed : Counts(k, R, s)

\* What it bids on is on the ledger.
Chooses(k, s) ==
  /\ k.pc = "ask" => k.toAsk \subseteq OnSale(s)
  /\ k.fine \subseteq OnSale(s)
  /\ k.pc \in {"bid", "placing"} => IsRanking(k.valid, s)

\* A batch is on its way, all placed, or given up.
Sending(k, j, s) ==
  /\ k.pc # "placing" => j.pc = "idle"
  /\ k.pc = "placing" =>
       \/ /\ j.pc \in {"send", "sent"} /\ k.batch = DOMAIN j.list
          /\ k.batch \cap j.placed = {}
          /\ Total(ListVolumes(j.list), k.batch) =< k.left
       \/ j.pc = "idle" /\ k.batch \cap j.placed = {}
       \/ j.pc = "idle" /\ k.batch \subseteq j.placed /\ Total(Volumes(s), k.batch) =< k.left

\* Its bids have ids that it has drawn.
DrawnIds(j, c) == {BidIds[c][i] : i \in 1..j.drawn}
Draws(j, c) ==
  /\ j.drawn =< Len(BidIds[c])
  /\ j.placed \subseteq DrawnIds(j, c)
  /\ j.pc \in {"send", "sent"} => DOMAIN j.list \subseteq DrawnIds(j, c)

\* An accepted batch is on the ledger as it was sent.
IsListed(j, r, s) ==
  j.pc = "sent" /\ r.kind = "ok" =>
    \A b \in DOMAIN j.list :
      b \in Bids /\ s[b] # Absent /\ s[b].bidAmount = j.list[b].bidAmount

ConsumerOK(k, j, r, c, s) ==
  /\ Purse(k, c) /\ Spent(k, c, s) /\ Reckons(k, j.placed, s) /\ Chooses(k, s)
  /\ Sending(k, j, s) /\ Draws(j, c) /\ IsListed(j, r, s)

\* A bid wins no more than it asks for.
AwardsInBids(s) == \A b \in Bids : Settled(s[b]) => s[b].amount =< s[b].bidAmount

MarketInv ==
  /\ AnswerInv
  /\ AwardsInBids(ws)
  /\ charging = [c \in Buyers |-> charging[c]]
  /\ \A c \in Buyers : ConsumerOK(charging[c], basket[c], reply[c], c, ws)

-----------------------------------------------------------------------------
(* What a step of the others leaves alone.                                    *)

Preserved(s, t) ==
  /\ \A e \in Energies : s[e] # Absent => t[e] # Absent
  /\ \A b \in Bids : s[b] # Absent =>
       /\ t[b] # Absent /\ t[b].bidAmount = s[b].bidAmount
       /\ Settled(s[b]) => t[b] = s[b]

LEMMA RankingStays ==
  ASSUME NEW s, NEW t, Preserved(s, t), NEW q, IsRanking(q, s)
  PROVE  IsRanking(q, t)
<1>1. OnSale(s) \subseteq OnSale(t)
  BY DEF OnSale, Preserved
<1>2. PICK L \in Nat : q \in [1..L -> OnSale(s)] /\ \A i, j \in 1..L : i # j => q[i] # q[j]
  BY DEF IsRanking
<1>3. q \in [1..L -> OnSale(t)]
  BY <1>1, <1>2
<1> QED BY <1>2, <1>3 DEF IsRanking

LEMMA VolumesStay ==
  ASSUME NEW s, NEW t, World(s), Preserved(s, t), NEW S \in SUBSET Bids, \A b \in S : s[b] # Absent
  PROVE  Total(Volumes(t), S) = Total(Volumes(s), S)
<1>1. Summable(Volumes(s), S)
  BY VolumesAdd
<1>2. \A b \in S : Volumes(s)[b] = Volumes(t)[b]
  BY DEF Volumes, Preserved
<1> QED BY <1>1, <1>2, TotalSame

LEMMA AmountsStay ==
  ASSUME NEW s, NEW t, World(s), Preserved(s, t), NEW S \in SUBSET Bids, \A b \in S : Settled(s[b])
  PROVE  Total(Amounts(t), S) = Total(Amounts(s), S)
<1>1. Summable(Amounts(s), S)
  BY AmountsAdd
<1>2. \A b \in S : Amounts(s)[b] = Amounts(t)[b]
  BY DEF Amounts, Preserved, Settled
<1> QED BY <1>1, <1>2, TotalSame

\* A consumer that does nothing itself.
LEMMA ConsumerStays ==
  ASSUME NEW s, NEW t, World(s), Preserved(s, t), NEW c, NEW k, NEW j, NEW r, NEW u,
         \A b \in j.placed : b \in Bids /\ s[b] # Absent,
         ConsumerOK(k, j, r, c, s), IsListed(j, u, t)
  PROVE  ConsumerOK(k, j, u, c, t)
<1>1. /\ Purse(k, c) /\ Spent(k, c, s) /\ Reckons(k, j.placed, s) /\ Chooses(k, s)
      /\ Sending(k, j, s) /\ Draws(j, c)
  BY DEF ConsumerOK
<1>2. k.success \subseteq j.placed /\ k.unread \subseteq j.placed
  BY <1>1 DEF Reckons
<1>3. Spent(k, c, t)
  <2>1. /\ Total(Volumes(t), k.success) = Total(Volumes(s), k.success)
        /\ Total(Volumes(t), k.unread) = Total(Volumes(s), k.unread)
    <3>1. /\ k.success \in SUBSET Bids /\ \A b \in k.success : s[b] # Absent
          /\ k.unread \in SUBSET Bids /\ \A b \in k.unread : s[b] # Absent
      BY <1>2
    <3> QED BY <3>1, VolumesStay
  <2> QED BY <1>1, <2>1 DEF Spent
<1>4. Reckons(k, j.placed, t)
  <2>1. PICK R \in SUBSET j.placed : Counts(k, R, s)
    BY <1>1 DEF Reckons
  <2>2. R \in SUBSET Bids /\ \A b \in R : Settled(s[b])
    BY <2>1 DEF Counts
  <2>3. Total(Amounts(t), R) = Total(Amounts(s), R)
    BY <2>2, AmountsStay
  <2>4. \A b \in R : Settled(t[b])
    BY <2>2 DEF Settled, Preserved
  <2>5. Counts(k, R, t)
    BY <2>1, <2>3, <2>4 DEF Counts
  <2> QED BY <1>1, <2>1, <2>5 DEF Reckons
<1>5. Chooses(k, t)
  <2>1. OnSale(s) \subseteq OnSale(t)
    BY DEF OnSale, Preserved
  <2> QED BY <1>1, <2>1, RankingStays DEF Chooses
<1>6. Sending(k, j, t)
  <2>1. ASSUME k.batch \subseteq j.placed
        PROVE  Total(Volumes(t), k.batch) = Total(Volumes(s), k.batch)
    <3>1. k.batch \in SUBSET Bids /\ \A b \in k.batch : s[b] # Absent
      BY <2>1
    <3> QED BY <3>1, VolumesStay
  <2> QED BY <1>1, <2>1 DEF Sending
<1> QED BY <1>1, <1>3, <1>4, <1>5, <1>6 DEF ConsumerOK

-----------------------------------------------------------------------------
(* Steps of the network, the producers and the operator.                      *)

LEMMA CommitPreserves ==
  ASSUME AnswerInv, AwardsInBids(ws), NEW tx \in pool, Commit(tx)
  PROVE  Preserved(ws, ws') /\ AwardsInBids(ws')
<1>1. /\ Fresh(tx) /\ Lasting(tx) /\ FinalInv
      /\ \A k \in Keys : ws'[k] = IF k \in DOMAIN tx.writes THEN tx.writes[k] ELSE ws[k]
  BY CommitFacts DEF AnswerInv, FinalInv
<1>2. ASSUME NEW e \in Energies, ws[e] # Absent PROVE ws'[e] # Absent
  BY <1>1, <1>2, TokenKept
<1>3. ASSUME NEW b \in Bids, ws[b] # Absent
      PROVE  /\ ws'[b] # Absent /\ ws'[b].bidAmount = ws[b].bidAmount
             /\ Settled(ws[b]) => ws'[b] = ws[b]
  <2>1. ws'[b] # Absent /\ ws'[b].bidAmount = ws[b].bidAmount
    BY <1>1, <1>3, BidAfterCommit
  <2>2. ASSUME Settled(ws[b]) PROVE ws'[b] = ws[b]
    BY <1>1, <2>2, KeyKinds DEF Lasting, Fresh
  <2> QED BY <2>1, <2>2
<1>4. ASSUME NEW b \in Bids, Settled(ws'[b]) PROVE ws'[b].amount =< ws'[b].bidAmount
  <2>1. CASE b \notin DOMAIN tx.writes
    <3>1. ws'[b] = ws[b]
      BY <1>1, <2>1, KeyKinds
    <3> QED BY <1>4, <3>1 DEF AwardsInBids
  <2>2. CASE b \in DOMAIN tx.writes
    <3>1. ws'[b] = tx.writes[b]
      BY <1>1, <2>2, KeyKinds
    <3>2. ASSUME NEW in, ws'[b] = NewBid(in) PROVE FALSE
      BY <1>4, <3>2 DEF NewBid, Settled
    <3>3. ASSUME NEW n, NEW u, ws[b] \in HouseBid, n =< ws[b].bidAmount,
                 ws'[b] = AfterAward(ws[b], n, u)
          PROVE  ws'[b].amount =< ws'[b].bidAmount
      <4> DEFINE v == ws[b]
      <4>1. v \in HouseBid /\ n =< v.bidAmount /\ ws'[b] = AfterAward(v, n, u)
        BY <3>3
      <4> HIDE DEF v
      <4>2. AfterAward(v, n, u).amount = n /\ AfterAward(v, n, u).bidAmount = v.bidAmount
        BY <4>1 DEF AfterAward, HouseBid
      <4> QED BY <4>1, <4>2
    <3> QED BY <1>1, <2>2, <3>1, <3>2, <3>3, BidWritten
  <2> QED BY <2>1, <2>2
<1> QED BY <1>2, <1>3, <1>4 DEF Preserved, AwardsInBids

\* A batch that is accepted is listed.
LEMMA CommitLists ==
  ASSUME AnswerInv, NEW tx \in pool, Commit(tx), NEW c \in Buyers, tx.awaited, tx.client = c
  PROVE  IsListed(basket[c], reply'[c], ws')
<1> DEFINE out == Execute(ws, tx.req)
           list == tx.req.bidList
<1>1. /\ Fresh(tx) /\ Owned(tx)
      /\ \A k \in Keys : ws'[k] = IF k \in DOMAIN tx.writes THEN tx.writes[k] ELSE ws[k]
  BY CommitFacts
<1>2. /\ basket[c].pc = "sent" /\ tx.req = PlaceRequest(basket[c])
      /\ \A b \in DOMAIN basket[c].list : b \in Bids /\ ws'[b] # Absent
  BY BatchIsPlaced
<1>3. ~out.err /\ out.writes = tx.writes /\ World(ws) /\ tx.req \in HouseRequests
  BY <1>1 DEF Fresh, TxOK, Endorsed
<1>4. tx.req \in Placements
  BY <1>1, <1>3, HouseAssumption DEF Owned, HouseRequests
<1>5. out.writes = [b \in DOMAIN list |-> NewBid(list[b])]
  BY <1>3, <1>4, PlacementWrites
<1>6. tx.writes = [b \in DOMAIN list |-> NewBid(list[b])]
  <2> HIDE DEF out, list
  <2> QED BY <1>3, <1>5
<1>7. list = basket[c].list
  BY <1>2 DEF PlaceRequest
<1>8. ASSUME NEW b \in DOMAIN basket[c].list
      PROVE  b \in Bids /\ ws'[b] # Absent /\ ws'[b].bidAmount = basket[c].list[b].bidAmount
  <2>1. b \in Bids /\ ws'[b] # Absent
    BY <1>2, <1>8
  <2>2. ws'[b] = NewBid(list[b])
    <3> HIDE DEF list
    <3> QED BY <1>1, <1>6, <1>7, <1>8, <2>1, KeyKinds
  <2>3. NewBid(list[b]).bidAmount = list[b].bidAmount
    BY DEF NewBid
  <2> QED BY <1>7, <2>1, <2>2, <2>3
<1> QED BY <1>8 DEF IsListed

\* The consumers do nothing.
LEMMA ConsumersRest ==
  ASSUME MarketInv, AnswerInv', UNCHANGED <<charging, basket>>, Preserved(ws, ws'),
         AwardsInBids(ws'),
         \A c \in Buyers : \/ reply'[c] = reply[c] \/ reply'[c].kind # "ok"
                           \/ IsListed(basket[c], reply'[c], ws')
  PROVE  MarketInv'
<1>1. World(ws)
  BY DEF MarketInv, AnswerInv, FinalInv, HouseInv
<1>2. ASSUME NEW c \in Buyers PROVE ConsumerOK(charging[c], basket[c], reply'[c], c, ws')
  <2>1. ConsumerOK(charging[c], basket[c], reply[c], c, ws) /\ PlacedOK(c)
    BY DEF MarketInv, AnswerInv
  <2>2. \A b \in basket[c].placed : b \in Bids /\ ws[b] # Absent
    BY <2>1 DEF PlacedOK
  <2>3. IsListed(basket[c], reply'[c], ws')
    <3>1. IsListed(basket[c], reply[c], ws)
      BY <2>1 DEF ConsumerOK
    <3>2. IsListed(basket[c], reply[c], ws')
      BY <3>1 DEF IsListed, Preserved
    <3>3. reply'[c].kind # "ok" => IsListed(basket[c], reply'[c], ws')
      BY DEF IsListed
    <3> QED BY <3>2, <3>3
  <2> QED BY <1>1, <2>1, <2>2, <2>3, ConsumerStays
<1>3. charging' = [c \in Buyers |-> charging'[c]]
  BY DEF MarketInv
<1> QED BY <1>2, <1>3 DEF MarketInv

LEMMA HouseKeeps ==
  ASSUME MarketInv, AnswerInv', House
  PROVE  MarketInv'
<1>1. AnswerInv /\ AwardsInBids(ws) /\ DOMAIN reply = Clients /\ Buyers \subseteq Clients
  BY BuyerAssumption DEF MarketInv, AnswerInv, FinalInv
<1>2. ASSUME \A k \in Energies \cup Bids : ws'[k] = ws[k]
      PROVE  Preserved(ws, ws') /\ AwardsInBids(ws')
  BY <1>1, <1>2 DEF Preserved, AwardsInBids
<1>3. CASE Network
  <2>1. UNCHANGED <<charging, basket>>
    BY <1>3 DEF House, Network, PriceUpdate, Producers
  <2>2. ASSUME NEW tx \in pool, Commit(tx) PROVE MarketInv'
    <3>1. Preserved(ws, ws') /\ AwardsInBids(ws')
      BY <1>1, <2>2, CommitPreserves
    <3>2. ASSUME NEW c \in Buyers
          PROVE  reply'[c] = reply[c] \/ IsListed(basket[c], reply'[c], ws')
      <4>1. reply'[c] = reply[c] \/ (tx.awaited /\ tx.client = c)
        BY <1>1, <2>2, CommitFacts
      <4> QED BY <1>1, <2>2, <4>1, CommitLists
    <3> QED BY <2>1, <3>1, <3>2, ConsumersRest
  <2>3. ASSUME ws' = ws, NEW d, reply' \in {reply, [reply EXCEPT ![d] = Failed]}
        PROVE  MarketInv'
    <3>1. \A c \in Buyers : reply'[c] = reply[c] \/ reply'[c].kind # "ok"
      BY <1>1, <2>3, Kinds
    <3> QED BY <1>2, <2>1, <2>3, <3>1, ConsumersRest
  <2>4. ASSUME NEW tx \in pool, Invalidate(tx) \/ GiveUp(tx) \/ Drop(tx) PROVE MarketInv'
    <3>1. ws' = ws /\ reply' \in {reply, [reply EXCEPT ![tx.client] = Failed]}
      BY <2>4 DEF Invalidate, GiveUp, Drop, Answer
    <3> QED BY <2>3, <3>1
  <2>5. CASE ClockTick
    BY <2>3, <2>5 DEF ClockTick
  <2> QED BY <1>3, <2>2, <2>4, <2>5 DEF Network, GatewayNext
<1>4. CASE Producers
  <2>1. UNCHANGED <<charging, basket>>
    BY <1>4 DEF House, Network, PriceUpdate, Producers
  <2>2. ws' = ws /\ \A c \in Buyers : reply'[c] = reply[c]
    <3>1. PICK m \in Makers : Produce(m) \/ ProducerStep(m) \/ QueryFailed(m)
      BY <1>4 DEF Producers, ProducerNext
    <3>2. ws' = ws /\ (reply' = reply \/ \E r : reply' = [reply EXCEPT ![m] = r])
      BY <3>1 DEF ProducerStep, Produce, CreateToken, Created, CreateFailed, EndTimer, Tick,
           TimeUp, Query, SubmitEnd, Ended, EndFailed, QueryFailed, Submit, TakeReply, Evaluate,
           EvaluateFails, gatewayVars
    <3> QED BY <1>1, <3>2, HouseAssumption
  <2> QED BY <1>2, <2>1, <2>2, ConsumersRest
<1>5. CASE PriceUpdate
  <2>1. PICK cat \in Categories, p \in NewPrices : ws' = Apply(ws, UpdateUnitPrice(ws, cat, p).writes)
    BY <1>5 DEF PriceUpdate
  <2>2. DOMAIN UpdateUnitPrice(ws, cat, p).writes \subseteq {cat}
    BY DEF UpdateUnitPrice, Error, Result, NoWrite
  <2>3. \A k \in Energies \cup Bids : ws'[k] = ws[k]
    BY <2>1, <2>2, KeyKinds DEF Apply
  <2>4. UNCHANGED <<charging, basket>> /\ reply' = reply
    BY <1>5 DEF House, PriceUpdate
  <2> QED BY <1>2, <2>3, <2>4, ConsumersRest
<1> QED BY <1>3, <1>4, <1>5 DEF House

-----------------------------------------------------------------------------
(* A batch is sent and answered.                                              *)

\* Only one consumer does something.
LEMMA OneConsumer ==
  ASSUME MarketInv, AnswerInv', NEW c \in Buyers, ws' = ws,
         \A d \in Buyers \ {c} :
           charging'[d] = charging[d] /\ basket'[d] = basket[d] /\ reply'[d] = reply[d],
         charging' = [d \in Buyers |-> charging'[d]],
         ConsumerOK(charging'[c], basket'[c], reply'[c], c, ws)
  PROVE  MarketInv'
<1>1. \A d \in Buyers : ConsumerOK(charging'[d], basket'[d], reply'[d], d, ws)
  BY DEF MarketInv
<1>2. AwardsInBids(ws')
  BY DEF MarketInv
<1> QED BY <1>1, <1>2 DEF MarketInv

\* What the batch is to a consumer.
LEMMA BatchMoves ==
  ASSUME NEW s, NEW c, NEW k, NEW j, NEW r, ConsumerOK(k, j, r, c, s),
         NEW i, NEW u, j.placed \subseteq i.placed,
         Sending(k, i, s), Draws(i, c), IsListed(i, u, s)
  PROVE  ConsumerOK(k, i, u, c, s)
<1>1. Reckons(k, i.placed, s)
  BY DEF ConsumerOK, Reckons
<1> QED BY <1>1 DEF ConsumerOK

LEMMA BatchIsSent ==
  ASSUME MarketInv, NEW c \in Buyers, SendBids(c)
  PROVE  ConsumerOK(charging[c], basket'[c], reply'[c], c, ws)
<1> DEFINE k == charging[c]
           j == basket[c]
           i == [j EXCEPT !.pc = "sent"]
<1>1. /\ ConsumerOK(k, j, reply[c], c, ws) /\ BasketOK(j) /\ DOMAIN reply = Clients
      /\ basket = [d \in Buyers |-> basket[d]] /\ c \in Clients
  BY BuyerAssumption DEF MarketInv, AnswerInv, FinalInv, HouseInv, BasketsOK
<1>2. j.pc = "send" /\ basket' = [basket EXCEPT ![c] = i]
  BY <1>1 DEF SendBids, Shopping
<1>3. reply'[c].kind # "ok"
  BY <1>1, Kinds DEF SendBids, Submit
<1>4. basket'[c] = i
  BY <1>1, <1>2
<1> HIDE DEF j
<1>5. i.pc = "sent" /\ i.list = j.list /\ i.placed = j.placed /\ i.drawn = j.drawn
  BY <1>1 DEF BasketOK, BasketFields
<1> HIDE DEF i
<1>6. Sending(k, i, ws) /\ Draws(i, c)
  BY <1>1, <1>2, <1>5 DEF ConsumerOK, Sending, Draws, DrawnIds
<1>7. IsListed(i, reply'[c], ws)
  BY <1>3 DEF IsListed
<1> QED BY <1>1, <1>4, <1>5, <1>6, <1>7, BatchMoves

LEMMA BatchIsAccepted ==
  ASSUME MarketInv, NEW c \in Buyers, BidsPlaced(c)
  PROVE  ConsumerOK(charging[c], basket'[c], reply'[c], c, ws)
<1> DEFINE k == charging[c]
           j == basket[c]
           i == [j EXCEPT !.pc = "idle", !.list = <<>>, !.tries = 0,
                          !.placed = j.placed \cup DOMAIN j.list]
<1>1. /\ ConsumerOK(k, j, reply[c], c, ws) /\ BasketOK(j) /\ World(ws)
      /\ basket = [d \in Buyers |-> basket[d]]
  BY DEF MarketInv, AnswerInv, FinalInv, HouseInv, BasketsOK
<1>2. j.pc = "sent" /\ reply[c].kind = "ok" /\ basket' = [basket EXCEPT ![c] = i]
  BY <1>1 DEF BidsPlaced, Shopping
<1>3. basket'[c] = i
  BY <1>1, <1>2
<1> HIDE DEF j
<1>4. i.pc = "idle" /\ i.placed = j.placed \cup DOMAIN j.list /\ i.drawn = j.drawn
  BY <1>1 DEF BasketOK, BasketFields
<1> HIDE DEF i
<1>5. /\ k.pc = "placing" /\ k.batch = DOMAIN j.list
      /\ Total(ListVolumes(j.list), k.batch) =< k.left
  BY <1>1, <1>2 DEF ConsumerOK, Sending
<1>6. \A b \in k.batch : b \in Bids /\ ws[b] # Absent /\ ws[b].bidAmount = j.list[b].bidAmount
  BY <1>1, <1>2, <1>5 DEF ConsumerOK, IsListed
<1>7. Total(Volumes(ws), k.batch) = Total(ListVolumes(j.list), k.batch)
  <2> DEFINE B == k.batch
  <2>1. \A b \in B : Volumes(ws)[b] = ListVolumes(j.list)[b]
    BY <1>5, <1>6 DEF Volumes, ListVolumes
  <2>2. B \in SUBSET Bids
    BY <1>6
  <2> HIDE DEF B
  <2>3. Summable(Volumes(ws), B)
    BY <1>1, <2>2, VolumesAdd
  <2>4. Total(Volumes(ws), B) = Total(ListVolumes(j.list), B)
    BY <2>1, <2>3, TotalSame
  <2> QED BY <2>4 DEF B
<1>8. Sending(k, i, ws) /\ Draws(i, c) /\ IsListed(i, reply'[c], ws)
  BY <1>1, <1>2, <1>4, <1>5, <1>7 DEF ConsumerOK, Sending, Draws, DrawnIds, IsListed
<1> QED BY <1>1, <1>3, <1>4, <1>8, BatchMoves

LEMMA BatchIsRefused ==
  ASSUME MarketInv, NEW c \in Buyers, BidsFailed(c)
  PROVE  ConsumerOK(charging[c], basket'[c], reply'[c], c, ws)
<1> DEFINE k == charging[c]
           j == basket[c]
           gone == [j EXCEPT !.pc = "idle", !.list = <<>>, !.tries = 0]
           again == [j EXCEPT !.pc = "send", !.tries = j.tries + 1]
<1>1. /\ ConsumerOK(k, j, reply[c], c, ws) /\ BasketOK(j)
      /\ basket = [d \in Buyers |-> basket[d]]
  BY DEF MarketInv, AnswerInv, FinalInv, HouseInv, BasketsOK
<1>2. /\ j.pc = "sent"
      /\ basket' = [basket EXCEPT ![c] = IF j.tries + 1 > MaxBidErrors THEN gone ELSE again]
  BY <1>1 DEF BidsFailed, Shopping
<1>3. basket'[c] = gone \/ basket'[c] = again
  BY <1>1, <1>2
<1> HIDE DEF j
<1>4. /\ gone.pc = "idle" /\ gone.placed = j.placed /\ gone.drawn = j.drawn
      /\ again.pc = "send" /\ again.placed = j.placed /\ again.drawn = j.drawn
      /\ again.list = j.list
  BY <1>1 DEF BasketOK, BasketFields
<1> HIDE DEF gone, again
<1>5. /\ k.pc = "placing" /\ k.batch = DOMAIN j.list /\ k.batch \cap j.placed = {}
      /\ Total(ListVolumes(j.list), k.batch) =< k.left
  BY <1>1, <1>2 DEF ConsumerOK, Sending
<1>6. Sending(k, gone, ws) /\ Draws(gone, c) /\ IsListed(gone, reply'[c], ws)
  BY <1>1, <1>4, <1>5 DEF ConsumerOK, Sending, Draws, DrawnIds, IsListed
<1>7. Sending(k, again, ws) /\ Draws(again, c) /\ IsListed(again, reply'[c], ws)
  BY <1>1, <1>2, <1>4, <1>5 DEF ConsumerOK, Sending, Draws, DrawnIds, IsListed
<1>8. ConsumerOK(k, gone, reply'[c], c, ws)
  BY <1>1, <1>4, <1>6, BatchMoves
<1>9. ConsumerOK(k, again, reply'[c], c, ws)
  BY <1>1, <1>4, <1>7, BatchMoves
<1> QED BY <1>3, <1>8, <1>9

LEMMA PlacingKeeps ==
  ASSUME MarketInv, AnswerInv', PlacingBids
  PROVE  MarketInv'
<1>1. PICK c \in Buyers : BuyerStep(c)
  BY DEF PlacingBids, BuyersPlace
<1>2. charging' = charging /\ charging = [d \in Buyers |-> charging[d]] /\ DOMAIN reply = Clients
      /\ Buyers \subseteq Clients /\ basket = [d \in Buyers |-> basket[d]]
  BY BuyerAssumption DEF PlacingBids, MarketInv, AnswerInv, FinalInv, HouseInv, BasketsOK
<1>3. /\ ws' = ws
      /\ \E k : basket' = [basket EXCEPT ![c] = k]
      /\ \E r : reply' = [reply EXCEPT ![c] = r]
  BY <1>1, <1>2 DEF BuyerStep, SendBids, BidsPlaced, BidsFailed, Submit, TakeReply
<1>4. \A d \in Buyers \ {c} :
        charging'[d] = charging[d] /\ basket'[d] = basket[d] /\ reply'[d] = reply[d]
  BY <1>2, <1>3
<1>5. ConsumerOK(charging'[c], basket'[c], reply'[c], c, ws)
  BY <1>1, <1>2, BatchIsSent, BatchIsAccepted, BatchIsRefused DEF BuyerStep
<1> QED BY <1>2, <1>3, <1>4, <1>5, OneConsumer

-----------------------------------------------------------------------------
(* A round: the consumer's own steps but the ones that bid.                   *)

LEMMA OneCharge ==
  ASSUME MarketInv, AnswerInv', NEW c \in Buyers, NEW n, Become(c, n),
         UNCHANGED <<ws, basket, reply>>, ConsumerOK(n, basket[c], reply[c], c, ws)
  PROVE  MarketInv'
<1>1. charging = [d \in Buyers |-> charging[d]] /\ charging' = [charging EXCEPT ![c] = n]
  BY DEF MarketInv, Become
<1>2. charging'[c] = n /\ \A d \in Buyers \ {c} : charging'[d] = charging[d]
  BY <1>1
<1>3. charging' = [d \in Buyers |-> charging'[d]]
  BY <1>1
<1> QED BY <1>2, <1>3, OneConsumer

\* A step outside of bid.
LEMMA RoundMoves ==
  ASSUME NEW s, NEW c, NEW k, NEW j, NEW r, ConsumerOK(k, j, r, c, s), k.pc # "placing",
         NEW n, n.pc # "placing", Purse(n, c), Spent(n, c, s), Reckons(n, j.placed, s),
         Chooses(n, s)
  PROVE  ConsumerOK(n, j, r, c, s)
BY DEF ConsumerOK, Sending

\* n is k but for pc and wake.
Alike(n, k) ==
  /\ DOMAIN n = ChargeFields
  /\ n.start = k.start /\ n.charged = k.charged /\ n.beforeUse = k.beforeUse
  /\ n.requested = k.requested /\ n.toAsk = k.toAsk /\ n.fine = k.fine /\ n.valid = k.valid
  /\ n.left = k.left /\ n.batch = k.batch /\ n.success = k.success /\ n.unread = k.unread
  /\ n.got = k.got

LEMMA PhaseMoves ==
  ASSUME NEW s, NEW c, NEW k, NEW j, NEW r, ConsumerOK(k, j, r, c, s), k.pc # "placing",
         NEW n, Alike(n, k),
         \/ n.pc = "done"
         \/ n.pc = "round" /\ k.pc \in {"idle", "rest"}
  PROVE  ConsumerOK(n, j, r, c, s)
<1>1. Purse(k, c) /\ Reckons(k, j.placed, s) /\ Chooses(k, s)
  BY DEF ConsumerOK
<1>2. Purse(n, c)
  BY <1>1 DEF Purse, Alike
<1>3. Spent(n, c, s)
  BY DEF Spent
<1>4. Reckons(n, j.placed, s)
  <2>1. PICK R \in SUBSET j.placed : Counts(k, R, s)
    BY <1>1 DEF Reckons
  <2>2. Counts(n, R, s)
    BY <2>1 DEF Counts, Uncounted, Alike
  <2> QED BY <1>1, <2>1, <2>2 DEF Reckons, Alike
<1>5. Chooses(n, s)
  BY <1>1 DEF Chooses, Alike
<1> QED BY <1>2, <1>3, <1>4, <1>5, RoundMoves

\* What is known of a consumer before its step.
LEMMA ConsumerIs ==
  ASSUME MarketInv, NEW c \in Buyers
  PROVE  /\ ConsumerOK(charging[c], basket[c], reply[c], c, ws)
         /\ Purse(charging[c], c) /\ Spent(charging[c], c, ws)
         /\ Reckons(charging[c], basket[c].placed, ws) /\ Chooses(charging[c], ws)
         /\ World(ws) /\ BasketOK(basket[c])
         /\ \A b \in basket[c].placed : b \in Bids /\ ws[b] # Absent
         /\ Goal[c] \in Nat /\ Charged0[c] \subseteq Nat
<1>1. ConsumerOK(charging[c], basket[c], reply[c], c, ws) /\ PlacedOK(c)
  BY DEF MarketInv, AnswerInv
<1>2. World(ws) /\ BasketOK(basket[c])
  BY DEF MarketInv, AnswerInv, FinalInv, HouseInv, BasketsOK
<1>3. Goal[c] \in Nat /\ Charged0[c] \subseteq Nat
  BY ConsumerAssumption
<1> QED BY <1>1, <1>2, <1>3 DEF ConsumerOK, PlacedOK

LEMMA PhaseSteps ==
  ASSUME MarketInv, AnswerInv', NEW c \in Buyers,
         Begin(c) \/ Satisfied(c) \/ Stop(c) \/ Rested(c)
  PROVE  MarketInv'
<1> DEFINE k == charging[c]
<1>1. ConsumerOK(k, basket[c], reply[c], c, ws) /\ Purse(k, c)
  BY ConsumerIs
<1>2. UNCHANGED <<ws, basket, reply>>
  BY DEF Begin, Satisfied, Stop, Rested, Quietly, Evaluate, gatewayVars
<1>3. ASSUME NEW p, Become(c, [k EXCEPT !.pc = p]), k.pc # "placing",
             p = "done" \/ (p = "round" /\ k.pc \in {"idle", "rest"})
      PROVE  MarketInv'
  <2> DEFINE n == [k EXCEPT !.pc = p]
  <2>1. Become(c, n)
    BY <1>3
  <2> HIDE DEF k
  <2>2. n.pc = p /\ Alike(n, k)
    BY <1>1 DEF Purse, ChargeFields, Alike
  <2> HIDE DEF n
  <2>3. ConsumerOK(n, basket[c], reply[c], c, ws)
    BY <1>1, <1>3, <2>2, PhaseMoves
  <2> QED BY <1>2, <2>1, <2>3, OneCharge
<1>4. CASE Rested(c)
  <2> DEFINE n == [k EXCEPT !.pc = "round", !.wake = 0]
  <2>1. Become(c, n) /\ k.pc = "rest"
    BY <1>4 DEF Rested, In
  <2> HIDE DEF k
  <2>2. n.pc = "round" /\ Alike(n, k)
    BY <1>1 DEF Purse, ChargeFields, Alike
  <2> HIDE DEF n
  <2>3. ConsumerOK(n, basket[c], reply[c], c, ws)
    BY <1>1, <2>1, <2>2, PhaseMoves
  <2> QED BY <1>2, <2>1, <2>3, OneCharge
<1>5. CASE Begin(c)
  <2>1. k.pc = "idle" /\ Become(c, [k EXCEPT !.pc = "round"])
    BY <1>5 DEF Begin, In
  <2> QED BY <1>3, <2>1
<1>6. CASE Satisfied(c)
  <2>1. k.pc = "round" /\ Become(c, [k EXCEPT !.pc = "done"])
    BY <1>6 DEF Satisfied, In
  <2> QED BY <1>3, <2>1
<1>7. CASE Stop(c)
  <2>1. k.pc # "placing" /\ Become(c, [k EXCEPT !.pc = "done"])
    BY <1>7 DEF Stop, In
  <2> QED BY <1>3, <2>1
<1> QED BY <1>4, <1>5, <1>6, <1>7

\* What a round asks for fits: what the last charging left over takes no more
\* time than a token lives.
LEMMA SearchFits ==
  ASSUME NEW c \in Buyers, Purse(charging[c], c), charging[c].charged < Goal[c]
  PROVE  Request(c) \in Nat /\ charging[c].charged + Request(c) =< Goal[c]
<1> DEFINE before == charging[c].beforeUse
           charged == charging[c].charged
           goal == Goal[c]
           spare == ChargeRate * Spare
           need == goal - charged
<1>1. before \in Nat /\ before =< spare /\ charged \in Nat /\ charged < goal
  BY DEF Purse
<1>2. goal \in Nat /\ RequestMax \in Nat /\ RequestMax > spare
  BY ConsumerAssumption
<1>3. spare \in Nat
  <2>1. ChargeRate \in Nat /\ Spare \in Nat
    BY ConsumerAssumption
  <2> QED BY <2>1
<1>4. Request(c) = IF RequestMax < need THEN RequestMax - before ELSE need
  BY DEF Request
<1> HIDE DEF spare, before, charged, goal
<1>5. Request(c) \in Nat /\ charged + Request(c) =< goal
  BY <1>1, <1>2, <1>3, <1>4
<1> QED BY <1>5 DEF charged, goal

LEMMA SearchStep ==
  ASSUME MarketInv, AnswerInv', NEW c \in Buyers, Search(c)
  PROVE  MarketInv'
<1> DEFINE k == charging[c]
           asked == {e \in QueryByLocationRange(ws) : now - SearchAge < ws[e].gen}
           request == Request(c)
           n == [k EXCEPT !.pc = "ask", !.requested = request, !.toAsk = asked]
<1>1. /\ ConsumerOK(k, basket[c], reply[c], c, ws) /\ Purse(k, c) /\ Goal[c] \in Nat
      /\ Reckons(k, basket[c].placed, ws) /\ Chooses(k, ws)
  BY ConsumerIs
<1>2. UNCHANGED <<ws, basket, reply>>
  BY DEF Search, Quietly, Evaluate, gatewayVars
<1>3. k.pc = "round" /\ k.charged < Goal[c] /\ Become(c, n)
  BY DEF Search, In
<1>4. request \in Nat /\ k.charged + request =< Goal[c]
  BY <1>1, <1>3, SearchFits
<1>5. asked \subseteq OnSale(ws)
  BY DEF QueryByLocationRange, OnSale
<1> HIDE DEF k, asked, request
<1>6. /\ DOMAIN n = ChargeFields /\ n.pc = "ask" /\ n.requested = request /\ n.toAsk = asked
      /\ n.start = k.start /\ n.charged = k.charged /\ n.beforeUse = k.beforeUse
      /\ n.fine = k.fine /\ n.left = k.left /\ n.batch = k.batch /\ n.success = k.success
      /\ n.unread = k.unread /\ n.got = k.got
  BY <1>1 DEF Purse, ChargeFields
<1> HIDE DEF n
<1>7. Purse(n, c)
  BY <1>1, <1>3, <1>4, <1>6 DEF Purse
<1>8. Spent(n, c, ws)
  BY <1>6 DEF Spent
<1>9. Reckons(n, basket[c].placed, ws)
  <2>1. PICK R \in SUBSET basket[c].placed : Counts(k, R, ws)
    BY <1>1 DEF Reckons
  <2>2. Counts(n, R, ws)
    BY <1>6, <2>1 DEF Counts, Uncounted
  <2> QED BY <1>1, <1>6, <2>1, <2>2 DEF Reckons
<1>10. Chooses(n, ws)
  BY <1>1, <1>5, <1>6 DEF Chooses
<1>11. ConsumerOK(n, basket[c], reply[c], c, ws)
  BY <1>1, <1>3, <1>6, <1>7, <1>8, <1>9, <1>10, RoundMoves
<1> QED BY <1>2, <1>3, <1>11, OneCharge

LEMMA AskStep ==
  ASSUME MarketInv, AnswerInv', NEW c \in Buyers, Ask(c) \/ AskFails(c)
  PROVE  MarketInv'
<1> DEFINE k == charging[c]
<1>1. /\ ConsumerOK(k, basket[c], reply[c], c, ws) /\ Purse(k, c)
      /\ Reckons(k, basket[c].placed, ws) /\ Chooses(k, ws)
  BY ConsumerIs
<1>2. UNCHANGED <<ws, basket, reply>> /\ k.pc = "ask"
  BY DEF Ask, AskFails, In, Quietly, Evaluate, gatewayVars
<1>0. PICK e \in k.toAsk : \E f \in {k.fine, k.fine \cup {e}} :
        Become(c, [k EXCEPT !.toAsk = @ \ {e}, !.fine = f])
  <2>1. CASE Ask(c)
    <3>1. PICK e \in k.toAsk : \E ok \in BOOLEAN :
            Become(c, [k EXCEPT !.toAsk = @ \ {e}, !.fine = IF ok THEN @ \cup {e} ELSE @])
      <4>1. \A e : (now <= EndTime /\ BidOk(ws, e, MyPrice(c, e), Priority(c))) \in BOOLEAN
        OBVIOUS
      <4> QED BY <2>1, <4>1 DEF Ask
    <3>2. \E f \in {k.fine, k.fine \cup {e}} : Become(c, [k EXCEPT !.toAsk = @ \ {e}, !.fine = f])
      BY <3>1
    <3> QED BY <3>2
  <2>2. CASE AskFails(c)
    BY <2>2 DEF AskFails
  <2> QED BY <2>1, <2>2
<1>3. PICK f \in {k.fine, k.fine \cup {e}} : Become(c, [k EXCEPT !.toAsk = @ \ {e}, !.fine = f])
  BY <1>0
<1> DEFINE n == [k EXCEPT !.toAsk = @ \ {e}, !.fine = f]
<1>4. Become(c, n) /\ e \in k.toAsk /\ f \subseteq k.fine \cup {e}
  BY <1>3
<1> HIDE DEF k
<1>5. /\ DOMAIN n = ChargeFields /\ n.pc = "ask" /\ n.requested = k.requested
      /\ n.toAsk = k.toAsk \ {e} /\ n.fine = f
      /\ n.start = k.start /\ n.charged = k.charged /\ n.beforeUse = k.beforeUse
      /\ n.left = k.left /\ n.batch = k.batch /\ n.success = k.success
      /\ n.unread = k.unread /\ n.got = k.got
  BY <1>1, <1>2 DEF Purse, ChargeFields
<1> HIDE DEF n
<1>6. Purse(n, c)
  BY <1>1, <1>2, <1>5 DEF Purse
<1>7. Spent(n, c, ws)
  BY <1>5 DEF Spent
<1>8. Reckons(n, basket[c].placed, ws)
  <2>1. PICK R \in SUBSET basket[c].placed : Counts(k, R, ws)
    BY <1>1 DEF Reckons
  <2>2. Counts(n, R, ws)
    BY <1>5, <2>1 DEF Counts, Uncounted
  <2> QED BY <1>1, <1>5, <2>1, <2>2 DEF Reckons
<1>9. Chooses(n, ws)
  BY <1>1, <1>2, <1>4, <1>5 DEF Chooses
<1>10. ConsumerOK(n, basket[c], reply[c], c, ws)
  BY <1>1, <1>2, <1>5, <1>6, <1>7, <1>8, <1>9, RoundMoves
<1> QED BY <1>2, <1>4, <1>10, OneCharge

LEMMA NoVolume ==
  ASSUME NEW s, World(s) PROVE Total(Volumes(s), {}) = 0
<1>1. Summable(Volumes(s), {})
  BY VolumesAdd
<1> QED BY <1>1, TotalFacts

LEMMA RankStep ==
  ASSUME MarketInv, AnswerInv', NEW c \in Buyers, Rank(c)
  PROVE  MarketInv'
<1> DEFINE k == charging[c]
<1>1. /\ ConsumerOK(k, basket[c], reply[c], c, ws) /\ Purse(k, c) /\ Goal[c] \in Nat
      /\ Reckons(k, basket[c].placed, ws) /\ Chooses(k, ws) /\ World(ws)
  BY ConsumerIs
<1>2. UNCHANGED <<ws, basket, reply>> /\ k.pc = "ask"
  BY DEF Rank, In, Quietly, Evaluate, gatewayVars
<1>3. PICK q \in Ranked(c, k.fine) :
        Become(c, [k EXCEPT !.pc = "bid", !.fine = {}, !.valid = q, !.left = k.requested])
  BY DEF Rank
<1>4. IsRanking(q, ws)
  <2> DEFINE S == k.fine
             L == Cardinality(S)
  <2>1. S \in SUBSET OnSale(ws) /\ S \in SUBSET Energies
    BY <1>1 DEF Chooses, OnSale
  <2>2. L \in Nat
    <3> HIDE DEF S
    <3> QED BY <2>1, FS_Subset, FS_CardinalityType, MarketAssumption
  <2>3. q \in [1..L -> S] /\ \A i, j \in 1..L : i < j => q[i] # q[j]
    BY <1>3 DEF Ranked
  <2> HIDE DEF S, L
  <2>4. \A i, j \in 1..L : i # j => q[i] # q[j]
    <3>1. \A i, j \in 1..L : i # j => i < j \/ j < i
      BY <2>2
    <3> QED BY <2>3, <3>1
  <2>5. q \in [1..L -> OnSale(ws)]
    BY <2>1, <2>3
  <2> QED BY <2>2, <2>4, <2>5 DEF IsRanking
<1> DEFINE n == [k EXCEPT !.pc = "bid", !.fine = {}, !.valid = q, !.left = k.requested]
<1>5. Become(c, n)
  BY <1>3
<1> HIDE DEF k
<1>6. /\ DOMAIN n = ChargeFields /\ n.pc = "bid" /\ n.requested = k.requested
      /\ n.fine = {} /\ n.valid = q /\ n.left = k.requested
      /\ n.start = k.start /\ n.charged = k.charged /\ n.beforeUse = k.beforeUse
      /\ n.batch = k.batch /\ n.success = k.success /\ n.unread = k.unread /\ n.got = k.got
  BY <1>1, <1>2 DEF Purse, ChargeFields
<1> HIDE DEF n
<1>7. Purse(n, c)
  BY <1>1, <1>2, <1>6 DEF Purse
<1>8. Spent(n, c, ws)
  <2>1. n.success = {} /\ n.charged + n.left =< Goal[c] /\ n.charged \in Nat /\ n.left \in Nat
    BY <1>1, <1>2, <1>6 DEF Purse
  <2> QED BY <1>1, <1>6, <2>1, NoVolume DEF Spent
<1>9. Reckons(n, basket[c].placed, ws)
  <2>1. PICK R \in SUBSET basket[c].placed : Counts(k, R, ws)
    BY <1>1 DEF Reckons
  <2>2. Uncounted(n) = {}
    BY <1>1, <1>2, <1>6 DEF Purse, Uncounted
  <2>3. Counts(n, R, ws)
    BY <1>6, <2>1, <2>2 DEF Counts
  <2> QED BY <1>1, <1>6, <2>1, <2>3 DEF Reckons
<1>10. Chooses(n, ws)
  BY <1>4, <1>6 DEF Chooses
<1>11. ConsumerOK(n, basket[c], reply[c], c, ws)
  BY <1>1, <1>2, <1>6, <1>7, <1>8, <1>9, <1>10, RoundMoves
<1> QED BY <1>2, <1>5, <1>11, OneCharge

\* The batch is back: what it asks for is no longer left to ask for.
LEMMA ReturnFits ==
  ASSUME NEW s, World(s), NEW c, NEW k, NEW j, Goal[c] \in Nat, Purse(k, c), Spent(k, c, s),
         k.success \subseteq j.placed, Sending(k, j, s), k.pc = "placing", j.pc = "idle",
         \A b \in j.placed : b \in Bids
  PROVE  LET new == k.batch \cap j.placed
         IN  /\ k.left - Total(Volumes(s), new) \in Nat
             /\ k.charged + Total(Volumes(s), k.success \cup new)
                  + (k.left - Total(Volumes(s), new)) =< Goal[c]
<1> DEFINE new == k.batch \cap j.placed
           V == Total(Volumes(s), new)
           U == Total(Volumes(s), k.success)
           W == Total(Volumes(s), k.success \cup new)
<1>1. V \in Nat /\ U \in Nat /\ W = U + V
  <2>1. k.success \cap new = {}
    BY DEF Purse
  <2>2. Summable(Volumes(s), new) /\ Summable(Volumes(s), k.success)
        /\ Summable(Volumes(s), k.success \cup new)
    <3>1. new \in SUBSET Bids /\ k.success \in SUBSET Bids /\ k.success \cup new \in SUBSET Bids
      OBVIOUS
    <3> HIDE DEF new
    <3> QED BY <3>1, VolumesAdd
  <2> HIDE DEF new
  <2>3. V \in Nat /\ U \in Nat
    BY <2>2, TotalFacts
  <2>4. W = U + V
    BY <2>1, <2>2, TotalOfTwo
  <2> QED BY <2>3, <2>4
<1>2. V =< k.left
  <2>1. CASE k.batch \cap j.placed = {}
    <3>1. V = 0
      BY <2>1, NoVolume
    <3> HIDE DEF V
    <3> QED BY <3>1 DEF Purse
  <2>2. CASE k.batch \subseteq j.placed /\ Total(Volumes(s), k.batch) =< k.left
    <3>1. new = k.batch
      BY <2>2
    <3> QED BY <2>2, <3>1
  <2> QED BY <2>1, <2>2 DEF Sending
<1>3. k.charged \in Nat /\ k.left \in Nat /\ k.charged + U + k.left =< Goal[c]
  BY DEF Purse, Spent
<1> DEFINE charged == k.charged
           left == k.left
           goal == Goal[c]
<1> HIDE DEF V, U, W, charged, left, goal
<1>4. left - V \in Nat /\ charged + W + (left - V) =< goal
  <2>1. charged \in Nat /\ left \in Nat /\ charged + U + left =< goal /\ V =< left /\ goal \in Nat
    BY <1>2, <1>3 DEF charged, left, goal
  <2> QED BY <1>1, <2>1
<1> QED BY <1>4 DEF V, W, charged, left, goal

LEMMA BatchReturnedStep ==
  ASSUME MarketInv, AnswerInv', NEW c \in Buyers, BatchReturned(c)
  PROVE  MarketInv'
<1> DEFINE k == charging[c]
           j == basket[c]
           new == k.batch \cap j.placed
           cut == k.left - Asks(new)
           n == [k EXCEPT !.pc = "bid", !.batch = {}, !.success = k.success \cup new, !.left = cut]
<1>1. /\ ConsumerOK(k, j, reply[c], c, ws) /\ Purse(k, c) /\ Goal[c] \in Nat
      /\ Spent(k, c, ws) /\ Reckons(k, j.placed, ws) /\ Chooses(k, ws) /\ World(ws)
      /\ \A b \in j.placed : b \in Bids /\ ws[b] # Absent
  BY ConsumerIs
<1>2. UNCHANGED <<ws, basket, reply>> /\ k.pc = "placing" /\ j.pc = "idle"
  BY DEF BatchReturned, In, Quietly, Evaluate, gatewayVars
<1>3. Become(c, n)
  BY DEF BatchReturned
<1>4. Asks(new) = Total(Volumes(ws), new)
  <2>1. new \in SUBSET Bids /\ \A b \in new : ws[b] # Absent
    BY <1>1
  <2> HIDE DEF new
  <2> QED BY <1>1, <2>1, AsksTotal
<1>5. k.success \subseteq j.placed /\ Sending(k, j, ws)
  BY <1>1 DEF Reckons, ConsumerOK
<1>6. cut \in Nat /\ k.charged + Total(Volumes(ws), k.success \cup new) + cut =< Goal[c]
  <2> HIDE DEF k, j
  <2> QED BY <1>1, <1>2, <1>4, <1>5, ReturnFits
<1>7. new \subseteq j.placed /\ new \subseteq k.batch
  OBVIOUS
<1> HIDE DEF k, j, new, cut
<1>8. /\ DOMAIN n = ChargeFields /\ n.pc = "bid" /\ n.requested = k.requested
      /\ n.fine = k.fine /\ n.valid = k.valid /\ n.left = cut
      /\ n.start = k.start /\ n.charged = k.charged /\ n.beforeUse = k.beforeUse
      /\ n.batch = {} /\ n.success = k.success \cup new /\ n.unread = k.unread /\ n.got = k.got
  BY <1>1 DEF Purse, ChargeFields
<1> HIDE DEF n
<1>9. Purse(n, c)
  BY <1>1, <1>2, <1>6, <1>8 DEF Purse
<1>10. Spent(n, c, ws)
  BY <1>6, <1>8 DEF Spent
<1>11. Reckons(n, j.placed, ws)
  <2>1. PICK R \in SUBSET j.placed : Counts(k, R, ws)
    BY <1>1 DEF Reckons
  <2>2. Uncounted(n) \subseteq Uncounted(k)
    BY <1>2, <1>7, <1>8 DEF Uncounted
  <2>3. Counts(n, R, ws)
    BY <1>8, <2>1, <2>2 DEF Counts
  <2>4. n.success \subseteq j.placed /\ n.unread \subseteq j.placed
    BY <1>1, <1>5, <1>7, <1>8 DEF Reckons
  <2> QED BY <2>1, <2>3, <2>4 DEF Reckons
<1>12. Chooses(n, ws)
  BY <1>1, <1>2, <1>8 DEF Chooses
<1>13. Sending(n, j, ws)
  BY <1>2, <1>8 DEF Sending
<1>14. ConsumerOK(n, j, reply[c], c, ws)
  BY <1>1, <1>9, <1>10, <1>11, <1>12, <1>13 DEF ConsumerOK
<1> QED BY <1>2, <1>3, <1>14, OneCharge DEF j

\* What both ends of a round have in common.
LEMMA RoundEnds ==
  ASSUME NEW s, World(s), NEW c, NEW k, NEW j, NEW r, ConsumerOK(k, j, r, c, s), k.pc = "bid",
         NEW n, DOMAIN n = ChargeFields, n.left = 0, n.requested = 0,
         n.start = k.start, n.charged = k.charged, n.beforeUse = k.beforeUse, n.fine = k.fine,
         n.batch = k.batch, n.success = k.success, n.got = k.got,
         \/ n.pc = "rest" /\ k.success = {} /\ n.unread = k.unread
         \/ n.pc = "check" /\ n.unread = k.success,
         \A b \in j.placed : b \in Bids,
         Goal[c] \in Nat
  PROVE  ConsumerOK(n, j, r, c, s)
<1>1. Purse(k, c) /\ Spent(k, c, s) /\ Reckons(k, j.placed, s) /\ Chooses(k, s)
  BY DEF ConsumerOK
<1>2. Purse(n, c)
  BY <1>1 DEF Purse
<1>3. Spent(n, c, s)
  <2>1. k.success \in SUBSET Bids
    BY <1>1 DEF Reckons
  <2>2. Total(Volumes(s), k.success) \in Nat
    BY <2>1, VolumesAdd, TotalFacts
  <2>3. ASSUME n.pc = "check" PROVE n.charged + n.got + Total(Volumes(s), n.unread) =< Goal[c]
    <3> DEFINE V == Total(Volumes(s), k.success)
    <3>1. V \in Nat /\ n.unread = k.success
      BY <2>2, <2>3
    <3>2. n.got = 0 /\ n.charged = k.charged /\ k.charged \in Nat /\ k.left \in Nat
      BY <1>1 DEF Purse
    <3>3. k.charged + V + k.left =< Goal[c]
      BY <1>1 DEF Spent
    <3>4. Total(Volumes(s), n.unread) = V
      BY <3>1
    <3> HIDE DEF V
    <3> QED BY <3>1, <3>2, <3>3, <3>4
  <2> QED BY <2>3 DEF Spent
<1>4. Reckons(n, j.placed, s)
  <2>1. PICK R \in SUBSET j.placed : Counts(k, R, s)
    BY <1>1 DEF Reckons
  <2>2. Uncounted(n) \subseteq Uncounted(k)
    BY DEF Uncounted
  <2>3. Counts(n, R, s)
    BY <2>1, <2>2 DEF Counts
  <2> QED BY <1>1, <2>1, <2>3 DEF Reckons
<1>5. Chooses(n, s)
  BY <1>1 DEF Chooses
<1> QED BY <1>2, <1>3, <1>4, <1>5, RoundMoves

LEMMA BidReturnedStep ==
  ASSUME MarketInv, AnswerInv', NEW c \in Buyers, BidReturned(c)
  PROVE  MarketInv'
<1> DEFINE k == charging[c]
           j == basket[c]
<1>1. /\ ConsumerOK(k, j, reply[c], c, ws) /\ Purse(k, c) /\ Goal[c] \in Nat /\ World(ws)
      /\ \A b \in j.placed : b \in Bids
  BY ConsumerIs
<1>2. UNCHANGED <<ws, basket, reply>> /\ k.pc = "bid"
  BY DEF BidReturned, In, Quietly, Evaluate, gatewayVars
<1>3. CASE k.success = {}
  <2> DEFINE n == Nothing(c)
  <2>1. Become(c, n)
    BY <1>3 DEF BidReturned
  <2>2. PICK zeros, wake :
          n = [k EXCEPT !.pc = "rest", !.requested = 0, !.valid = <<>>, !.left = 0,
                        !.zeros = zeros, !.wake = wake]
    BY DEF Nothing
  <2> HIDE DEF n, k, j
  <2>3. /\ DOMAIN n = ChargeFields /\ n.pc = "rest" /\ n.left = 0 /\ n.requested = 0
        /\ n.start = k.start /\ n.charged = k.charged /\ n.beforeUse = k.beforeUse
        /\ n.fine = k.fine /\ n.batch = k.batch /\ n.success = k.success
        /\ n.unread = k.unread /\ n.got = k.got
    BY <1>1, <2>2 DEF Purse, ChargeFields
  <2>4. ConsumerOK(n, j, reply[c], c, ws)
    BY <1>1, <1>2, <1>3, <2>3, RoundEnds
  <2> QED BY <1>2, <2>1, <2>4, OneCharge DEF j
<1>4. CASE k.success # {}
  <2> DEFINE n == Something(c)
  <2>1. Become(c, n)
    BY <1>4 DEF BidReturned
  <2>2. PICK wake :
          n = [k EXCEPT !.pc = "check", !.requested = 0, !.valid = <<>>, !.left = 0,
                        !.zeros = 0, !.unread = k.success, !.wake = wake]
    BY DEF Something
  <2> HIDE DEF n, k, j
  <2>3. /\ DOMAIN n = ChargeFields /\ n.pc = "check" /\ n.left = 0 /\ n.requested = 0
        /\ n.start = k.start /\ n.charged = k.charged /\ n.beforeUse = k.beforeUse
        /\ n.fine = k.fine /\ n.batch = k.batch /\ n.success = k.success
        /\ n.unread = k.success /\ n.got = k.got
    BY <1>1, <2>2 DEF Purse, ChargeFields
  <2>4. ConsumerOK(n, j, reply[c], c, ws)
    BY <1>1, <1>2, <2>3, RoundEnds
  <2> QED BY <1>2, <2>1, <2>4, OneCharge DEF j
<1> QED BY <1>3, <1>4

\* What comes of reading the bid b of unread, when R are the bids read before.
ReadOne(s, placed, unread, R, b, won) ==
  /\ won \in Nat
  /\ won + Total(Volumes(s), unread \ {b}) =< Total(Volumes(s), unread)
  /\ \E Q \in SUBSET placed :
       /\ Q \cap (unread \ {b}) = {} /\ \A x \in Q : Settled(s[x])
       /\ Total(Amounts(s), Q) = Total(Amounts(s), R) + won

\* A bid that is read counts what it was awarded, which is no more than it asked
\* for.
LEMMA ReadingFits ==
  ASSUME NEW s, World(s), AwardsInBids(s), NEW placed \in SUBSET Bids, NEW R \in SUBSET placed,
         NEW unread \in SUBSET placed, NEW b \in unread, s[b] # Absent,
         R \cap unread = {}, \A x \in R : Settled(s[x]),
         NEW won, won = (IF s[b].status = "success" THEN s[b].amount ELSE 0)
  PROVE  ReadOne(s, placed, unread, R, b, won)
<1>1. b \in Bids /\ s[b] \in HouseBid /\ Amounts(s)[b] = won
  BY DEF World, Amounts, Settled
<1>2. won \in Nat /\ won =< Volumes(s)[b]
  <2>1. s[b].amount \in Nat /\ s[b].bidAmount \in Nat
    BY <1>1, Numbers DEF HouseBid
  <2>2. Volumes(s)[b] = s[b].bidAmount
    BY <1>1 DEF Volumes
  <2> QED BY <1>1, <2>1, <2>2 DEF AwardsInBids, Settled
<1>3. /\ Total(Volumes(s), unread) = Volumes(s)[b] + Total(Volumes(s), unread \ {b})
      /\ Total(Volumes(s), unread \ {b}) \in Nat /\ Volumes(s)[b] \in Nat
  <2>1. unread \in SUBSET Bids /\ unread \ {b} \in SUBSET Bids
    OBVIOUS
  <2>2. Summable(Volumes(s), unread) /\ Summable(Volumes(s), unread \ {b})
    BY <2>1, VolumesAdd
  <2> QED BY <2>2, TotalFacts DEF Summable
<1>4. won + Total(Volumes(s), unread \ {b}) =< Total(Volumes(s), unread)
  BY <1>2, <1>3
<1>5. \E Q \in SUBSET placed :
        /\ Q \cap (unread \ {b}) = {} /\ \A x \in Q : Settled(s[x])
        /\ Total(Amounts(s), Q) = Total(Amounts(s), R) + won
  <2> DEFINE U == Total(Amounts(s), R)
  <2>1. U \in Nat
    <3>1. R \in SUBSET Bids
      OBVIOUS
    <3> QED BY <3>1, AmountsAdd, TotalFacts
  <2>2. CASE Settled(s[b])
    <3> DEFINE Q == R \cup {b}
    <3>1. Q \in SUBSET Bids /\ b \in Q /\ Q \ {b} = R /\ Q \in SUBSET placed
      OBVIOUS
    <3>2. Q \cap (unread \ {b}) = {} /\ \A x \in Q : Settled(s[x])
      BY <2>2
    <3> HIDE DEF Q
    <3>3. Total(Amounts(s), Q) = Amounts(s)[b] + Total(Amounts(s), Q \ {b})
      BY <3>1, AmountsAdd, TotalFacts
    <3>4. Total(Amounts(s), Q) = U + won
      <4>1. Total(Amounts(s), Q) = won + U
        BY <1>1, <3>1, <3>3
      <4> HIDE DEF U
      <4> QED BY <1>2, <2>1, <4>1
    <3> QED BY <3>1, <3>2, <3>4
  <2>3. CASE ~Settled(s[b])
    <3>1. won = 0
      BY <2>3 DEF Settled
    <3>2. U + won = U
      <4> HIDE DEF U
      <4> QED BY <2>1, <3>1
    <3> QED BY <3>2
  <2> QED BY <2>2, <2>3
<1> QED BY <1>2, <1>4, <1>5 DEF ReadOne

LEMMA ReadBidStep ==
  ASSUME MarketInv, AnswerInv', NEW c \in Buyers, ReadBid(c)
  PROVE  MarketInv'
<1> DEFINE k == charging[c]
           j == basket[c]
<1>1. /\ ConsumerOK(k, j, reply[c], c, ws) /\ Purse(k, c) /\ Goal[c] \in Nat
      /\ Spent(k, c, ws) /\ Reckons(k, j.placed, ws) /\ Chooses(k, ws) /\ World(ws)
      /\ \A b \in j.placed : b \in Bids /\ ws[b] # Absent
  BY ConsumerIs
<1>2. UNCHANGED <<ws, basket, reply>> /\ k.pc = "check"
  BY DEF ReadBid, In, Quietly, Evaluate, gatewayVars
<1>3. PICK b \in k.unread : Become(c, [k EXCEPT !.unread = @ \ {b}, !.got = @ + Won(b)])
  BY DEF ReadBid
<1> DEFINE won == Won(b)
           got == k.got + won
           n == [k EXCEPT !.unread = k.unread \ {b}, !.got = got]
<1>4. Become(c, n) /\ b \in k.unread
  BY <1>3
<1>5. won = (IF ws[b].status = "success" THEN ws[b].amount ELSE 0) /\ AwardsInBids(ws)
  BY DEF Won, MarketInv
<1>6. got = k.got + won
  OBVIOUS
<1> HIDE DEF k, j, won, got
<1>7. /\ DOMAIN n = ChargeFields /\ n.pc = "check" /\ n.requested = k.requested
      /\ n.fine = k.fine /\ n.left = k.left
      /\ n.start = k.start /\ n.charged = k.charged /\ n.beforeUse = k.beforeUse
      /\ n.batch = k.batch /\ n.success = k.success /\ n.unread = k.unread \ {b} /\ n.got = got
  BY <1>1, <1>2 DEF Purse, ChargeFields
<1> HIDE DEF n
<1>8. PICK R \in SUBSET j.placed : Counts(k, R, ws)
  BY <1>1 DEF Reckons
<1>9. /\ j.placed \in SUBSET Bids /\ k.unread \in SUBSET j.placed /\ ws[b] # Absent
      /\ R \cap k.unread = {} /\ \A x \in R : Settled(ws[x])
  BY <1>1, <1>2, <1>4, <1>8 DEF Reckons, Counts, Uncounted
<1>10. /\ won \in Nat
       /\ won + Total(Volumes(ws), k.unread \ {b}) =< Total(Volumes(ws), k.unread)
       /\ \E Q \in SUBSET j.placed :
            /\ Q \cap (k.unread \ {b}) = {} /\ \A x \in Q : Settled(ws[x])
            /\ Total(Amounts(ws), Q) = Total(Amounts(ws), R) + won
  <2>1. ReadOne(ws, j.placed, k.unread, R, b, won)
    BY <1>1, <1>4, <1>5, <1>8, <1>9, ReadingFits
  <2> QED BY <2>1 DEF ReadOne
<1>11. PICK Q \in SUBSET j.placed :
         /\ Q \cap (k.unread \ {b}) = {} /\ \A x \in Q : Settled(ws[x])
         /\ Total(Amounts(ws), Q) = Total(Amounts(ws), R) + won
  BY <1>10
<1> DEFINE V == Total(Volumes(ws), k.unread)
           W == Total(Volumes(ws), k.unread \ {b})
           goal == Goal[c]
<1>12. V \in Nat /\ W \in Nat
  <2>1. k.unread \in SUBSET Bids /\ k.unread \ {b} \in SUBSET Bids
    BY <1>9
  <2> QED BY <1>1, <2>1, VolumesAdd, TotalFacts
<1>13. k.charged + k.got + V =< goal /\ k.charged \in Nat /\ k.got \in Nat /\ goal \in Nat
  BY <1>1, <1>2 DEF Spent, Purse
<1>14. got \in Nat /\ k.charged + got + W =< goal
  <2>1. won + W =< V
    BY <1>10
  <2> HIDE DEF V, W, goal
  <2> QED BY <1>6, <1>10, <1>12, <1>13, <2>1
<1>15. k.charged + got =< goal
  <2> HIDE DEF V, W, goal
  <2> QED BY <1>12, <1>13, <1>14
<1>16. Purse(n, c)
  BY <1>1, <1>2, <1>7, <1>14, <1>15 DEF Purse
<1>17. Spent(n, c, ws)
  BY <1>7, <1>14 DEF Spent
<1>18. Reckons(n, j.placed, ws)
  <2>1. Uncounted(n) = k.unread \ {b}
    BY <1>7 DEF Uncounted
  <2>2. n.charged + n.got = n.start + Total(Amounts(ws), Q)
    <3> DEFINE U == Total(Amounts(ws), R)
    <3>1. k.charged + k.got = k.start + U /\ Total(Amounts(ws), Q) = U + won
      BY <1>8, <1>11 DEF Counts
    <3>2. U \in Nat
      <4>1. R \in SUBSET Bids
        BY <1>9
      <4> QED BY <1>1, <4>1, AmountsAdd, TotalFacts
    <3>3. k.start \in Nat
      <4>1. Charged0[c] \subseteq Nat
        BY ConsumerIs
      <4> QED BY <1>1, <4>1 DEF Purse
    <3> HIDE DEF U
    <3> QED BY <1>6, <1>7, <1>10, <1>13, <3>1, <3>2, <3>3
  <2>3. Counts(n, Q, ws)
    BY <1>11, <2>1, <2>2 DEF Counts
  <2>4. n.success \subseteq j.placed /\ n.unread \subseteq j.placed
    BY <1>1, <1>7 DEF Reckons
  <2> QED BY <2>3, <2>4 DEF Reckons
<1>19. Chooses(n, ws)
  BY <1>1, <1>2, <1>7 DEF Chooses
<1>20. ConsumerOK(n, j, reply[c], c, ws)
  BY <1>1, <1>2, <1>7, <1>16, <1>17, <1>18, <1>19, RoundMoves
<1> QED BY <1>2, <1>4, <1>20, OneCharge DEF j

LEMMA ChargeStep ==
  ASSUME MarketInv, AnswerInv', NEW c \in Buyers, Charge(c)
  PROVE  MarketInv'
<1> DEFINE k == charging[c]
           j == basket[c]
           charged == k.charged + k.got
           spare == ChargeRate * Spare
<1>1. /\ ConsumerOK(k, j, reply[c], c, ws) /\ Purse(k, c) /\ Goal[c] \in Nat
      /\ Reckons(k, j.placed, ws) /\ Chooses(k, ws)
  BY ConsumerIs
<1>2. UNCHANGED <<ws, basket, reply>> /\ k.pc = "check"
  BY DEF Charge, In, Quietly, Evaluate, gatewayVars
<1>3. PICK before \in {k.beforeUse, spare} : \E wake :
        Become(c, [k EXCEPT !.pc = "rest", !.charged = charged, !.got = 0, !.success = {},
                            !.beforeUse = before, !.wake = wake])
  <2> DEFINE enough == k.got >= spare
             wake == IF enough THEN now + ((k.got + k.beforeUse) \div ChargeRate - Spare) ELSE now
             before == IF enough THEN spare ELSE k.beforeUse
  <2>1. Become(c, [k EXCEPT !.pc = "rest", !.charged = charged, !.got = 0, !.success = {},
                            !.beforeUse = before, !.wake = wake])
    BY DEF Charge
  <2>2. before \in {k.beforeUse, spare}
    OBVIOUS
  <2> HIDE DEF before, wake
  <2> QED BY <2>1, <2>2
<1>4. PICK wake :
        Become(c, [k EXCEPT !.pc = "rest", !.charged = charged, !.got = 0, !.success = {},
                            !.beforeUse = before, !.wake = wake])
  BY <1>3
<1> DEFINE n == [k EXCEPT !.pc = "rest", !.charged = charged, !.got = 0, !.success = {},
                          !.beforeUse = before, !.wake = wake]
<1>5. Become(c, n)
  BY <1>4
<1>6. charged = k.charged + k.got /\ spare \in Nat
  <2>1. ChargeRate \in Nat /\ Spare \in Nat
    BY ConsumerAssumption
  <2> QED BY <2>1
<1>7. spare = ChargeRate * Spare
  OBVIOUS
<1> HIDE DEF k, j, charged, spare
<1>8. /\ DOMAIN n = ChargeFields /\ n.pc = "rest" /\ n.requested = k.requested
      /\ n.fine = k.fine /\ n.left = k.left
      /\ n.start = k.start /\ n.charged = charged /\ n.beforeUse = before
      /\ n.batch = k.batch /\ n.success = {} /\ n.unread = k.unread /\ n.got = 0
  BY <1>1 DEF Purse, ChargeFields
<1> HIDE DEF n
<1>9. Purse(n, c)
  <2>1. before \in Nat /\ before =< ChargeRate * Spare
    BY <1>1, <1>3, <1>6, <1>7 DEF Purse
  <2>2. charged \in Nat /\ k.start =< charged /\ charged + 0 =< Goal[c]
    <3>1. Charged0[c] \subseteq Nat
      BY ConsumerIs
    <3> QED BY <1>1, <1>6, <3>1 DEF Purse
  <2> QED BY <1>1, <1>2, <1>8, <2>1, <2>2 DEF Purse
<1>10. Spent(n, c, ws)
  BY <1>8 DEF Spent
<1>11. Reckons(n, j.placed, ws)
  <2>1. PICK R \in SUBSET j.placed : Counts(k, R, ws)
    BY <1>1 DEF Reckons
  <2>2. Uncounted(n) = {}
    BY <1>8 DEF Uncounted
  <2>3. n.charged + n.got = k.charged + k.got
    <3>1. k.charged \in Nat /\ k.got \in Nat
      BY <1>1 DEF Purse
    <3> QED BY <1>6, <1>8, <3>1
  <2>4. Counts(n, R, ws)
    BY <1>8, <2>1, <2>2, <2>3 DEF Counts
  <2> QED BY <1>1, <1>8, <2>1, <2>4 DEF Reckons
<1>12. Chooses(n, ws)
  BY <1>1, <1>8 DEF Chooses
<1>13. ConsumerOK(n, j, reply[c], c, ws)
  BY <1>1, <1>2, <1>8, <1>9, <1>10, <1>11, <1>12, RoundMoves
<1> QED BY <1>2, <1>5, <1>13, OneCharge DEF j

-----------------------------------------------------------------------------
(* The step that bids: it is one that AuctionHouse is open to.                *)

\* What is left to ask for is not yet charged.
LEMMA PriorityFits ==
  ASSUME MarketInv, NEW c \in Buyers, charging[c].pc = "bid", charging[c].left > 0
  PROVE  Priority(c) \in Prios
<1> DEFINE k == charging[c]
           V == Total(Volumes(ws), k.success)
           goal == Goal[c]
           charged == k.charged
           start == k.start
           left == k.left
<1>1. Purse(k, c) /\ Spent(k, c, ws) /\ World(ws) /\ goal \in Nat /\ Charged0[c] \subseteq Nat
  BY ConsumerIs
<1>2. k.success \in SUBSET Bids
  BY ConsumerIs DEF Reckons
<1>3. V \in Nat
  BY <1>1, <1>2, VolumesAdd, TotalFacts
<1>4. /\ charged + V + left =< goal /\ left > 0 /\ left \in Nat
      /\ charged \in Nat /\ start \in Charged0[c] /\ start =< charged
  BY <1>1 DEF Spent, Purse
<1>5. charged \in start..(goal - 1) /\ start \in Charged0[c]
  <2>1. start \in Nat
    BY <1>1, <1>4
  <2> HIDE DEF V, goal, charged, start, left
  <2> QED BY <1>1, <1>3, <1>4, <2>1
<1>6. Full[c] - charged \in Prios
  BY <1>5, MarketAssumption
<1> QED BY <1>6 DEF Priority

\* The first bids of a ranking.
LEMMA PlacingIs ==
  ASSUME MarketInv, NEW c \in Buyers, PlaceBids(c)
  PROVE  \E L \in Nat : \E n \in 1..L : \E r \in [1..n -> Nat] :
           /\ L =< MaxBatch
           /\ charging[c].valid \in [1..L -> OnSale(ws)]
           /\ \A x, y \in 1..L : x # y => charging[c].valid[x] # charging[c].valid[y]
           /\ TokenCount(c) = n
           /\ Wanted(c) = [x \in 1..n |-> BidOn(c, charging[c].valid[x], r[x])]
           /\ Shares(r, n, charging[c].valid, charging[c].left)
<1> DEFINE k == charging[c]
           q == k.valid
<1>1. k.pc = "bid" /\ k.left > 0 /\ q # <<>>
  BY DEF PlaceBids, In
<1>2. Purse(k, c) /\ Chooses(k, ws) /\ World(ws)
  BY ConsumerIs
<1>3. PICK L \in Nat : q \in [1..L -> OnSale(ws)] /\ \A x, y \in 1..L : x # y => q[x] # q[y]
  BY <1>1, <1>2 DEF Chooses, IsRanking
<1>4. L # 0
  <2>1. SUFFICES ASSUME L = 0 PROVE FALSE
    OBVIOUS
  <2>2. q \in Seq(OnSale(ws)) /\ Len(q) = 0
    <3> HIDE DEF q
    <3> QED BY <1>3, <2>1
  <2> QED BY <1>1, <2>2, EmptySeq
<1>5. L =< MaxBatch
  <2>1. q \in [1..L -> Energies]
    BY <1>3 DEF OnSale
  <2> HIDE DEF q
  <2> QED BY <1>3, <2>1, FewTokens
<1>6. k.left \in Nat \ {0}
  BY <1>1, <1>2 DEF Purse
<1>7. PICK n \in 1..L : \E r \in [1..n -> Nat] :
        /\ TokenCount(c) = n
        /\ Wanted(c) = [x \in 1..n |-> BidOn(c, q[x], r[x])]
        /\ Shares(r, n, q, k.left)
  BY <1>2, <1>3, <1>4, <1>6, WantedFits
<1> QED BY <1>3, <1>5, <1>7

LEMMA PlacingIsBidding ==
  ASSUME MarketInv, NEW c \in Buyers, PlaceBids(c)
  PROVE  Bidding(c)
<1> DEFINE k == charging[c]
           q == k.valid
<1>1. PICK L \in Nat : \E n \in 1..L : \E r \in [1..n -> Nat] :
        /\ L =< MaxBatch
        /\ q \in [1..L -> OnSale(ws)] /\ \A x, y \in 1..L : x # y => q[x] # q[y]
        /\ Wanted(c) = [x \in 1..n |-> BidOn(c, q[x], r[x])]
        /\ Shares(r, n, q, k.left)
  BY PlacingIs
<1>2. PICK n \in 1..L, r \in UNION {[1..x -> Nat] : x \in 1..L} :
        /\ L =< MaxBatch
        /\ q \in [1..L -> OnSale(ws)] /\ \A x, y \in 1..L : x # y => q[x] # q[y]
        /\ Wanted(c) = [x \in 1..n |-> BidOn(c, q[x], r[x])]
        /\ Shares(r, n, q, k.left)
  BY <1>1
<1>3. n \in 1..MaxBatch
  BY <1>2, HouseAssumption
<1>4. StampBids(c, Wanted(c)) /\ k.pc = "bid" /\ k.left > 0
  BY DEF PlaceBids, In
<1>5. Priority(c) \in Prios /\ Name[c] \in Users
  BY <1>4, PriorityFits, ConsumerAssumption
<1>6. ASSUME NEW x \in 1..n
      PROVE  /\ Wanted(c)[x] \in UNION {WantedOn(e) : e \in Market}
             /\ Wanted(c)[x].energy = q[x]
  <2> DEFINE e == q[x]
             m == r[x]
  <2>1. x \in 1..L
    BY <1>2
  <2>2. e \in Market /\ e \in Energies /\ m \in 1..ws[e].amount
    BY <1>2, <2>1 DEF OnSale, Market, Shares
  <2>3. Surcharge[c][e] \in Extras
    BY <2>2, MarketAssumption
  <2>4. Wanted(c)[x] = BidOn(c, e, m)
    BY <1>2
  <2> HIDE DEF e, m
  <2>5. BidOn(c, e, m) = [energy |-> e, owner |-> Name[c], cat |-> ws[e].cat, bidAmount |-> m,
                          price |-> ws[e].price + Surcharge[c][e], prio |-> Priority(c)]
    BY DEF BidOn, MyPrice
  <2>6. BidOn(c, e, m) \in WantedOn(e)
    BY <1>5, <2>2, <2>3, <2>5 DEF WantedOn
  <2>7. BidOn(c, e, m).energy = e
    BY DEF BidOn
  <2> QED BY <2>2, <2>4, <2>6, <2>7 DEF e
<1> DEFINE wanted == Wanted(c)
<1>7. wanted \in [1..n -> UNION {WantedOn(e) : e \in Market}]
  BY <1>2, <1>6
<1>8. \A x, y \in 1..n : x # y => wanted[x].energy # wanted[y].energy
  <2>1. \A x \in 1..n : x \in 1..L /\ wanted[x].energy = q[x]
    BY <1>6
  <2> HIDE DEF wanted, q
  <2> QED BY <1>2, <2>1
<1>9. StampBids(c, wanted)
  BY <1>4
<1> HIDE DEF wanted
<1> QED BY <1>3, <1>7, <1>8, <1>9 DEF Bidding

\* Of the basket j, the basket i of the n wanted bids is made under the ids.
Stamps(c, j, i, n, wanted, ids) ==
  /\ \A x \in 1..n : ids[x] = BidIds[c][j.drawn + x]
  /\ EachOnce(ids, n)
  /\ j.drawn + n =< Len(BidIds[c]) /\ j.drawn \in Nat
  /\ j.pc = "idle" /\ i.pc = "send" /\ i.drawn = j.drawn + n /\ i.placed = j.placed
  /\ DOMAIN i.list = {ids[x] : x \in 1..n}
  /\ \A x \in 1..n : i.list[ids[x]].bidAmount = wanted[x].bidAmount

Stamped(c, j, i, n, wanted) == \E ids \in [1..n -> Bids] : Stamps(c, j, i, n, wanted, ids)

\* The batch and its ids.
LEMMA StampedIs ==
  ASSUME MarketInv, NEW c \in Buyers, NEW n \in Nat, NEW wanted, DOMAIN wanted = 1..n,
         wanted = [x \in 1..n |-> wanted[x]], StampBids(c, wanted)
  PROVE  Stamped(c, basket[c], basket'[c], n, wanted)
<1> DEFINE j == basket[c]
           ids == FreshIds(c, Len(wanted))
           bid(b) == wanted[CHOOSE x \in DOMAIN ids : ids[x] = b]
           stamped(b) == [energy |-> bid(b).energy, owner |-> bid(b).owner, cat |-> bid(b).cat,
                          bidAmount |-> bid(b).bidAmount, price |-> bid(b).price,
                          prio |-> bid(b).prio, time |-> now]
           list == [b \in {ids[x] : x \in DOMAIN ids} |-> stamped(b)]
           drawn == j.drawn + Len(wanted)
           i == [j EXCEPT !.pc = "send", !.tries = 0, !.drawn = drawn, !.list = list]
<1>1. BasketOK(j) /\ basket = [d \in Buyers |-> basket[d]]
  BY DEF MarketInv, AnswerInv, FinalInv, HouseInv, BasketsOK
<1>2. Len(wanted) = n
  OBVIOUS
<1>3. j.pc = "idle" /\ drawn =< Len(BidIds[c]) /\ basket' = [basket EXCEPT ![c] = i]
  BY DEF StampBids, Shopping
<1>4. basket'[c] = i
  BY <1>1, <1>3
<1>5. /\ ids \in [1..n -> Bids]
      /\ \A x \in 1..n : ids[x] = BidIds[c][j.drawn + x] /\ j.drawn + x \in DOMAIN BidIds[c]
  <2> DEFINE d == j.drawn
             all == BidIds[c]
  <2>1. d \in Nat /\ d + n =< Len(all) /\ all \in Seq(Bids)
    BY <1>1, <1>2, <1>3, BuyerAssumption DEF BasketOK
  <2>2. ids = SubSeq(all, d + 1, d + n)
    BY <1>2 DEF FreshIds
  <2> HIDE DEF d, ids, all
  <2>3. \A x \in (d + 1)..(d + n) : all[x] \in Bids
    BY <2>1
  <2>4. /\ ids \in Seq(Bids) /\ Len(ids) = (IF d + 1 =< d + n THEN (d + n) - (d + 1) + 1 ELSE 0)
        /\ \A x \in 1..((d + n) - (d + 1) + 1) : ids[x] = all[(d + 1) + x - 1]
    BY <2>1, <2>2, <2>3, SubSeqProperties
  <2>5. Len(ids) = n /\ 1..((d + n) - (d + 1) + 1) = 1..n
    BY <2>1, <2>4
  <2>6. ASSUME NEW x \in 1..n PROVE ids[x] = all[d + x] /\ d + x \in DOMAIN all
    <3>1. (d + 1) + x - 1 = d + x /\ d + x \in 1..Len(all)
      BY <2>1
    <3> QED BY <2>1, <2>4, <2>5, <3>1
  <2>7. ids \in [1..n -> Bids]
    BY <2>4, <2>5
  <2> QED BY <2>6, <2>7 DEF d, all
<1>6. \A x, y \in 1..n : x # y => ids[x] # ids[y]
  <2>1. ASSUME NEW x \in 1..n, NEW y \in 1..n, x # y PROVE ids[x] # ids[y]
    <3>1. j.drawn + x # j.drawn + y
      BY <1>1, <2>1 DEF BasketOK
    <3> HIDE DEF ids, j
    <3> QED BY <1>5, <3>1, BuyerAssumption
  <2> QED BY <2>1
<1> HIDE DEF ids, drawn, j
<1>7. DOMAIN ids = 1..n
  BY <1>5
<1>8. \A x \in 1..n : ids[x] \in DOMAIN list /\ list[ids[x]].bidAmount = wanted[x].bidAmount
  <2>1. ASSUME NEW x \in 1..n PROVE ids[x] \in DOMAIN list /\ list[ids[x]].bidAmount = wanted[x].bidAmount
    <3> DEFINE y == CHOOSE z \in DOMAIN ids : ids[z] = ids[x]
    <3>1. y \in 1..n /\ ids[y] = ids[x]
      BY <1>7
    <3>2. y = x
      <4> HIDE DEF y
      <4> QED BY <1>6, <3>1
    <3>3. bid(ids[x]) = wanted[x]
      BY <3>2
    <3>4. ids[x] \in {ids[z] : z \in DOMAIN ids}
      BY <1>7
    <3> HIDE DEF bid, y
    <3>5. stamped(ids[x]).bidAmount = wanted[x].bidAmount
      BY <3>3
    <3> HIDE DEF stamped
    <3> QED BY <3>4, <3>5
  <2> QED BY <2>1
<1>9. DOMAIN list = {ids[x] : x \in 1..n}
  BY <1>7
<1> HIDE DEF list
<1>10. i.pc = "send" /\ i.drawn = drawn /\ i.placed = j.placed /\ i.list = list
  BY <1>1 DEF BasketOK, BasketFields
<1>11. drawn = j.drawn + n /\ j.drawn \in Nat
  BY <1>1, <1>2 DEF drawn, BasketOK
<1> HIDE DEF i
<1>12. /\ j.drawn + n =< Len(BidIds[c]) /\ j.drawn \in Nat
       /\ j.pc = "idle" /\ i.pc = "send" /\ i.drawn = j.drawn + n /\ i.placed = j.placed
       /\ DOMAIN i.list = {ids[x] : x \in 1..n}
       /\ \A x \in 1..n : i.list[ids[x]].bidAmount = wanted[x].bidAmount
  BY <1>3, <1>8, <1>9, <1>10, <1>11
<1>13. \A x \in 1..n : ids[x] = BidIds[c][j.drawn + x]
  BY <1>5
<1>14. EachOnce(ids, n)
  BY <1>6 DEF EachOnce
<1>15. Stamps(c, j, i, n, wanted, ids)
  BY <1>12, <1>13, <1>14 DEF Stamps
<1>16. ids \in [1..n -> Bids]
  BY <1>5
<1>17. Stamped(c, j, i, n, wanted)
  BY <1>15, <1>16 DEF Stamped
<1> QED BY <1>4, <1>17 DEF j

\* The batch list bids the amounts r under the ids.
BatchOf(list, ids, n, r) ==
  /\ EachOnce(ids, n)
  /\ DOMAIN list = {ids[x] : x \in 1..n}
  /\ \A x \in 1..n : list[ids[x]].bidAmount = r[x]

LEMMA BatchFits ==
  ASSUME NEW list \in HouseBatches, NEW n \in Nat, NEW ids \in [1..n -> Bids],
         NEW r \in [1..n -> Nat], BatchOf(list, ids, n, r), NEW h, Sums(h, n, r)
  PROVE  Total(ListVolumes(list), DOMAIN list) = h[n]
<1> DEFINE f == ListVolumes(list)
           S == {ids[x] : x \in 1..n}
           a == [x \in 1..n |-> f[ids[x]]]
<1>1. Summable(f, S)
  <2>1. S \in SUBSET Bids
    OBVIOUS
  <2> HIDE DEF S
  <2> QED BY <2>1, ListVolumesAdd
<1>2. \A x \in 1..n : f[ids[x]] = r[x]
  BY DEF ListVolumes, BatchOf
<1>3. a = r
  <2> HIDE DEF f
  <2> QED BY <1>2
<1>4. ids \in [1..n -> S]
  OBVIOUS
<1>5. a = [x \in 1..n |-> f[ids[x]]] /\ Sums(h, n, a)
  BY <1>3
<1>6. EachOnce(ids, n) /\ DOMAIN list = S
  BY DEF BatchOf
<1> HIDE DEF f, S, a
<1>7. ListAdds(f, ids, n, h)
  BY <1>1, <1>4, <1>5, <1>6, ListAddsUp
<1> QED BY <1>6, <1>7 DEF f, S, ListAdds

\* The rest of a ranking is one.
LEMMA RestOfRanking ==
  ASSUME NEW s, NEW L \in Nat, NEW q \in [1..L -> OnSale(s)],
         \A x, y \in 1..L : x # y => q[x] # q[y], NEW n \in 1..L
  PROVE  IsRanking(SubSeq(q, n + 1, Len(q)), s)
<1> DEFINE p == SubSeq(q, n + 1, L)
           M == L - n
<1>1. Len(q) = L /\ M \in Nat
  OBVIOUS
<1>2. \A x \in (n + 1)..L : q[x] \in OnSale(s)
  OBVIOUS
<1>3. /\ p \in Seq(OnSale(s)) /\ Len(p) = (IF n + 1 =< L THEN L - (n + 1) + 1 ELSE 0)
      /\ \A x \in 1..(L - (n + 1) + 1) : p[x] = q[(n + 1) + x - 1]
  <2> HIDE DEF p
  <2>1. p = SubSeq(q, n + 1, L) /\ n + 1 \in Int /\ L \in Int
    BY DEF p
  <2> QED BY <1>2, <2>1, SubSeqProperties
<1>4. Len(p) = M /\ 1..(L - (n + 1) + 1) = 1..M
  BY <1>3
<1> HIDE DEF p
<1>5. p \in [1..M -> OnSale(s)]
  BY <1>3, <1>4
<1>6. ASSUME NEW x \in 1..M, NEW y \in 1..M, x # y PROVE p[x] # p[y]
  <2>1. p[x] = q[(n + 1) + x - 1] /\ p[y] = q[(n + 1) + y - 1]
    BY <1>3, <1>4
  <2>2. /\ (n + 1) + x - 1 \in 1..L /\ (n + 1) + y - 1 \in 1..L
        /\ (n + 1) + x - 1 # (n + 1) + y - 1
    BY <1>6
  <2> QED BY <2>1, <2>2
<1>7. IsRanking(p, s)
  <2> HIDE DEF M
  <2> QED BY <1>1, <1>5, <1>6 DEF IsRanking
<1> QED BY <1>1, <1>7 DEF p

LEMMA PlaceBidsStep ==
  ASSUME MarketInv, AnswerInv', NEW c \in Buyers, PlaceBids(c)
  PROVE  MarketInv'
<1> DEFINE k == charging[c]
           q == k.valid
           j == basket[c]
           i == basket'[c]
<1>1. /\ ConsumerOK(k, j, reply[c], c, ws) /\ Purse(k, c) /\ Goal[c] \in Nat
      /\ Spent(k, c, ws) /\ Reckons(k, j.placed, ws) /\ Chooses(k, ws) /\ World(ws)
  BY ConsumerIs
<1>2. /\ k.pc = "bid" /\ StampBids(c, Wanted(c))
      /\ charging = [d \in Buyers |-> charging[d]] /\ basket = [d \in Buyers |-> basket[d]]
  BY DEF PlaceBids, In, MarketInv, AnswerInv, FinalInv, HouseInv, BasketsOK
<1>3. /\ ws' = ws /\ reply' = reply /\ \E new : basket' = [basket EXCEPT ![c] = new]
  BY <1>2 DEF StampBids, gatewayVars
<1>4. PICK L \in Nat : \E n \in 1..L : \E r \in [1..n -> Nat] :
        /\ L =< MaxBatch
        /\ q \in [1..L -> OnSale(ws)] /\ \A x, y \in 1..L : x # y => q[x] # q[y]
        /\ TokenCount(c) = n
        /\ Wanted(c) = [x \in 1..n |-> BidOn(c, q[x], r[x])]
        /\ Shares(r, n, q, k.left)
  BY PlacingIs
<1>5. PICK n \in 1..L : \E r \in [1..n -> Nat] :
        /\ q \in [1..L -> OnSale(ws)] /\ \A x, y \in 1..L : x # y => q[x] # q[y]
        /\ TokenCount(c) = n
        /\ Wanted(c) = [x \in 1..n |-> BidOn(c, q[x], r[x])]
        /\ Shares(r, n, q, k.left)
  BY <1>4
<1>6. PICK r \in [1..n -> Nat] :
        /\ q \in [1..L -> OnSale(ws)] /\ \A x, y \in 1..L : x # y => q[x] # q[y]
        /\ TokenCount(c) = n
        /\ Wanted(c) = [x \in 1..n |-> BidOn(c, q[x], r[x])]
        /\ Shares(r, n, q, k.left)
  BY <1>5
<1> DEFINE wanted == Wanted(c)
           rest == SubSeq(q, n + 1, Len(q))
           m == [k EXCEPT !.pc = "placing", !.batch = DOMAIN i.list, !.valid = rest]
<1>7. /\ DOMAIN wanted = 1..n /\ wanted = [x \in 1..n |-> wanted[x]] /\ n \in Nat
      /\ \A x \in 1..n : wanted[x].bidAmount = r[x]
  BY <1>6 DEF BidOn
<1>8. PICK ids \in [1..n -> Bids] :
        /\ \A x \in 1..n : ids[x] = BidIds[c][j.drawn + x]
        /\ \A x, y \in 1..n : x # y => ids[x] # ids[y]
        /\ j.drawn + n =< Len(BidIds[c]) /\ j.drawn \in Nat
        /\ j.pc = "idle" /\ i.pc = "send" /\ i.drawn = j.drawn + n /\ i.placed = j.placed
        /\ DOMAIN i.list = {ids[x] : x \in 1..n}
        /\ \A x \in 1..n : i.list[ids[x]].bidAmount = wanted[x].bidAmount
  <2> HIDE DEF wanted
  <2>1. StampBids(c, wanted)
    BY <1>2 DEF wanted
  <2>2. Stamped(c, j, i, n, wanted)
    BY <1>7, <2>1, StampedIs
  <2> HIDE DEF i, j
  <2> QED BY <2>2 DEF Stamped, Stamps, EachOnce
<1>9. i.list \in HouseBatches
  BY <1>8 DEF AnswerInv, FinalInv, HouseInv, BasketsOK, BasketOK
<1>10. Total(ListVolumes(i.list), DOMAIN i.list) =< k.left
  <2>1. PICK h : Sums(h, n, r) /\ h[n] =< k.left
    BY <1>6 DEF Shares
  <2>2. \A x \in 1..n : i.list[ids[x]].bidAmount = r[x]
    BY <1>7, <1>8
  <2>3. Total(ListVolumes(i.list), DOMAIN i.list) = h[n]
    <3> DEFINE list == i.list
    <3>1. list \in HouseBatches /\ BatchOf(list, ids, n, r)
      BY <1>8, <1>9, <2>2 DEF BatchOf, EachOnce
    <3> HIDE DEF list
    <3>2. Total(ListVolumes(list), DOMAIN list) = h[n]
      BY <1>7, <1>8, <2>1, <3>1, BatchFits
    <3> QED BY <3>2 DEF list
  <2> QED BY <2>1, <2>3
<1>11. IsRanking(rest, ws)
  <2> HIDE DEF q
  <2> QED BY <1>6, RestOfRanking
<1>12. Become(c, m)
  BY <1>6 DEF PlaceBids
<1>13. Draws(j, c)
  BY <1>1 DEF ConsumerOK
<1> HIDE DEF k, j, i, q, wanted, rest
<1>14. /\ DOMAIN i.list \subseteq DrawnIds(i, c) /\ DrawnIds(j, c) \subseteq DrawnIds(i, c)
       /\ DOMAIN i.list \cap j.placed = {}
  <2>1. ASSUME NEW x \in 1..n
        PROVE  ids[x] \in DrawnIds(i, c) /\ ids[x] \notin DrawnIds(j, c)
    <3>1. j.drawn + x \in 1..i.drawn /\ j.drawn + x \in 1..Len(BidIds[c])
      BY <1>7, <1>8
    <3>2. ids[x] \in DrawnIds(i, c)
      BY <1>8, <3>1 DEF DrawnIds
    <3>3. ASSUME NEW y \in 1..j.drawn PROVE BidIds[c][y] # ids[x]
      <4>1. y \in 1..Len(BidIds[c]) /\ y # j.drawn + x
        BY <1>7, <1>8
      <4>2. DOMAIN BidIds[c] = 1..Len(BidIds[c])
        BY BuyerAssumption
      <4> QED BY <1>8, <3>1, <4>1, <4>2, BuyerAssumption
    <3> QED BY <3>2, <3>3 DEF DrawnIds
  <2>2. 1..j.drawn \subseteq 1..i.drawn
    BY <1>7, <1>8
  <2>3. DrawnIds(j, c) \subseteq DrawnIds(i, c)
    BY <2>2 DEF DrawnIds
  <2> QED BY <1>8, <1>13, <2>1, <2>3 DEF Draws
<1>15. /\ DOMAIN m = ChargeFields /\ m.pc = "placing" /\ m.requested = k.requested
       /\ m.fine = k.fine /\ m.left = k.left /\ m.valid = rest
       /\ m.start = k.start /\ m.charged = k.charged /\ m.beforeUse = k.beforeUse
       /\ m.batch = DOMAIN i.list /\ m.success = k.success /\ m.unread = k.unread
       /\ m.got = k.got
  BY <1>1 DEF Purse, ChargeFields
<1> HIDE DEF m
<1>16. Purse(m, c)
  <2>1. k.success \cap DOMAIN i.list = {}
    BY <1>1, <1>14 DEF Reckons
  <2> QED BY <1>1, <1>2, <1>15, <2>1 DEF Purse
<1>17. Spent(m, c, ws)
  BY <1>1, <1>2, <1>15 DEF Spent
<1>18. Reckons(m, i.placed, ws)
  <2>1. PICK R \in SUBSET j.placed : Counts(k, R, ws)
    BY <1>1 DEF Reckons
  <2>2. R \cap Uncounted(m) = {}
    BY <1>2, <1>14, <1>15, <2>1 DEF Counts, Uncounted
  <2>3. Counts(m, R, ws)
    BY <1>15, <2>1, <2>2 DEF Counts
  <2> QED BY <1>1, <1>8, <1>15, <2>1, <2>3 DEF Reckons
<1>19. Chooses(m, ws)
  BY <1>1, <1>11, <1>15 DEF Chooses
<1>20. Sending(m, i, ws)
  BY <1>8, <1>10, <1>14, <1>15 DEF Sending
<1>21. Draws(i, c)
  BY <1>8, <1>13, <1>14 DEF Draws
<1>22. IsListed(i, reply[c], ws)
  BY <1>8 DEF IsListed
<1>23. ConsumerOK(m, i, reply[c], c, ws)
  BY <1>16, <1>17, <1>18, <1>19, <1>20, <1>21, <1>22 DEF ConsumerOK
<1>24. /\ charging'[c] = m /\ \A d \in Buyers \ {c} :
            charging'[d] = charging[d] /\ basket'[d] = basket[d] /\ reply'[d] = reply[d]
       /\ charging' = [d \in Buyers |-> charging'[d]]
  BY <1>2, <1>3, <1>12 DEF Become
<1>25. ConsumerOK(charging'[c], basket'[c], reply'[c], c, ws)
  BY <1>3, <1>23, <1>24 DEF i
<1> QED BY <1>3, <1>24, <1>25, OneConsumer

-----------------------------------------------------------------------------
LEMMA QuietSteps ==
  ASSUME NEW c \in Buyers, Begin(c) \/ ConsumerStep(c) \/ AskFails(c), UNCHANGED auction
  PROVE  PlaceBids(c) \/ UNCHANGED vars
BY DEF ConsumerStep, Begin, AskFails, Satisfied, Stop, Search, Ask, Rank, BatchReturned,
     BidReturned, ReadBid, Charge, Rested, Quietly, Evaluate, gatewayVars, vars

\* A step of the simulation is one of AuctionHouse.
LEMMA MarketStepIsHouseStep ==
  MarketInv /\ [MarketNext]_marketVars => [Next]_vars
<1> SUFFICES ASSUME MarketInv, [MarketNext]_marketVars PROVE [Next]_vars
  OBVIOUS
<1>1. CASE House
  BY <1>1 DEF House, Next
<1>2. CASE PlacingBids
  BY <1>2 DEF PlacingBids, Next
<1>3. CASE Consumers
  <2>1. PICK c \in Buyers : (Begin(c) \/ ConsumerStep(c) \/ AskFails(c)) /\ UNCHANGED auction
    BY <1>3 DEF Consumers
  <2>2. CASE PlaceBids(c)
    BY <2>1, <2>2, PlacingIsBidding DEF BuyersStart, Next
  <2> QED BY <2>1, <2>2, QuietSteps
<1>4. CASE UNCHANGED marketVars
  BY <1>4 DEF marketVars
<1> QED BY <1>1, <1>2, <1>3, <1>4 DEF MarketNext

LEMMA MarketInvInit == MarketInit => MarketInv
<1> SUFFICES ASSUME MarketInit PROVE MarketInv
  OBVIOUS
<1>1. AnswerInv /\ ws = Apply(EmptyState, InitLedger(EmptyState).writes) /\ World(ws)
      /\ basket = [c \in Buyers |-> EmptyBasket]
  BY AnswerInvInit DEF MarketInit, Init, GatewayInit, BuyerInit, AnswerInv, FinalInv, HouseInv
<1>2. \A b \in Bids : ws[b] = Absent
  BY <1>1, KeyKinds DEF InitLedger, Result, Apply, EmptyState
<1>3. AwardsInBids(ws)
  BY <1>2 DEF AwardsInBids, Settled
<1>4. PICK start \in [Buyers -> UNION {Charged0[c] : c \in Buyers}] :
        /\ \A c \in Buyers : start[c] \in Charged0[c]
        /\ charging = [c \in Buyers |-> Asleep(start[c])]
  BY DEF MarketInit, ConsumerInit
<1>5. ASSUME NEW c \in Buyers PROVE ConsumerOK(charging[c], basket[c], reply[c], c, ws)
  <2> DEFINE k == Asleep(start[c])
             j == EmptyBasket
  <2>1. charging[c] = k /\ basket[c] = j
    BY <1>1, <1>4
  <2>2. /\ start[c] \in Charged0[c] /\ start[c] \in Nat /\ start[c] =< Goal[c] /\ Goal[c] \in Nat
        /\ ChargeRate * Spare \in Nat
    <3>1. start[c] \in Charged0[c] /\ Charged0[c] \subseteq 0..(Goal[c] - 1) /\ Goal[c] \in Nat
      BY <1>4, ConsumerAssumption
    <3>2. ChargeRate \in Nat /\ Spare \in Nat
      BY ConsumerAssumption
    <3>3. ChargeRate * Spare \in Nat
      BY <3>2
    <3> QED BY <3>1, <3>3
  <2>3. /\ DOMAIN k = ChargeFields /\ k.pc = "idle" /\ k.start = start[c] /\ k.charged = start[c]
        /\ k.beforeUse = 0 /\ k.requested = 0 /\ k.toAsk = {} /\ k.fine = {} /\ k.left = 0
        /\ k.batch = {} /\ k.success = {} /\ k.unread = {} /\ k.got = 0
    BY DEF Asleep, ChargeFields
  <2>4. j.pc = "idle" /\ j.drawn = 0 /\ j.placed = {}
    BY DEF EmptyBasket
  <2> HIDE DEF k, j
  <2>5. Purse(k, c)
    BY <2>2, <2>3 DEF Purse
  <2>6. Reckons(k, j.placed, ws)
    <3>1. Total(Amounts(ws), {}) = 0
      BY <1>1, AmountsAdd, TotalFacts
    <3>2. Counts(k, {}, ws)
      BY <2>2, <2>3, <3>1 DEF Counts
    <3> QED BY <2>3, <2>4, <3>2 DEF Reckons
  <2>7. Len(BidIds[c]) \in Nat
    BY BuyerAssumption
  <2>8. /\ Spent(k, c, ws) /\ Chooses(k, ws) /\ Sending(k, j, ws) /\ Draws(j, c)
        /\ IsListed(j, reply[c], ws)
    BY <2>3, <2>4, <2>7 DEF Spent, Chooses, Sending, Draws, IsListed
  <2> QED BY <2>1, <2>5, <2>6, <2>8 DEF ConsumerOK
<1>6. charging = [c \in Buyers |-> charging[c]]
  BY <1>4
<1> QED BY <1>1, <1>3, <1>5, <1>6 DEF MarketInv

LEMMA MarketInvStep == MarketInv /\ [MarketNext]_marketVars => MarketInv'
<1> SUFFICES ASSUME MarketInv, [MarketNext]_marketVars PROVE MarketInv'
  OBVIOUS
<1>1. AnswerInv'
  BY MarketStepIsHouseStep, AnswerInvStep DEF MarketInv
<1>2. CASE House
  BY <1>1, <1>2, HouseKeeps
<1>3. CASE PlacingBids
  BY <1>1, <1>3, PlacingKeeps
<1>4. CASE Consumers
  BY <1>1, <1>4, PhaseSteps, SearchStep, AskStep, RankStep, PlaceBidsStep, BatchReturnedStep,
     BidReturnedStep, ReadBidStep, ChargeStep DEF Consumers, ConsumerStep
<1>5. CASE UNCHANGED marketVars
  <2>1. UNCHANGED <<ws, basket, reply, charging>>
    BY <1>5 DEF marketVars, vars
  <2>2. \A c \in Buyers : ConsumerOK(charging'[c], basket'[c], reply'[c], c, ws')
    BY <2>1 DEF MarketInv
  <2> QED BY <1>1, <2>1, <2>2 DEF MarketInv
<1> QED BY <1>2, <1>3, <1>4, <1>5 DEF MarketNext

LEMMA MarketInvHolds == MarketSpec => []MarketInv
BY MarketInvInit, MarketInvStep, PTL DEF MarketSpec

-----------------------------------------------------------------------------
\* Every execution of the simulation is one of AuctionHouse: the bids a consumer
\* picks, cuts to what it wants and stamps (consumerAppBuy.go:114-144, 246-286)
\* are among those AuctionHouse leaves open, so all that is proved of
\* AuctionHouse holds of the simulation.
THEOREM MarketImplementsHouse == MarketSpec => ImplementsHouse
<1>1. MarketInit => Init
  BY DEF MarketInit
<1> QED BY <1>1, MarketInvHolds, MarketStepIsHouseStep, PTL DEF MarketSpec, ImplementsHouse, Spec

\* No consumer ever counts more energy than it is to charge
\* (consumerAppBuy.go:114-144), whatever is lost, retried or late.
THEOREM ConsumersStayWithinGoal == MarketSpec => []NeverOvercharged
<1>1. MarketInv => NeverOvercharged
  BY DEF MarketInv, ConsumerOK, Purse, NeverOvercharged
<1> QED BY <1>1, MarketInvHolds, PTL

\* What a consumer counts as charged are awards of its bids, each once
\* (consumerAppBuyResult.go:60-73).
THEOREM ConsumersChargeAwards == MarketSpec => []ChargedIsAwarded
<1>1. ASSUME MarketInv, NEW c \in Buyers
      PROVE  charging[c].charged + charging[c].got - charging[c].start =< AwardedTo(c)
  <2> DEFINE k == charging[c]
             p == basket[c].placed
             S == {b \in p : Settled(ws[b])}
  <2>1. /\ Purse(k, c) /\ Reckons(k, p, ws) /\ World(ws) /\ Charged0[c] \subseteq Nat
        /\ p \in SUBSET Bids
    BY <1>1, ConsumerIs
  <2>2. PICK R \in SUBSET p : Counts(k, R, ws)
    BY <2>1 DEF Reckons
  <2>3. R \in SUBSET S /\ S \in SUBSET Bids /\ R \in SUBSET Bids
    BY <2>1, <2>2 DEF Counts
  <2>4. AwardedTo(c) = Total(Amounts(ws), S)
    BY <2>1, AwardedToTotal
  <2> DEFINE A == Total(Amounts(ws), S)
             B == Total(Amounts(ws), R)
  <2> HIDE DEF S
  <2>5. Summable(Amounts(ws), S) /\ Summable(Amounts(ws), R)
    BY <2>1, <2>3, AmountsAdd
  <2>6. A \in Nat /\ B \in Nat /\ B =< A
    BY <2>3, <2>5, TotalOfPart, TotalFacts
  <2>7. k.charged + k.got = k.start + B
    BY <2>2 DEF Counts
  <2>8. k.charged \in Nat /\ k.got \in Nat /\ k.start \in Nat
    BY <2>1 DEF Purse
  <2> HIDE DEF A, B
  <2>9. k.charged + k.got - k.start =< A
    BY <2>6, <2>7, <2>8
  <2> QED BY <2>4, <2>9 DEF A
<1>2. MarketInv => ChargedIsAwarded
  BY <1>1 DEF ChargedIsAwarded
<1> QED BY <1>2, MarketInvHolds, PTL

-----------------------------------------------------------------------------
(* Calls and timers that are punctual.                                        *)

\* Calls are so much faster than the ticks that the windows of two of them overlap
\* by as much as a bid and a tick may be late (60 s and 75 s in the code).
Punctual == Latency < Interval /\ Interval + 2 * Latency <= Window

Busy == {"query", "submit", "submitted"}

\* What a goroutine in the state a is doing at the time t.
Doing(a, t) ==
  CASE a.pc \in {"idle", "done"} -> "asleep"
    [] a.pc \in {"create", "creating"} -> "create"
    [] a.pc = "wait" -> IF a.due <= t THEN "auctionEnd" ELSE "asleep"
    [] OTHER -> "auctionEnd"

\* How long the goroutine of a has been at it, g, bounds how late it is.
MakerInTime(a, g, t) ==
  /\ a.pc # "idle" => a.gen <= t
  /\ a.pc \in {"idle", "create"} => a.id = NoId
  /\ a.pc \in {"create", "creating"} => t <= a.gen + g
  /\ a.pc = "wait" => t <= a.due + g /\ a.due <= t + Interval
  /\ a.pc = "wait" /\ a.ticks = 0 => a.due = a.gen + Interval
  /\ a.pc \in Busy =>
       a.ts <= t /\ t <= a.ts + g /\ a.due <= a.ts + Interval /\ t + Interval <= a.due + g

\* A bid of this time that no tick has listed will be by one that is to come.
StillToList(time, a) ==
  /\ a.pc \in {"wait", "submit", "submitted"} => a.due <= time + Interval + Latency
  /\ a.pc = "query" => a.due <= time + 2 * Interval + Latency

\* The bids that are being settled have been listed, by this tick.
OfferInTime(a, s, done) ==
  a.pc \in {"submit", "submitted"} =>
    \A i \in DOMAIN a.offer : a.offer[i].id \in Bids =>
      a.offer[i].id \in done /\ a.ts <= s[a.offer[i].id].time + Window

BidInTime(b, s, as, done) ==
  s[b] # Absent =>
    /\ s[s[b].energy].gen <= s[b].time
    /\ IF Settled(s[b]) THEN b \in done ELSE s[b].amount = 0
    /\ b \notin done =>
         \A m \in Makers : as[m].id = s[b].energy => StillToList(s[b].time, as[m])

\* A batch is not older than the consumer's goroutine has been sending it, g.
BatchInTime(j, g, t, s) ==
  j.pc \in {"send", "sent"} => \A b \in DOMAIN j.list :
    LET v == j.list[b] IN t <= v.time + g /\ s[v.energy] # Absent /\ s[v.energy].gen <= v.time

InTime ==
  /\ \A g \in Makers \cup Buyers : age[g] \in 0..Latency
  /\ \A m \in Makers : MakerInTime(auction[m], age[m], now) /\ OfferInTime(auction[m], ws, listed)
  /\ \A b \in Bids : BidInTime(b, ws, auction, listed)
  /\ \A c \in Buyers : BatchInTime(basket[c], age[c], now, ws)

TimelyInv == faults = 0 => InTime

-----------------------------------------------------------------------------
(* How the ages go with what the goroutines do.                               *)

\* Of a goroutine that did one thing and does the next one now: its ages.
Aged(did, does, g, h, passed) ==
  /\ passed = 1 /\ did # "asleep" => g < Latency
  /\ h = IF does = did /\ did # "asleep" THEN g + passed ELSE 0

\* A step of a goroutine of a producer, by its places.
Goes(a, b, t) ==
  \/ b = a
  \/ a.pc = "idle" /\ b.pc = "create" /\ b.gen = t /\ b.id = a.id
  \/ a.pc = "create" /\ b.pc = "creating" /\ b.gen = a.gen
  \/ a.pc = "creating" /\ b.pc = "create" /\ b.gen = a.gen /\ b.id = NoId
  \/ a.pc = "creating" /\ b.pc = "wait" /\ b.gen = a.gen /\ b.id = a.id /\ b.due = a.gen + Interval
  \/ a.pc # "idle" /\ b.pc = "done" /\ b.gen = a.gen
  \/ /\ a.pc = "wait" /\ b.pc = "query" /\ a.due <= t
     /\ b.gen = a.gen /\ b.id = a.id /\ b.ts = t
     /\ b.due = IF a.ticks = 0 THEN t + Interval
                ELSE a.due + Interval * (((t - a.due) \div Interval) + 1)
  \/ /\ a.pc \in {"query", "submitted"} /\ b.pc = "wait"
     /\ b.gen = a.gen /\ b.id = a.id /\ b.due = a.due /\ b.ticks = a.ticks
  \/ /\ a.pc \in Busy /\ b.pc \in Busy /\ (b.pc = "query" => a.pc = "query")
     /\ b.gen = a.gen /\ b.id = a.id /\ b.due = a.due /\ b.ts = a.ts
     /\ a.pc # "query" => b.offer = a.offer

\* One tick after the other, when the ticks are in time.
LEMMA NextTick ==
  ASSUME NEW due \in Nat, NEW t \in Nat, NEW i \in Nat \ {0}, due <= t, t < due + i
  PROVE  due + i * (((t - due) \div i) + 1) = due + i
<1> DEFINE d == t - due
<1>1. d \in Nat /\ d < i
  OBVIOUS
<1> HIDE DEF d
<1>2. d \div i = 0
  BY <1>1
<1>3. i * (0 + 1) = i
  OBVIOUS
<1> QED BY <1>2, <1>3 DEF d

\* The numbers of a goroutine.
Timings(a, t) ==
  /\ a.gen \in Nat /\ a.due \in Nat /\ a.ts \in Nat /\ a.ticks \in Nat
  /\ a.pc \in {"idle", "create", "creating", "wait", "query", "submit", "submitted", "done"}
  /\ a.pc \in Busy => a.ticks >= 1

\* The due time after a tick in time.
LEMMA DueAfterTick ==
  ASSUME Punctual, NEW a, NEW b, NEW t \in Nat, NEW g \in 0..Latency, Timings(a, t),
         a.pc = "wait", b.pc = "query", Goes(a, b, t), MakerInTime(a, g, t)
  PROVE  /\ a.due <= t /\ b.gen = a.gen /\ b.id = a.id /\ b.ts = t
         /\ b.due = (IF a.ticks = 0 THEN t + Interval ELSE a.due + Interval)
<1>1. /\ a.due <= t /\ b.gen = a.gen /\ b.id = a.id /\ b.ts = t
      /\ b.due = IF a.ticks = 0 THEN t + Interval
                 ELSE a.due + Interval * (((t - a.due) \div Interval) + 1)
  BY DEF Goes, Busy
<1>2. a.due \in Nat /\ Interval \in Nat \ {0} /\ Latency \in Nat /\ t < a.due + Interval
  BY ProducerAssumption, TimelyAssumption DEF Timings, MakerInTime, Punctual
<1>3. a.due + Interval * (((t - a.due) \div Interval) + 1) = a.due + Interval
  BY <1>1, <1>2, NextTick
<1> QED BY <1>1, <1>3

\* A goroutine that was in time stays in time: a step takes no time, and while
\* time passes its age grows with it.
LEMMA MakerStaysInTime ==
  ASSUME Punctual, NEW a, NEW b, NEW t \in Nat, NEW g \in 0..Latency, NEW u \in Nat, NEW h,
         Timings(a, t), Timings(b, u), MakerInTime(a, g, t), Goes(a, b, t),
         u = t \/ (u = t + 1 /\ b = a),
         Aged(Doing(a, t), Doing(b, u), g, h, u - t)
  PROVE  MakerInTime(b, h, u)
<1> USE ProducerAssumption, TimelyAssumption
<1>1. CASE u = t + 1 /\ b = a
  BY <1>1 DEF MakerInTime, Aged, Doing, Timings, Busy
<1>2. CASE u = t
  <2>1. CASE b = a
    BY <1>2, <2>1 DEF MakerInTime, Aged, Doing, Timings, Busy
  <2>2. CASE a.pc = "wait" /\ b.pc = "query"
    <3>1. /\ a.due <= t /\ b.gen = a.gen /\ b.id = a.id /\ b.ts = t
          /\ b.due = (IF a.ticks = 0 THEN t + Interval ELSE a.due + Interval)
      BY <2>2, DueAfterTick
    <3>2. h = g
      BY <1>2, <2>2, <3>1 DEF Aged, Doing
    <3> QED BY <1>2, <2>2, <3>1, <3>2 DEF MakerInTime, Timings, Busy
  <2>3. CASE a.pc \in {"query", "submitted"} /\ b.pc = "wait" /\ b # a
    <3>1. b.gen = a.gen /\ b.due = a.due /\ b.ticks = a.ticks
      BY <2>3 DEF Goes, Busy
    <3>2. b.due > t
      BY <2>3, <3>1 DEF MakerInTime, Punctual, Timings, Busy
    <3>3. h = 0
      BY <1>2, <2>3, <3>2 DEF Aged, Doing, Timings
    <3> QED BY <1>2, <2>3, <3>1, <3>2, <3>3 DEF MakerInTime, Timings, Busy
  <2>4. CASE a.pc \in Busy /\ b.pc \in Busy /\ b # a
    <3>1. b.gen = a.gen /\ b.due = a.due /\ b.ts = a.ts
      BY <2>4 DEF Goes, Busy
    <3>2. h = g
      BY <1>2, <2>4 DEF Aged, Doing, Busy
    <3> QED BY <1>2, <2>4, <3>1, <3>2 DEF MakerInTime, Timings, Busy
  <2>5. CASE a.pc \in {"idle", "create", "creating"} /\ b.pc \in {"create", "creating"} /\ b # a
    BY <1>2, <2>5 DEF MakerInTime, Timings, Busy, Goes, Aged, Doing
  <2>6. CASE a.pc = "creating" /\ b.pc = "wait"
    <3>1. b.gen = a.gen /\ b.due = a.gen + Interval
      BY <2>6 DEF Goes, Busy
    <3>2. b.due > t
      BY <2>6, <3>1 DEF MakerInTime, Punctual, Timings
    <3>3. h = 0
      BY <1>2, <2>6, <3>2 DEF Aged, Doing, Timings
    <3> QED BY <1>2, <2>6, <3>1, <3>2, <3>3 DEF MakerInTime, Timings, Busy
  <2>7. CASE b.pc = "done" /\ a.pc # "idle" /\ b.gen = a.gen
    BY <1>2, <2>7 DEF MakerInTime, Busy
  <2> QED BY <2>1, <2>2, <2>3, <2>4, <2>5, <2>6, <2>7 DEF Goes
<1> QED BY <1>1, <1>2

\* A goroutine keeps its token while it auctions it.
LEMMA KeepsToken ==
  ASSUME NEW a, NEW b, NEW t, Goes(a, b, t), b.pc \in {"wait", "query", "submit", "submitted"}
  PROVE  /\ a.pc \in {"creating", "wait", "query", "submit", "submitted"}
         /\ b.id = a.id /\ b.gen = a.gen
BY DEF Goes, Busy

\* The window of the tick that has just looked has held the bid, unless a later
\* tick will look in time.
LEMMA StaysToList ==
  ASSUME Punctual, NEW a, NEW b, NEW t \in Nat, NEW g \in 0..Latency, NEW u \in Nat,
         Timings(a, t), Timings(b, u), MakerInTime(a, g, t), Goes(a, b, t),
         NEW time \in Nat, a.gen <= time, StillToList(time, a),
         a.pc = "query" /\ b.pc # "query" => ~(a.ts - Window <= time /\ time < a.ts)
  PROVE  StillToList(time, b)
<1> USE ProducerAssumption, TimelyAssumption
<1>1. Window \in Nat
  BY ContractAssumption
<1>2. CASE b = a
  BY <1>2
<1>3. CASE a.pc = "wait" /\ b.pc = "query"
  <2>1. b.due = IF a.ticks = 0 THEN t + Interval ELSE a.due + Interval
    BY <1>3, DueAfterTick
  <2> QED BY <1>3, <2>1 DEF StillToList, MakerInTime, Timings
<1>4. CASE a.pc = "query" /\ b.pc \in {"wait", "submit", "submitted"}
  <2>1. b.due = a.due
    BY <1>4 DEF Goes, Busy
  <2> QED BY <1>1, <1>4, <2>1 DEF StillToList, MakerInTime, Timings, Punctual, Busy
<1>5. CASE a.pc \in {"submit", "submitted"} /\ b.pc \in {"wait", "submit", "submitted"} /\ b # a
  <2>1. b.due = a.due
    BY <1>5 DEF Goes, Busy
  <2> QED BY <1>5, <2>1 DEF StillToList
<1>6. CASE a.pc = "creating" /\ b.pc = "wait"
  <2>1. b.due = a.gen + Interval
    BY <1>6 DEF Goes, Busy
  <2> QED BY <1>6, <2>1 DEF StillToList, Timings
<1>7. CASE b.pc \in {"create", "creating", "done"}
  BY <1>7 DEF StillToList
<1>8. CASE a.pc = "query" /\ b.pc = "query" /\ b # a
  <2>1. b.due = a.due
    BY <1>8 DEF Goes, Busy
  <2> QED BY <1>8, <2>1 DEF StillToList
<1> QED BY <1>2, <1>3, <1>4, <1>5, <1>6, <1>7, <1>8 DEF Goes, Busy

-----------------------------------------------------------------------------
(* What a step of the simulation moves.                                       *)

LEMMA StepIs ==
  ASSUME MarketNext
  PROVE  /\ \/ now' = now
            \/ now' = now + 1 /\ UNCHANGED <<ws, auction, basket, charging>>
         /\ faults' = faults \/ faults' = faults + 1
         /\ \/ \E tx \in pool : Commit(tx) /\ UNCHANGED <<auction, basket, charging>>
            \/ \A k \in Energies \cup Bids : ws'[k] = ws[k]
<1>1. CASE House
  <2>1. CASE Network
    BY <1>1, <2>1 DEF House, Network, GatewayNext, Commit, Invalidate, GiveUp, Drop, ClockTick
  <2>2. CASE Producers
    BY <2>2 DEF Producers, ProducerNext, ProducerStep, Produce, CreateToken, Created, CreateFailed,
         EndTimer, Tick, TimeUp, Query, SubmitEnd, Ended, EndFailed, QueryFailed, Submit, TakeReply,
         Evaluate, EvaluateFails, gatewayVars
  <2>3. CASE PriceUpdate
    <3>1. PICK cat \in Categories, p \in NewPrices :
            ws' = Apply(ws, UpdateUnitPrice(ws, cat, p).writes)
      BY <2>3 DEF PriceUpdate
    <3>2. DOMAIN UpdateUnitPrice(ws, cat, p).writes \subseteq {cat}
      BY DEF UpdateUnitPrice, Error, Result, NoWrite
    <3>3. \A k \in Energies \cup Bids : ws'[k] = ws[k]
      BY <3>1, <3>2, KeyKinds DEF Apply
    <3> QED BY <2>3, <3>3 DEF PriceUpdate
  <2> QED BY <1>1, <2>1, <2>2, <2>3 DEF House
<1>2. CASE PlacingBids
  BY <1>2 DEF PlacingBids, BuyersPlace, BuyerStep, SendBids, BidsPlaced, BidsFailed, Submit, TakeReply
<1>3. CASE Consumers
  BY <1>3 DEF Consumers, ConsumerStep, Begin, AskFails, Satisfied, Stop, Search, Ask, Rank,
       PlaceBids, StampBids, BatchReturned, BidReturned, ReadBid, Charge, Rested, Quietly, Evaluate,
       gatewayVars
<1> QED BY <1>1, <1>2, <1>3 DEF MarketNext

\* The goroutines of the producers go from place to place.
LEMMA MakersGo ==
  ASSUME HouseInv, MarketNext, NEW n \in Makers
  PROVE  Goes(auction[n], auction'[n], now)
<1>1. CASE auction' = auction
  BY <1>1 DEF Goes
<1>2. CASE Producers
  <2>1. PICK m \in Makers : Produce(m) \/ ProducerStep(m) \/ QueryFailed(m)
    BY <1>2 DEF Producers, ProducerNext
  <2> DEFINE a == auction[m]
  <2>2. AuctionOK(a, m) /\ auction = [k \in Makers |-> auction[k]]
    BY DEF HouseInv, AuctionsOK
  <2>3. ASSUME NEW b, auction' = [auction EXCEPT ![m] = b], Goes(a, b, now)
        PROVE  Goes(auction[n], auction'[n], now)
    <3>1. auction'[n] = IF n = m THEN b ELSE auction[n]
      BY <2>2, <2>3
    <3> QED BY <2>3, <3>1 DEF Goes
  <2>4. ASSUME NEW why, a.pc # "idle", auction' = Finish(m, why)
        PROVE  Goes(auction[n], auction'[n], now)
    <3> DEFINE b == [auction[m] EXCEPT !.pc = "done", !.tries = 0, !.due = 0, !.ts = 0,
                                       !.offer = NoOffer, !.amount = 0, !.last = why]
    <3>1. auction' = [auction EXCEPT ![m] = b]
      BY <2>4 DEF Finish
    <3>2. b.pc = "done" /\ b.gen = a.gen
      BY <2>2 DEF AuctionOK, AuctionFields
    <3> HIDE DEF b
    <3>3. Goes(a, b, now)
      BY <2>4, <3>2 DEF Goes
    <3> QED BY <2>3, <3>1, <3>3
  <2>5. ASSUME NEW why, a.pc \in {"query", "submitted"}, auction' = Continue(m, why)
        PROVE  Goes(auction[n], auction'[n], now)
    <3>1. CASE auction' = Finish(m, why)
      BY <2>4, <2>5, <3>1
    <3>2. CASE auction' = Waiting(m, why)
      <4>1. PICK b : /\ auction' = [auction EXCEPT ![m] = b]
                     /\ b.pc = "wait" /\ b.id = a.id /\ b.ticks = a.ticks
                     /\ b.due = a.due /\ b.gen = a.gen
        BY <3>2, WaitingAs
      <4>2. Goes(a, b, now)
        BY <2>5, <4>1 DEF Goes
      <4> QED BY <2>3, <4>1, <4>2
    <3> QED BY <2>5, <3>1, <3>2 DEF Continue
  <2>6. CASE Produce(m)
    <3> DEFINE b == [auction[m] EXCEPT !.pc = "create", !.gen = now]
    <3>1. a.pc = "idle" /\ auction' = [auction EXCEPT ![m] = b]
      BY <2>6 DEF Produce, At
    <3>2. b.pc = "create" /\ b.gen = now /\ b.id = a.id
      BY <2>2 DEF AuctionOK, AuctionFields
    <3> HIDE DEF b
    <3>3. Goes(a, b, now)
      BY <3>1, <3>2 DEF Goes
    <3> QED BY <2>3, <3>1, <3>3
  <2>7. CASE CreateToken(m)
    <3>1. PICK id \in TokenIds[m] :
            auction' = [auction EXCEPT ![m] = [@ EXCEPT !.pc = "creating", !.id = id]]
      BY <2>7 DEF CreateToken
    <3> DEFINE b == [auction[m] EXCEPT !.pc = "creating", !.id = id]
    <3>2. a.pc = "create" /\ auction' = [auction EXCEPT ![m] = b]
      BY <2>7, <3>1 DEF CreateToken, At
    <3>3. b.pc = "creating" /\ b.gen = a.gen
      BY <2>2 DEF AuctionOK, AuctionFields
    <3> HIDE DEF b
    <3>4. Goes(a, b, now)
      BY <3>2, <3>3 DEF Goes
    <3> QED BY <2>3, <3>2, <3>4
  <2>8. CASE Created(m)
    <3> DEFINE due == a.gen + Interval
               b == [auction[m] EXCEPT !.pc = "wait", !.tries = 0, !.due = due]
    <3>1. a.pc = "creating" /\ auction' = [auction EXCEPT ![m] = b]
      BY <2>8 DEF Created, At
    <3> HIDE DEF due
    <3>2. b.pc = "wait" /\ b.gen = a.gen /\ b.id = a.id /\ b.due = due
      BY <2>2 DEF AuctionOK, AuctionFields
    <3> HIDE DEF b
    <3>3. Goes(a, b, now)
      BY <3>1, <3>2 DEF Goes, due
    <3> QED BY <2>3, <3>1, <3>3
  <2>9. CASE CreateFailed(m)
    <3>1. a.pc = "creating"
      BY <2>9 DEF CreateFailed, At
    <3>2. CASE a.tries > MaxCreateErrors
      BY <2>4, <2>9, <3>1, <3>2 DEF CreateFailed
    <3>3. CASE ~(a.tries > MaxCreateErrors)
      <4> DEFINE tries == a.tries + 1
                 b == [auction[m] EXCEPT !.pc = "create", !.id = NoId, !.tries = tries]
      <4>1. auction' = [auction EXCEPT ![m] = b]
        BY <2>9, <3>3 DEF CreateFailed
      <4> HIDE DEF tries
      <4>2. b.pc = "create" /\ b.gen = a.gen /\ b.id = NoId
        BY <2>2 DEF AuctionOK, AuctionFields
      <4> HIDE DEF b
      <4>3. Goes(a, b, now)
        BY <3>1, <4>2 DEF Goes
      <4> QED BY <2>3, <4>1, <4>3
    <3> QED BY <3>2, <3>3
  <2>10. CASE EndTimer(m) \/ TimeUp(m)
    BY <2>4, <2>10 DEF EndTimer, TimeUp, At
  <2>11. CASE Tick(m)
    <3> DEFINE ticks == a.ticks + 1
               due == IF a.ticks = 0 THEN now + Interval
                      ELSE a.due + Interval * (((now - a.due) \div Interval) + 1)
               b == [auction[m] EXCEPT !.pc = "query", !.ts = now, !.ticks = ticks, !.due = due]
    <3>1. a.pc = "wait" /\ a.due <= now /\ auction' = [auction EXCEPT ![m] = b]
      BY <2>11 DEF Tick, At
    <3> HIDE DEF ticks, due
    <3>2. b.pc = "query" /\ b.gen = a.gen /\ b.id = a.id /\ b.ts = now /\ b.due = due
      BY <2>2 DEF AuctionOK, AuctionFields
    <3> HIDE DEF b
    <3>3. Goes(a, b, now)
      BY <3>1, <3>2 DEF Goes, due
    <3> QED BY <2>3, <3>1, <3>3
  <2>12. CASE Query(m)
    <3>1. a.pc = "query"
      BY <2>12 DEF Query, At
    <3>2. CASE auction' = Continue(m, "no bids")
      <4> DEFINE why == "no bids"
      <4>1. auction' = Continue(m, why) /\ a.pc \in {"query", "submitted"}
        BY <3>1, <3>2
      <4> HIDE DEF why
      <4> QED BY <2>5, <4>1
    <3>3. CASE auction' # Continue(m, "no bids")
      <4>1. \E offer, sold, isSold : auction' = [auction EXCEPT ![m] =
              [@ EXCEPT !.pc = "submit", !.tries = 0, !.offer = offer, !.amount = sold,
                        !.isSold = isSold]]
        BY <2>12, <3>3 DEF Query
      <4>2. PICK offer, sold, isSold : auction' = [auction EXCEPT ![m] =
              [@ EXCEPT !.pc = "submit", !.tries = 0, !.offer = offer, !.amount = sold,
                        !.isSold = isSold]]
        BY <4>1
      <4> DEFINE b == [auction[m] EXCEPT !.pc = "submit", !.tries = 0, !.offer = offer,
                                         !.amount = sold, !.isSold = isSold]
      <4>3. auction' = [auction EXCEPT ![m] = b]
        BY <4>2
      <4>4. b.pc = "submit" /\ b.gen = a.gen /\ b.id = a.id /\ b.due = a.due /\ b.ts = a.ts
        BY <2>2 DEF AuctionOK, AuctionFields
      <4> HIDE DEF b
      <4>5. Goes(a, b, now)
        BY <3>1, <4>4 DEF Goes, Busy
      <4> QED BY <2>3, <4>3, <4>5
    <3> QED BY <3>2, <3>3
  <2>13. CASE SubmitEnd(m)
    <3> DEFINE b == [auction[m] EXCEPT !.pc = "submitted"]
    <3>1. a.pc = "submit" /\ auction' = [auction EXCEPT ![m] = b]
      BY <2>13 DEF SubmitEnd, At
    <3>2. /\ b.pc = "submitted" /\ b.gen = a.gen /\ b.id = a.id /\ b.due = a.due /\ b.ts = a.ts
          /\ b.offer = a.offer
      BY <2>2 DEF AuctionOK, AuctionFields
    <3> HIDE DEF b
    <3>3. Goes(a, b, now)
      BY <3>1, <3>2 DEF Goes, Busy
    <3> QED BY <2>3, <3>1, <3>3
  <2>14. CASE Ended(m)
    <3> DEFINE msg == reply[m].msg
    <3>1. a.pc = "submitted" /\ (auction' = Finish(m, msg) \/ auction' = Continue(m, msg))
      BY <2>14 DEF Ended, At
    <3> HIDE DEF msg
    <3> QED BY <2>4, <2>5, <3>1
  <2>15. ASSUME NEW pc \in {"query", "submit"}, a.pc \in {"query", "submitted"},
                pc = "query" => a.pc = "query", CallFailed(m, pc)
         PROVE  Goes(auction[n], auction'[n], now)
    <3>1. CASE a.tries + 1 > MaxErrors
      BY <1>1, <2>15, <3>1 DEF CallFailed
    <3>2. CASE ~(a.tries + 1 > MaxErrors)
      <4> DEFINE tries == a.tries + 1
                 b == [auction[m] EXCEPT !.pc = pc, !.tries = tries]
      <4>1. auction' = [auction EXCEPT ![m] = b]
        BY <2>15, <3>2 DEF CallFailed
      <4> HIDE DEF tries
      <4>2. /\ b.pc = pc /\ b.gen = a.gen /\ b.id = a.id /\ b.due = a.due /\ b.ts = a.ts
            /\ b.offer = a.offer
        BY <2>2 DEF AuctionOK, AuctionFields
      <4> HIDE DEF b
      <4>3. Goes(a, b, now)
        BY <2>15, <4>2 DEF Goes, Busy
      <4> QED BY <2>3, <4>1, <4>3
    <3> QED BY <3>1, <3>2
  <2>16. CASE EndFailed(m) \/ QueryFailed(m)
    BY <2>15, <2>16 DEF EndFailed, QueryFailed, At
  <2> QED BY <2>1, <2>6, <2>7, <2>8, <2>9, <2>10, <2>11, <2>12, <2>13, <2>14, <2>16 DEF ProducerStep
<1>3. Producers \/ auction' = auction
  BY DEF MarketNext, House, Network, PriceUpdate, PlacingBids, BuyersPlace, Consumers
<1> QED BY <1>1, <1>2, <1>3

-----------------------------------------------------------------------------
(* What a step does to the ages and to what has been listed.                  *)

LEMMA AgesFollow ==
  ASSUME Grow, NEW m \in Makers
  PROVE  Aged(Doing(auction[m], now), Doing(auction'[m], now'), age[m], age'[m], now' - now)
<1>1. /\ DOMAIN Activity = Makers \cup Buyers /\ m \in DOMAIN Activity
      /\ Activity[m] = Doing(auction[m], now) /\ Activity'[m] = Doing(auction'[m], now')
  BY DEF Activity, MakerActivity, Doing
<1> QED BY <1>1 DEF Grow, Aged

LEMMA BuyersAge ==
  ASSUME Grow, NEW c \in Buyers
  PROVE  Aged(BuyerActivity(c), BuyerActivity(c)', age[c], age'[c], now' - now)
<1>1. /\ DOMAIN Activity = Makers \cup Buyers /\ c \in DOMAIN Activity
      /\ Activity[c] = BuyerActivity(c) /\ Activity'[c] = BuyerActivity(c)'
  BY HouseAssumption DEF Activity
<1> QED BY <1>1 DEF Grow, Aged

LEMMA AgesStayInTime ==
  ASSUME Grow, MarketNext, now \in Nat, NEW g \in Makers \cup Buyers, age[g] \in 0..Latency
  PROVE  age'[g] \in 0..Latency
<1>1. DOMAIN Activity = Makers \cup Buyers
  BY DEF Activity
<1>2. /\ now' - now = 1 /\ Activity[g] # "asleep" => age[g] < Latency
      /\ age'[g] = IF Activity'[g] = Activity[g] /\ Activity[g] # "asleep" THEN age[g] + (now' - now)
                   ELSE 0
  BY <1>1 DEF Grow
<1>3. now' = now \/ now' = now + 1
  BY StepIs
<1> QED BY <1>2, <1>3, TimelyAssumption

LEMMA ListsMore ==
  ASSUME Grow
  PROVE  /\ listed \subseteq listed'
         /\ \A m \in Makers : auction[m].pc = "query" /\ auction'[m].pc # "query" =>
              AuctionEndQuery(ws, auction[m].id, auction[m].ts) \subseteq listed'
<1>1. listed \subseteq listed'
  BY DEF Grow
<1>2. ASSUME NEW m \in Makers, auction[m].pc = "query", auction'[m].pc # "query"
      PROVE  AuctionEndQuery(ws, auction[m].id, auction[m].ts) \subseteq listed'
  <2>1. m \in {n \in Makers : Lists(n)}
    BY <1>2 DEF Lists
  <2> QED BY <2>1 DEF Grow
<1> QED BY <1>1, <1>2

-----------------------------------------------------------------------------
(* What a step does to the ledger.                                            *)

LEMMA TokensKeepAge ==
  ASSUME AnswerInv, MarketNext, NEW e \in Energies, ws[e] # Absent
  PROVE  ws'[e] # Absent /\ ws'[e].gen = ws[e].gen
<1>1. CASE \A k \in Energies \cup Bids : ws'[k] = ws[k]
  BY <1>1
<1>2. ASSUME NEW tx \in pool, Commit(tx) PROVE ws'[e] # Absent /\ ws'[e].gen = ws[e].gen
  <2>1. Fresh(tx) /\ ws'[e] = IF e \in DOMAIN tx.writes THEN tx.writes[e] ELSE ws[e]
    BY <1>2, CommitFacts, KeyKinds
  <2>2. CASE e \in DOMAIN tx.writes
    <3>1. tx.writes[e] \in HouseToken /\ tx.writes[e].gen = ws[e].gen
      BY <2>1, <2>2, TokenWritten
    <3> QED BY <2>1, <2>2, <3>1, NoRecordIsAbsent
  <2> QED BY <2>1, <2>2
<1> QED BY <1>1, <1>2, StepIs

\* The batch of a consumer with the bid b is accepted.
IsPlaced(b) ==
  /\ ws[b] = Absent /\ UNCHANGED <<auction, basket, charging>>
  /\ \E c \in Buyers : /\ basket[c].pc = "sent" /\ b \in DOMAIN basket[c].list
                       /\ basket[c].list[b] \in HouseBids
                       /\ ws'[b] = NewBid(basket[c].list[b])

\* A tick that is under way settles the bid b.
IsSettled(b) ==
  /\ ws[b] # Absent /\ ~Settled(ws[b]) /\ UNCHANGED <<auction, basket, charging>>
  /\ ws'[b] # Absent /\ ws'[b].energy = ws[b].energy /\ ws'[b].time = ws[b].time
  /\ ws'[b].status = "success"
  /\ \E m \in Makers : auction[m].pc = "submitted" /\
       \E i \in DOMAIN auction[m].offer : auction[m].offer[i].id = b

LEMMA AwardKeeps ==
  ASSUME NEW v \in HouseBid, NEW n, NEW u
  PROVE  LET w == AfterAward(v, n, u) IN
         w.energy = v.energy /\ w.time = v.time /\ w.status = "success"
BY DEF AfterAward, HouseBid

\* Without a failed call a bid is placed once and settled once.
LEMMA BidsMove ==
  ASSUME AwardsInv, faults = 0, MarketNext, NEW b \in Bids
  PROVE  ws'[b] = ws[b] \/ IsPlaced(b) \/ IsSettled(b)
<1>1. CASE \A k \in Energies \cup Bids : ws'[k] = ws[k]
  BY <1>1
<1>2. ASSUME NEW tx \in pool, Commit(tx), UNCHANGED <<auction, basket, charging>>,
             b \in DOMAIN tx.writes
      PROVE  IsPlaced(b) \/ IsSettled(b)
  <2>1. /\ AnswerInv /\ Fresh(tx) /\ Owned(tx) /\ Awaiting(tx) /\ tx.awaited
        /\ b \in Keys
        /\ \A k \in Keys : ws'[k] = IF k \in DOMAIN tx.writes THEN tx.writes[k] ELSE ws[k]
    BY <1>2, CommitFacts, KeyKinds DEF AwardsInv, AnswerInv, NothingForgotten
  <2>2. ws'[b] = tx.writes[b]
    BY <1>2, <2>1
  <2>3. ASSUME tx.req \in Placements, b \in DOMAIN tx.req.bidList, ws[b] = Absent,
               tx.writes[b] = NewBid(tx.req.bidList[b])
        PROVE  IsPlaced(b)
    <3> DEFINE c == tx.client
    <3>1. c \in Buyers /\ basket[c].pc = "sent" /\ tx.req = PlaceRequest(basket[c])
      BY <2>1, <2>3 DEF Owned, Awaiting
    <3>2. tx.req.bidList = basket[c].list
      BY <3>1 DEF PlaceRequest
    <3>3. basket[c].list \in HouseBatches
      BY <2>1, <3>1 DEF AnswerInv, FinalInv, HouseInv, BasketsOK, BasketOK
    <3>4. basket[c].list[b] \in HouseBids
      BY <2>3, <3>2, <3>3 DEF HouseBatches
    <3> HIDE DEF c
    <3> QED BY <1>2, <2>2, <2>3, <3>1, <3>2, <3>4 DEF IsPlaced
  <2>4. ASSUME tx.req \in Settlements, ws[b] # Absent, ws[b] \in HouseBid,
               NEW i \in DOMAIN tx.req.bidInput, tx.req.bidInput[i].id = b,
               tx.writes[b] = AfterAward(ws[b], tx.req.bidInput[i].amount,
                                         ws[tx.req.in.id].producer)
        PROVE  IsSettled(b)
    <3> DEFINE m == tx.client
    <3>1. Effective(tx)
      BY <1>2, <2>1, <2>4 DEF Effective, Fresh
    <3>2. /\ m \in Makers /\ auction[m].pc = "submitted" /\ tx.req = EndRequest(auction[m])
          /\ ~Settled(ws[b])
      BY <2>4, <3>1, NothingSettledTwice
    <3>3. tx.req.bidInput = auction[m].offer
      BY <3>2 DEF EndRequest
    <3>4. /\ ws'[b].energy = ws[b].energy /\ ws'[b].time = ws[b].time
          /\ ws'[b].status = "success"
      BY <2>2, <2>4, AwardKeeps
    <3>5. ws'[b] # Absent
      BY <1>2, <2>1, <2>4, BidStays
    <3> HIDE DEF m
    <3> QED BY <1>2, <2>4, <3>2, <3>3, <3>4, <3>5 DEF IsSettled
  <2> QED BY <1>2, <2>1, <2>3, <2>4, BidWritten
<1>3. ASSUME NEW tx \in pool, Commit(tx), b \notin DOMAIN tx.writes
      PROVE  ws'[b] = ws[b]
  <2>1. /\ b \in Keys
        /\ \A k \in Keys : ws'[k] = IF k \in DOMAIN tx.writes THEN tx.writes[k] ELSE ws[k]
    BY <1>3, CommitFacts, KeyKinds DEF AwardsInv
  <2> QED BY <1>3, <2>1
<1> QED BY <1>1, <1>2, <1>3, StepIs

-----------------------------------------------------------------------------
(* What is being settled.                                                     *)

\* A new offer is of bids that the tick has listed.
LEMMA OffersAreListed ==
  ASSUME HouseInv, NEW m \in Makers, Query(m), auction'[m].pc # "wait", auction'[m].pc # "done",
         NEW i \in DOMAIN auction'[m].offer, auction'[m].offer[i].id \in Bids
  PROVE  auction'[m].offer[i].id \in AuctionEndQuery(ws, auction[m].id, auction[m].ts)
<1> DEFINE a == auction[m]
           open == AuctionEndQuery(ws, a.id, a.ts)
<1>1. AuctionOK(a, m) /\ auction = [k \in Makers |-> auction[k]] /\ World(ws) /\ a.pc = "query"
  BY DEF HouseInv, AuctionsOK, Query, At
<1>2. CASE auction' = Continue(m, "no bids")
  <2> DEFINE why == "no bids"
  <2>1. auction' = Finish(m, why) \/ auction' = Waiting(m, why)
    BY <1>2 DEF Continue
  <2> HIDE DEF why
  <2>2. auction'[m].pc = "done" \/ auction'[m].pc = "wait"
    BY <1>1, <2>1 DEF Finish, Waiting, AuctionOK, AuctionFields
  <2> QED BY <2>2
<1>3. CASE auction' # Continue(m, "no bids")
  <2>1. PICK q \in Rankings(open, ws) :
                auction' = [auction EXCEPT ![m] =
                  [@ EXCEPT !.pc = "submit", !.tries = 0,
                            !.offer = IF open = {} THEN <<[id |-> OldId, amount |-> 0]>>
                                      ELSE Allocate(q, ws, Output[m]),
                            !.amount = Allocated(q, ws, Output[m]),
                            !.isSold = TakesAll(q, ws, Output[m])]]
    BY <1>3 DEF Query
  <2> DEFINE offer == IF open = {} THEN <<[id |-> OldId, amount |-> 0]>>
                      ELSE Allocate(q, ws, Output[m])
             sold == Allocated(q, ws, Output[m])
             isSold == TakesAll(q, ws, Output[m])
             b == [auction[m] EXCEPT !.pc = "submit", !.tries = 0, !.offer = offer,
                                     !.amount = sold, !.isSold = isSold]
  <2>2. auction' = [auction EXCEPT ![m] = b]
    BY <2>1
  <2>3. open \subseteq Bids /\ \A x \in open : ws[x] # Absent
    BY DEF AuctionEndQuery, BidsOn
  <2> HIDE DEF open, sold, isSold
  <2>4. auction'[m].offer = offer
    BY <1>1, <2>2 DEF AuctionOK, AuctionFields
  <2>5. CASE open = {}
    <3>1. \A x \in DOMAIN offer : offer[x].id = OldId
      BY <2>5
    <3> HIDE DEF offer
    <3> QED BY <2>4, <3>1, KeyKinds
  <2>6. CASE open # {}
    <3>1. IsFiniteSet(open) /\ OldId \notin open
      BY <2>3, FS_Subset, ContractAssumption
    <3>2. \A x \in open : ws[x].bidAmount \in Nat \ {0}
      BY <1>1, <2>3, Numbers DEF World, HouseBid
    <3>3. Output[m] \in Nat \ {0} /\ q \in Rankings(open, ws)
      BY Numbers
    <3>4. OffersInOrder(Allocate(q, ws, Output[m]), q, open, ws)
      BY <3>1, <3>2, <3>3, AllocationIsFair
    <3>5. OffersInOrder(offer, q, open, ws)
      BY <2>6, <3>4
    <3> HIDE DEF offer
    <3> QED BY <2>4, <3>5 DEF OffersInOrder, open
  <2> QED BY <2>5, <2>6
<1> QED BY <1>2, <1>3

LEMMA OffersByQuery ==
  ASSUME HouseInv, Producers, NEW m \in Makers,
         auction[m].pc = "query", auction'[m].pc \in {"submit", "submitted"}
  PROVE  Query(m)
<1>1. PICK n \in Makers : Produce(n) \/ ProducerStep(n) \/ QueryFailed(n)
  BY DEF Producers, ProducerNext
<1>2. AuctionOK(auction[m], m) /\ auction = [k \in Makers |-> auction[k]]
  BY DEF HouseInv, AuctionsOK
<1>3. n = m
  <2>1. SUFFICES ASSUME n # m PROVE FALSE
    OBVIOUS
  <2>2. auction'[m] = auction[m]
    BY <1>1, <1>2, <2>1 DEF Produce, ProducerStep, QueryFailed, CreateToken, Created, CreateFailed,
         EndTimer, Tick, TimeUp, Query, SubmitEnd, Ended, EndFailed, CallFailed, Continue, Finish,
         Waiting
  <2> QED BY <2>2
<1>4. Query(m) \/ TimeUp(m) \/ QueryFailed(m)
  BY <1>1, <1>3 DEF Produce, ProducerStep, CreateToken, Created, CreateFailed,
         EndTimer, Tick, SubmitEnd, Ended, EndFailed, At
<1>5. CASE TimeUp(m)
  <2>1. auction'[m].pc = "done"
    BY <1>2, <1>5 DEF TimeUp, Finish, AuctionOK, AuctionFields
  <2> QED BY <2>1
<1>6. CASE QueryFailed(m)
  <2> DEFINE tries == auction[m].tries + 1
  <2>1. auction' = auction \/ auction' = [auction EXCEPT ![m] = [@ EXCEPT !.pc = "query", !.tries = tries]]
    BY <1>6 DEF QueryFailed, CallFailed
  <2> HIDE DEF tries
  <2>2. auction'[m].pc = "query"
    BY <1>2, <2>1 DEF AuctionOK, AuctionFields
  <2> QED BY <2>2
<1> QED BY <1>4, <1>5, <1>6

\* A bid that is on the ledger keeps its time.
LEMMA TimesStay ==
  ASSUME AwardsInv, faults = 0, MarketNext, NEW b \in Bids, ws[b] # Absent
  PROVE  ws'[b] # Absent /\ ws'[b].time = ws[b].time /\ ws'[b].energy = ws[b].energy
BY BidsMove DEF IsPlaced, IsSettled

LEMMA OffersStayInTime ==
  ASSUME AwardsInv, faults = 0, MarketNext, Grow, NEW m \in Makers,
         OfferInTime(auction[m], ws, listed)
  PROVE  OfferInTime(auction'[m], ws', listed')
<1> DEFINE a == auction[m]
           z == auction'[m]
<1>1. HouseInv /\ World(ws) /\ Goes(a, z, now) /\ AuctionOK(a, m) /\ OfferSound(a)
  BY MakersGo DEF AwardsInv, AnswerInv, FinalInv, HouseInv, AuctionsOK
<1>2. CASE a.pc = "query" /\ z.pc \in {"submit", "submitted"}
  <2>1. Query(m)
    <3>1. auction' # auction
      BY <1>2
    <3>2. Producers
      BY <3>1 DEF MarketNext, House, Network, PriceUpdate, PlacingBids, BuyersPlace, Consumers
    <3> QED BY <1>1, <1>2, <3>2, OffersByQuery
  <2>2. z.ts = a.ts
    BY <1>1, <1>2 DEF Goes, Busy
  <2>3. ASSUME NEW i \in DOMAIN z.offer, z.offer[i].id \in Bids
        PROVE  z.offer[i].id \in listed' /\ z.ts =< ws'[z.offer[i].id].time + Window
    <3> DEFINE b == z.offer[i].id
    <3>1. b \in AuctionEndQuery(ws, a.id, a.ts)
      BY <1>1, <1>2, <2>1, <2>3, OffersAreListed
    <3>2. b \in listed'
      BY <1>2, <3>1, ListsMore
    <3>3. ws[b] # Absent /\ a.ts - Window <= ws[b].time
      BY <3>1 DEF AuctionEndQuery, BidsOn
    <3>4. ws[b].time \in Nat /\ a.ts \in Nat /\ Window \in Nat
      BY <1>1, <2>3, <3>3, Numbers, ContractAssumption DEF World, HouseBid, AuctionOK
    <3>5. ws'[b].time = ws[b].time
      BY <2>3, <3>3, TimesStay
    <3> QED BY <2>2, <3>2, <3>3, <3>4, <3>5
  <2> QED BY <2>3 DEF OfferInTime
<1>3. CASE ~(a.pc = "query") /\ z.pc \in {"submit", "submitted"}
  <2>1. a.pc \in {"submit", "submitted"} /\ z.ts = a.ts /\ z.offer = a.offer
    BY <1>1, <1>3 DEF Goes, Busy
  <2>2. ASSUME NEW i \in DOMAIN a.offer, a.offer[i].id \in Bids
        PROVE  a.offer[i].id \in listed' /\ a.ts =< ws'[a.offer[i].id].time + Window
    <3> DEFINE b == a.offer[i].id
    <3>1. b \in listed /\ a.ts <= ws[b].time + Window
      BY <2>1, <2>2 DEF OfferInTime
    <3>2. ws[b] # Absent
      BY <1>1, <2>1, <2>2, KeyKinds DEF OfferSound
    <3>3. ws'[b].time = ws[b].time
      BY <2>2, <3>2, TimesStay
    <3> QED BY <3>1, <3>3, ListsMore
  <2> QED BY <2>1, <2>2 DEF OfferInTime
<1> QED BY <1>2, <1>3 DEF OfferInTime

-----------------------------------------------------------------------------
(* The bids stay in time.                                                     *)

\* What the clock and the goroutines of the producers count.
TimedInv == now \in Nat /\ \A m \in Makers : Timings(auction[m], now)

LEMMA TimingsAre ==
  ASSUME AwardsInv, TypeOK
  PROVE  TimedInv
<1>1. ASSUME NEW m \in Makers PROVE Timings(auction[m], now)
  <2> DEFINE a == auction[m]
  <2>1. AuctionOK(a, m) /\ Timed(a)
    BY DEF AwardsInv, MakerOK, AnswerInv, FinalInv, HouseInv, AuctionsOK
  <2>2. a.pc \in {"idle", "create", "creating", "wait", "query", "submit", "submitted", "done"}
    BY DEF TypeOK, ProducerTypeOK
  <2> HIDE DEF a
  <2>3. a.gen \in Nat /\ a.ts \in Nat /\ a.ticks \in Nat /\ a.due \in Nat
    BY <2>1, Numbers DEF AuctionOK, Timed
  <2>4. a.pc \in Busy => a.ticks >= 1
    BY <2>1, TickTimes DEF Timed, Busy
  <2>5. Timings(a, now)
    BY <2>2, <2>3, <2>4 DEF Timings
  <2> QED BY <2>5 DEF a
<1>2. now \in Nat
  BY Numbers DEF AwardsInv, AnswerInv, FinalInv, HouseInv
<1> QED BY <1>1, <1>2 DEF TimedInv

LEMMA MakersStayInTime ==
  ASSUME Punctual, AwardsInv, TimedInv, TimedInv', MarketNext, Grow,
         NEW m \in Makers, age[m] \in 0..Latency, MakerInTime(auction[m], age[m], now)
  PROVE  MakerInTime(auction'[m], age'[m], now')
<1>1. Timings(auction[m], now) /\ now \in Nat
  BY DEF TimedInv
<1>2. Timings(auction'[m], now') /\ now' \in Nat
  BY DEF TimedInv
<1>3. Goes(auction[m], auction'[m], now)
  BY MakersGo DEF AwardsInv, AnswerInv, FinalInv
<1>4. now' = now \/ (now' = now + 1 /\ auction'[m] = auction[m])
  BY StepIs
<1>5. Aged(Doing(auction[m], now), Doing(auction'[m], now'), age[m], age'[m], now' - now)
  BY AgesFollow
<1> QED BY <1>1, <1>2, <1>3, <1>4, <1>5, MakerStaysInTime

\* A bid and its token.
LEMMA BidFacts ==
  ASSUME AwardsInv, NEW b \in Bids, ws[b] # Absent
  PROVE  /\ ws[b].energy \in Energies /\ ws[ws[b].energy] # Absent
         /\ ws[b].time \in Nat /\ ws[ws[b].energy].gen \in Nat
         /\ ~Settled(ws[b]) => ws[b].status = "bid"
         /\ ws[b].amount \in Nat
<1>1. World(ws) /\ BidsSound
  BY DEF AwardsInv, AnswerInv, FinalInv, HouseInv
<1>2. ws[b] \in HouseBid
  BY <1>1 DEF World
<1>3. ws[b].energy \in Energies /\ ws[ws[b].energy] # Absent
  BY <1>1, <1>2 DEF HouseBid, BidsSound
<1>4. ws[ws[b].energy] \in HouseToken
  BY <1>1, <1>3 DEF World
<1> QED BY <1>2, <1>3, <1>4, Numbers DEF HouseBid, HouseToken, Settled

\* A goroutine that auctions a token is as old as the token.
LEMMA TokenAge ==
  ASSUME AwardsInv, NEW m \in Makers,
         auction[m].pc \in {"creating", "wait", "query", "submit", "submitted"},
         ws[auction[m].id] # Absent
  PROVE  ws[auction[m].id].gen = auction[m].gen
BY DEF AwardsInv, AnswerInv, AgesOK, FinalInv, HouseInv, AuctionsOK, AuctionOK

LEMMA OldBidStaysToList ==
  ASSUME Punctual, AwardsInv, TimedInv, TimedInv', faults = 0, MarketNext, Grow, InTime,
         NEW b \in Bids, ws[b] # Absent, b \notin listed',
         NEW m \in Makers, auction'[m].id = ws[b].energy
  PROVE  StillToList(ws[b].time, auction'[m])
<1> DEFINE a == auction[m]
           z == auction'[m]
           time == ws[b].time
           e == ws[b].energy
<1>1. CASE z.pc \notin {"wait", "query", "submit", "submitted"}
  BY <1>1 DEF StillToList
<1>2. CASE z.pc \in {"wait", "query", "submit", "submitted"}
  <2>1. Goes(a, z, now)
    BY MakersGo DEF AwardsInv, AnswerInv, FinalInv
  <2>2. a.pc \in {"creating", "wait", "query", "submit", "submitted"} /\ a.id = e
    BY <1>2, <2>1, KeepsToken
  <2>3. /\ e \in Energies /\ ws[e] # Absent /\ time \in Nat /\ ws[e].gen <= time
        /\ b \notin listed /\ (~Settled(ws[b]) => ws[b].status = "bid")
    BY BidFacts, ListsMore DEF InTime, BidInTime
  <2>4. ~Settled(ws[b]) /\ StillToList(time, a)
    BY <2>2, <2>3 DEF InTime, BidInTime
  <2>5. a.gen <= time
    BY <2>2, <2>3, TokenAge
  <2>6. a.pc = "query" /\ z.pc # "query" => ~(a.ts - Window <= time /\ time < a.ts)
    <3>1. ASSUME a.pc = "query", z.pc # "query", a.ts - Window <= time, time < a.ts
          PROVE  b \in listed'
      <4>1. b \in AuctionEndQuery(ws, a.id, a.ts)
        BY <2>2, <2>3, <2>4, <3>1 DEF AuctionEndQuery, BidsOn
      <4> QED BY <3>1, <4>1, ListsMore
    <3> QED BY <3>1
  <2>7. Timings(a, now) /\ now \in Nat /\ Timings(z, now') /\ now' \in Nat
    BY DEF TimedInv
  <2>8. age[m] \in 0..Latency /\ MakerInTime(a, age[m], now)
    BY DEF InTime
  <2> HIDE DEF a, z, time
  <2>9. StillToList(time, z)
    BY <2>1, <2>3, <2>4, <2>5, <2>6, <2>7, <2>8, StaysToList
  <2> QED BY <2>9 DEF z, time
<1> QED BY <1>1, <1>2

LEMMA NewBidIsToList ==
  ASSUME AwardsInv, TimedInv, NEW m \in Makers, NEW time \in Nat, NEW g \in 0..Latency,
         now <= time + g, age[m] \in 0..Latency, MakerInTime(auction[m], age[m], now)
  PROVE  StillToList(time, auction[m])
<1>1. Timings(auction[m], now) /\ now \in Nat
  BY DEF TimedInv
<1> QED BY <1>1, ProducerAssumption, TimelyAssumption DEF Timings, MakerInTime, StillToList, Busy

LEMMA BidsStayInTime ==
  ASSUME Punctual, AwardsInv, TimedInv, TimedInv', faults = 0, MarketNext, Grow, InTime,
         NEW b \in Bids
  PROVE  BidInTime(b, ws', auction', listed')
<1>1. CASE ws[b] # Absent /\ (ws'[b] = ws[b] \/ IsSettled(b))
  <2>1. /\ ws'[b] # Absent /\ ws'[b].time = ws[b].time /\ ws'[b].energy = ws[b].energy
        /\ ws[b].energy \in Energies /\ ws[ws[b].energy] # Absent
    BY <1>1, TimesStay, BidFacts
  <2>2. ws'[ws[b].energy].gen = ws[ws[b].energy].gen
    BY <2>1, TokensKeepAge DEF AwardsInv
  <2>3. BidInTime(b, ws, auction, listed) /\ listed \subseteq listed'
    BY ListsMore DEF InTime
  <2>4. IF Settled(ws'[b]) THEN b \in listed' ELSE ws'[b].amount = 0
    <3>1. CASE ws'[b] = ws[b]
      BY <1>1, <2>3, <3>1 DEF BidInTime
    <3>2. CASE IsSettled(b)
      <4>1. PICK m \in Makers : auction[m].pc = "submitted" /\
              \E i \in DOMAIN auction[m].offer : auction[m].offer[i].id = b
        BY <3>2 DEF IsSettled
      <4>2. b \in listed
        BY <4>1 DEF InTime, OfferInTime
      <4>3. Settled(ws'[b])
        BY <3>2 DEF IsSettled, Settled
      <4> QED BY <2>3, <4>2, <4>3
    <3> QED BY <1>1, <3>1, <3>2
  <2>5. b \notin listed' =>
          \A m \in Makers : auction'[m].id = ws[b].energy => StillToList(ws[b].time, auction'[m])
    BY <1>1, OldBidStaysToList
  <2> QED BY <1>1, <2>1, <2>2, <2>3, <2>4, <2>5 DEF BidInTime
<1>2. CASE IsPlaced(b)
  <2>1. PICK c \in Buyers : /\ basket[c].pc = "sent" /\ b \in DOMAIN basket[c].list
                            /\ basket[c].list[b] \in HouseBids
                            /\ ws'[b] = NewBid(basket[c].list[b])
    BY <1>2 DEF IsPlaced
  <2> DEFINE v == basket[c].list[b]
  <2>2. /\ now <= v.time + age[c] /\ ws[v.energy] # Absent /\ ws[v.energy].gen <= v.time
        /\ age[c] \in 0..Latency
    BY <2>1 DEF InTime, BatchInTime
  <2>3. v.energy \in Energies /\ v.time \in Nat
    <3>1. v \in HouseBids
      BY <2>1
    <3> HIDE DEF v
    <3>2. v.energy \in Energies /\ v.time \in Clock
      BY <3>1 DEF HouseBids
    <3> QED BY <3>2, Numbers
  <2>4. /\ ws'[b].energy = v.energy /\ ws'[b].time = v.time /\ ws'[b].amount = 0
        /\ ws'[b].status = "bid"
    BY <2>1 DEF NewBid
  <2>5. ws'[v.energy].gen = ws[v.energy].gen
    BY <2>2, <2>3, TokensKeepAge DEF AwardsInv
  <2>6. \A m \in Makers : StillToList(v.time, auction'[m])
    <3>1. auction' = auction
      BY <1>2 DEF IsPlaced
    <3>2. ASSUME NEW m \in Makers PROVE StillToList(v.time, auction[m])
      <4> DEFINE time == v.time
      <4>1. time \in Nat /\ now <= time + age[c]
        BY <2>2, <2>3
      <4>2. age[m] \in 0..Latency /\ MakerInTime(auction[m], age[m], now) /\ age[c] \in 0..Latency
        BY <2>2 DEF InTime
      <4> HIDE DEF time
      <4>3. StillToList(time, auction[m])
        BY <4>1, <4>2, NewBidIsToList
      <4> QED BY <4>3 DEF time
    <3> QED BY <3>1, <3>2
  <2> HIDE DEF v
  <2> QED BY <2>2, <2>4, <2>5, <2>6 DEF BidInTime, Settled
<1>3. CASE ws[b] = Absent /\ ws'[b] = ws[b]
  BY <1>3 DEF BidInTime
<1> QED BY <1>1, <1>2, <1>3, BidsMove DEF IsSettled

-----------------------------------------------------------------------------
(* The batches stay in time.                                                  *)

LEMMA BatchesGo ==
  ASSUME MarketInv, MarketNext, NEW c \in Buyers, basket'[c].pc \in {"send", "sent"}
  PROVE  \/ basket[c].pc \in {"send", "sent"} /\ basket'[c].list = basket[c].list
         \/ Bidding(c)
<1>1. basket = [d \in Buyers |-> basket[d]] /\ \A d \in Buyers : BasketOK(basket[d])
  BY DEF MarketInv, AnswerInv, FinalInv, HouseInv, BasketsOK
<1>2. CASE basket'[c] = basket[c]
  BY <1>2
<1>3. CASE PlacingBids /\ basket'[c] # basket[c]
  <2>1. PICK d \in Buyers : BuyerStep(d)
    BY <1>3 DEF PlacingBids, BuyersPlace
  <2>2. \E k : basket' = [basket EXCEPT ![d] = k]
    BY <1>1, <2>1 DEF BuyerStep, SendBids, BidsPlaced, BidsFailed
  <2>3. d = c
    BY <1>1, <1>3, <2>2
  <2> DEFINE j == basket[c]
             tries == j.tries + 1
             sent == [j EXCEPT !.pc = "sent"]
             gone == [j EXCEPT !.pc = "idle", !.list = <<>>, !.tries = 0]
             taken == [j EXCEPT !.pc = "idle", !.list = <<>>, !.tries = 0,
                                !.placed = j.placed \cup DOMAIN j.list]
             again == [j EXCEPT !.pc = "send", !.tries = tries]
  <2>4. /\ j.pc \in {"send", "sent"}
        /\ \/ basket' = [basket EXCEPT ![c] = sent]
           \/ basket' = [basket EXCEPT ![c] = taken]
           \/ basket' = [basket EXCEPT ![c] = gone]
           \/ basket' = [basket EXCEPT ![c] = again]
    BY <1>1, <2>1, <2>3 DEF BuyerStep, SendBids, BidsPlaced, BidsFailed, Shopping
  <2>5. BasketOK(j)
    BY <1>1
  <2> HIDE DEF j, tries
  <2>6. gone.pc = "idle" /\ taken.pc = "idle" /\ sent.list = j.list /\ again.list = j.list
    BY <2>5 DEF BasketOK, BasketFields
  <2> HIDE DEF gone, taken, sent, again
  <2>7. basket'[c].list = j.list
    BY <1>1, <2>4, <2>6
  <2> QED BY <2>4, <2>7 DEF j
<1>4. CASE Consumers /\ basket'[c] # basket[c]
  <2>1. PICK d \in Buyers : PlaceBids(d)
    BY <1>4, QuietSteps DEF Consumers, vars
  <2>2. \E k : basket' = [basket EXCEPT ![d] = k]
    BY <2>1 DEF PlaceBids, StampBids
  <2>3. d = c
    BY <1>1, <1>4, <2>2
  <2> QED BY <2>1, <2>3, PlacingIsBidding
<1>5. House => basket' = basket
  BY DEF House, Network, Producers, PriceUpdate
<1> QED BY <1>2, <1>3, <1>4, <1>5 DEF MarketNext

\* A new batch carries the time, and is on tokens that are for sale.
LEMMA BiddingStamps ==
  ASSUME HouseInv, NEW c \in Buyers, Bidding(c), NEW b \in DOMAIN basket'[c].list
  PROVE  /\ basket'[c].list[b].time = now
         /\ basket'[c].list[b].energy \in Energies /\ ws[basket'[c].list[b].energy] # Absent
<1>0. PICK n \in 1..MaxBatch :
        \E wanted \in [1..n -> UNION {WantedOn(e) : e \in Market}] : StampBids(c, wanted)
  BY DEF Bidding
<1>1. PICK wanted \in [1..n -> UNION {WantedOn(e) : e \in Market}] : StampBids(c, wanted)
  BY <1>0
<1>2. basket = [d \in Buyers |-> basket[d]] /\ BasketOK(basket[c])
  BY DEF HouseInv, BasketsOK
<1>3. n \in Nat \ {0} /\ Len(wanted) = n
  BY HouseAssumption
<1> DEFINE ids == FreshIds(c, Len(wanted))
           bid(x) == wanted[CHOOSE i \in DOMAIN ids : ids[i] = x]
           stamped(x) == [energy |-> bid(x).energy, owner |-> bid(x).owner, cat |-> bid(x).cat,
                          bidAmount |-> bid(x).bidAmount, price |-> bid(x).price,
                          prio |-> bid(x).prio, time |-> now]
           list == [x \in {ids[i] : i \in DOMAIN ids} |-> stamped(x)]
           drawn == basket[c].drawn + Len(wanted)
           k == [basket[c] EXCEPT !.pc = "send", !.tries = 0, !.drawn = drawn, !.list = list]
<1>4. basket' = [basket EXCEPT ![c] = k]
  BY <1>1 DEF StampBids
<1>5. DOMAIN ids = 1..n
  <2> DEFINE d == basket[c].drawn
  <2>1. d \in Nat /\ d + n =< Len(BidIds[c]) /\ BidIds[c] \in Seq(Bids)
    BY <1>1, <1>2, <1>3, BuyerAssumption DEF BasketOK, StampBids
  <2>2. ids = SubSeq(BidIds[c], d + 1, d + n)
    BY <1>3 DEF FreshIds
  <2> HIDE DEF d, ids
  <2>3. \A i \in (d + 1)..(d + n) : BidIds[c][i] \in Bids
    BY <1>3, <2>1
  <2>4. ids \in Seq(Bids) /\ Len(ids) = (IF d + 1 =< d + n THEN (d + n) - (d + 1) + 1 ELSE 0)
    BY <1>3, <2>1, <2>2, <2>3, SubSeqProperties
  <2>5. Len(ids) = n
    BY <1>3, <2>1, <2>4
  <2> QED BY <2>4, <2>5
<1> HIDE DEF ids, drawn
<1>6. ASSUME NEW x \in DOMAIN list
      PROVE  list[x].time = now /\ list[x].energy \in Energies /\ ws[list[x].energy] # Absent
  <2> DEFINE j == CHOOSE i \in DOMAIN ids : ids[i] = x
  <2>1. x \in {ids[i] : i \in DOMAIN ids} /\ list[x] = stamped(x)
    BY <1>6
  <2>2. j \in DOMAIN ids
    BY <2>1
  <2>3. wanted[j] \in UNION {WantedOn(e) : e \in Market}
    BY <1>5, <2>2
  <2>4. list[x].time = now /\ list[x].energy = wanted[j].energy
    BY <2>1
  <2> HIDE DEF j, list
  <2>5. PICK e \in Market : wanted[j] \in WantedOn(e)
    BY <2>3
  <2>6. wanted[j].energy = e
    BY <2>5 DEF WantedOn
  <2> QED BY <2>4, <2>5, <2>6 DEF Market
<1> HIDE DEF list
<1>7. k.list = list
  BY <1>2 DEF BasketOK, BasketFields
<1> HIDE DEF k
<1>8. basket'[c].list = list
  BY <1>2, <1>4, <1>7
<1> QED BY <1>6, <1>8

LEMMA BatchesStayInTime ==
  ASSUME AwardsInv, MarketInv, TimedInv, MarketInv', MarketNext, Grow, InTime, NEW c \in Buyers
  PROVE  BatchInTime(basket'[c], age'[c], now', ws')
<1> DEFINE i == basket'[c]
           j == basket[c]
           g == age[c]
           h == age'[c]
<1>1. now \in Nat /\ (now' = now \/ now' = now + 1) /\ g \in 0..Latency /\ h \in 0..Latency
  <2>1. now \in Nat /\ g \in 0..Latency
    BY DEF InTime, TimedInv
  <2> QED BY <2>1, StepIs, AgesStayInTime
<1> SUFFICES ASSUME i.pc \in {"send", "sent"}, NEW b \in DOMAIN i.list
             PROVE  /\ now' <= i.list[b].time + h /\ ws'[i.list[b].energy] # Absent
                    /\ ws'[i.list[b].energy].gen <= i.list[b].time
  BY DEF BatchInTime
<1>2. CASE j.pc \in {"send", "sent"} /\ i.list = j.list
  <2> DEFINE v == j.list[b]
  <2>1. now <= v.time + g /\ ws[v.energy] # Absent /\ ws[v.energy].gen <= v.time
    BY <1>2 DEF InTime, BatchInTime
  <2>2. v.energy \in Energies /\ v.time \in Nat
    <3>1. j.list \in HouseBatches
      BY <1>2 DEF MarketInv, AnswerInv, FinalInv, HouseInv, BasketsOK, BasketOK
    <3>2. v \in HouseBids
      BY <1>2, <3>1 DEF HouseBatches
    <3> HIDE DEF v
    <3>3. v.energy \in Energies /\ v.time \in Clock
      BY <3>2 DEF HouseBids
    <3> QED BY <3>3, Numbers
  <2>3. charging[c].pc = "placing" /\ charging'[c].pc = "placing"
    BY <1>2 DEF MarketInv, ConsumerOK, Sending
  <2>4. h = g + (now' - now)
    <3>1. BuyerActivity(c) = "bid" /\ BuyerActivity(c)' = "bid"
      BY <2>3 DEF BuyerActivity
    <3> QED BY <3>1, BuyersAge DEF Aged
  <2>5. ws'[v.energy] # Absent /\ ws'[v.energy].gen = ws[v.energy].gen
    BY <2>1, <2>2, TokensKeepAge DEF AwardsInv
  <2>6. i.list[b] = v
    BY <1>2
  <2> HIDE DEF v, g, h
  <2>7. now' <= v.time + h
    BY <1>1, <2>1, <2>2, <2>4, TimelyAssumption
  <2> QED BY <2>1, <2>5, <2>6, <2>7
<1>3. CASE Bidding(c)
  <2>1. /\ i.list[b].time = now /\ i.list[b].energy \in Energies /\ ws[i.list[b].energy] # Absent
        /\ now' = now /\ ws' = ws
    BY <1>3, BiddingStamps DEF MarketInv, AnswerInv, FinalInv, Bidding, StampBids, gatewayVars
  <2> DEFINE e == i.list[b].energy
  <2>2. PICK m \in Makers : e \in TokenIds[m]
    BY <2>1 DEF AwardsInv, HasMaker
  <2>3. auction[m].pc # "idle" /\ ws[e].gen = auction[m].gen
    BY <2>1, <2>2 DEF AwardsInv, AnswerInv, AgesOK
  <2>4. auction[m].gen <= now
    BY <2>3 DEF InTime, MakerInTime
  <2>5. now' <= now + h
    BY <1>1, <2>1, TimelyAssumption
  <2> QED BY <2>1, <2>3, <2>4, <2>5
<1> QED BY <1>2, <1>3, BatchesGo

-----------------------------------------------------------------------------
LEMMA TimelyInvInit == TimelyInit => TimelyInv
<1> SUFFICES ASSUME TimelyInit PROVE TimelyInv
  OBVIOUS
<1>1. /\ now = 0 /\ auction = [m \in Makers |-> Idle] /\ basket = [c \in Buyers |-> EmptyBasket]
      /\ age = [g \in Makers \cup Buyers |-> 0] /\ listed = {}
      /\ ws = Apply(EmptyState, InitLedger(EmptyState).writes)
  BY DEF TimelyInit, MarketInit, Init, GatewayInit, ProducerInit, BuyerInit
<1>2. \A b \in Bids : ws[b] = Absent
  BY <1>1, KeyKinds DEF InitLedger, Result, Apply, EmptyState
<1>3. \A g \in Makers \cup Buyers : age[g] \in 0..Latency
  BY <1>1, TimelyAssumption
<1>4. \A m \in Makers : auction[m].pc = "idle" /\ auction[m].id = NoId
  BY <1>1 DEF Idle
<1>5. \A c \in Buyers : basket[c].pc = "idle"
  BY <1>1 DEF EmptyBasket
<1> QED BY <1>2, <1>3, <1>4, <1>5
        DEF TimelyInv, InTime, MakerInTime, OfferInTime, BidInTime, BatchInTime, Busy

LEMMA TimelyInvStep ==
  ASSUME Punctual, AwardsInv, MarketInv, TimedInv, AwardsInv', MarketInv', TimedInv', TimelyInv,
         [MarketNext /\ Grow]_timelyVars
  PROVE  TimelyInv'
<1>1. CASE UNCHANGED timelyVars
  BY <1>1 DEF timelyVars, marketVars, vars, TimelyInv, InTime, MakerInTime, OfferInTime,
              BidInTime, StillToList, BatchInTime
<1>2. CASE MarketNext /\ Grow
  <2>1. SUFFICES ASSUME faults' = 0 PROVE InTime'
    BY DEF TimelyInv
  <2>2. faults = 0 /\ now \in Nat
    <3>1. faults \in Nat /\ (faults' = faults \/ faults' = faults + 1) /\ now \in Nat
      BY <1>2, StepIs DEF AwardsInv, AnswerInv, TimedInv
    <3> QED BY <2>1, <3>1
  <2>3. InTime
    BY <2>2 DEF TimelyInv
  <2>4. \A g \in Makers \cup Buyers : age'[g] \in 0..Latency
    BY <1>2, <2>2, <2>3, AgesStayInTime DEF InTime
  <2>5. \A m \in Makers : MakerInTime(auction'[m], age'[m], now')
    BY <1>2, <2>3, MakersStayInTime DEF InTime
  <2>6. \A m \in Makers : OfferInTime(auction'[m], ws', listed')
    BY <1>2, <2>2, <2>3, OffersStayInTime DEF InTime
  <2>7. \A b \in Bids : BidInTime(b, ws', auction', listed')
    BY <1>2, <2>2, <2>3, BidsStayInTime
  <2>8. \A c \in Buyers : BatchInTime(basket'[c], age'[c], now', ws')
    BY <1>2, <2>3, BatchesStayInTime
  <2> QED BY <2>4, <2>5, <2>6, <2>7, <2>8 DEF InTime
<1> QED BY <1>1, <1>2

LEMMA MarketKeeps == MarketSpec => [](AwardsInv /\ MarketInv /\ TimedInv)
<1>1. AwardsInv /\ TypeOK => TimedInv
  BY TimingsAre
<1> QED BY <1>1, MarketInvHolds, MarketImplementsHouse, AwardsInvHolds, TypesHold, PTL
        DEF ImplementsHouse

LEMMA TimelyIsMarket == TimelySpec => MarketSpec
<1>1. TimelyInit => MarketInit
  BY DEF TimelyInit
<1>2. [MarketNext /\ Grow]_timelyVars => [MarketNext]_marketVars
  BY DEF timelyVars
<1> QED BY <1>1, <1>2, PTL DEF TimelySpec, MarketSpec

LEMMA TimelyInvHolds == ASSUME Punctual PROVE TimelySpec => []TimelyInv
<1>1. /\ AwardsInv /\ MarketInv /\ TimedInv /\ (AwardsInv /\ MarketInv /\ TimedInv)'
      /\ TimelyInv /\ [MarketNext /\ Grow]_timelyVars
      => TimelyInv'
  BY TimelyInvStep
<1> QED BY <1>1, TimelyInvInit, TimelyIsMarket, MarketKeeps, PTL DEF TimelySpec

LEMMA ListedInTime ==
  ASSUME Punctual, AwardsInv, TimedInv, InTime
  PROVE  NoBidIsMissed
<1> SUFFICES ASSUME NEW m \in Makers, NEW b \in Bids, auction[m].pc # "done",
                    ws[b] # Absent, ws[b].energy = auction[m].id, b \notin listed
             PROVE  now <= ws[b].time + Interval + 2 * Latency
  <2>1. \A d \in Bids : ws[d] # Absent => ws[d].time \in Nat
    BY BidFacts
  <2> QED BY <2>1, ProducerAssumption, TimelyAssumption DEF NoBidIsMissed, TimedInv
<1> DEFINE a == auction[m]
           g == age[m]
           time == ws[b].time
<1>1. /\ a.id \in Energies /\ ws[a.id] # Absent /\ time \in Nat /\ ws[a.id].gen <= time
      /\ StillToList(time, a)
  BY BidFacts DEF InTime, BidInTime
<1>2. Timings(a, now) /\ now \in Nat /\ g \in 0..Latency /\ MakerInTime(a, g, now)
  BY DEF InTime, TimedInv
<1>3. a.pc \notin {"idle", "create"}
  BY <1>1, <1>2, NoIdAssumption DEF MakerInTime
<1>4. a.pc = "creating" => a.gen <= time
  BY <1>1, TokenAge
<1> HIDE DEF a, g, time
<1>5. now <= time + Interval + 2 * Latency
  <2>1. CASE a.pc = "creating"
    BY <1>1, <1>2, <1>4, <2>1, ProducerAssumption, TimelyAssumption DEF MakerInTime, Timings
  <2>2. CASE a.pc = "wait"
    BY <1>1, <1>2, <2>2, ProducerAssumption, TimelyAssumption DEF MakerInTime, StillToList, Timings
  <2>3. CASE a.pc \in Busy
    BY <1>1, <1>2, <2>3, ProducerAssumption, TimelyAssumption
       DEF MakerInTime, StillToList, Timings, Busy
  <2>4. a.pc # "done"
    BY DEF a
  <2> QED BY <1>2, <1>3, <2>1, <2>2, <2>3, <2>4 DEF Timings, Busy
<1> QED BY <1>5 DEF time

\* As long as no call has failed, a tick looks back far enough to see every bid on
\* its token that the ticks before have not seen (smartcontract.go:425), when
\* calls take so long at most that 60 s and two of them fit in 75 s.
THEOREM BidsAreListed == ASSUME Punctual PROVE TimelySpec => [](faults = 0 => NoBidIsMissed)
<1>1. AwardsInv /\ MarketInv /\ TimedInv /\ TimelyInv => (faults = 0 => NoBidIsMissed)
  BY ListedInTime DEF TimelyInv
<1> QED BY <1>1, TimelyInvHolds, TimelyIsMarket, MarketKeeps, PTL

-----------------------------------------------------------------------------
(* What consumers count.                                                      *)

\* The results are read after the last tick whose window holds the bid, and the
\* call that settles it (90 s after the bid and 75 s in the code).
Patient == Window + Latency < CheckDelay

\* What becomes of the bid v is settled at the time t.
Closed(v, t) == Settled(v) \/ t > v.time + Window + Latency

\* The bids, of those it knows to be placed, that a consumer has read.
Read(k, placed) == placed \ (k.success \cup k.batch)

\* What is read is what it has charged, and what it has got in this round.
CountsAll(k, placed, s, t) ==
  /\ \A b \in Read(k, placed) : Closed(s[b], t)
  /\ k.charged = k.start + Total(Amounts(s), Read(k, placed))

Awaits(k, s, t) ==
  k.pc = "check" =>
    /\ k.unread \subseteq k.success /\ k.wake \in Nat
    /\ \A b \in k.success : s[b].time + CheckDelay <= k.wake
    /\ \A b \in k.success \ k.unread : Closed(s[b], t)
    /\ k.got = Total(Amounts(s), k.success \ k.unread)

CountInv ==
  faults = 0 => \A c \in Buyers :
    CountsAll(charging[c], basket[c].placed, ws, now) /\ Awaits(charging[c], ws, now)

\* A step of a consumer that reads nothing.
ReadsNothing(k, n, placed) ==
  /\ n.pc # "check" /\ n.charged = k.charged /\ Read(n, placed) = Read(k, placed)

\* The step that starts to wait for the results.
StartsToWait(k, n, s) ==
  /\ k.pc = "bid" /\ n.charged = k.charged /\ n.success = k.success /\ n.batch = k.batch
  /\ n.unread = n.success /\ n.got = 0 /\ n.wake \in Nat
  /\ \A b \in n.success : s[b].time + CheckDelay <= n.wake

\* The step that reads the result of one bid.
ReadsOne(k, n, s, t) ==
  /\ k.pc = "check" /\ n.charged = k.charged /\ n.success = k.success /\ n.batch = k.batch
  /\ n.wake = k.wake /\ k.wake <= t
  /\ \E b \in k.unread : /\ n.unread = k.unread \ {b}
                         /\ n.got = k.got + (IF s[b].status = "success" THEN s[b].amount ELSE 0)

\* The step that charges what was won.
ChargesAll(k, n) ==
  /\ k.pc = "check" /\ n.pc = "rest" /\ k.unread = {} /\ n.charged = k.charged + k.got
  /\ n.success = {} /\ n.batch = {} /\ k.batch = {}

Counting(k, n, placed, s, t) ==
  /\ n.start = k.start
  /\ \/ ReadsNothing(k, n, placed)
     \/ StartsToWait(k, n, s)
     \/ ReadsOne(k, n, s, t)
     \/ ChargesAll(k, n)

\* What a step of its own makes of what a consumer has counted.
LEMMA CountMoves ==
  ASSUME Patient, NEW s, World(s), NEW t \in Nat, NEW placed \in SUBSET Bids,
         \A b \in placed : s[b] # Absent, NEW k, NEW n,
         k.start \in Nat, k.charged \in Nat, k.got \in Nat, k.success \subseteq placed,
         k.pc # "placing" => k.batch = {},
         Counting(k, n, placed, s, t), CountsAll(k, placed, s, t), Awaits(k, s, t)
  PROVE  CountsAll(n, placed, s, t) /\ Awaits(n, s, t)
<1> DEFINE won(S) == Total(Amounts(s), S)
<1>1. \A b \in placed : s[b].time \in Nat
  BY Numbers DEF World, HouseBid
<1>2. \A S \in SUBSET Bids : won(S) \in Nat
  BY AmountsAdd, TotalFacts
<1>3. won({}) = 0
  <2>1. {} \in SUBSET Bids
    OBVIOUS
  <2> QED BY <2>1, AmountsAdd, TotalFacts
<1>4. n.start = k.start
  BY DEF Counting
<1>5. CASE ReadsNothing(k, n, placed)
  BY <1>4, <1>5 DEF ReadsNothing, CountsAll, Awaits
<1>6. CASE StartsToWait(k, n, s)
  <2>1. Read(n, placed) = Read(k, placed)
    BY <1>6 DEF StartsToWait, Read
  <2>2. CountsAll(n, placed, s, t)
    BY <1>4, <1>6, <2>1 DEF StartsToWait, CountsAll
  <2>3. n.success \ n.unread = {}
    BY <1>6 DEF StartsToWait
  <2>4. n.got = Total(Amounts(s), n.success \ n.unread)
    BY <1>3, <1>6, <2>3 DEF StartsToWait
  <2>5. Awaits(n, s, t)
    BY <1>6, <2>3, <2>4 DEF StartsToWait, Awaits
  <2> QED BY <2>2, <2>5
<1>7. CASE ReadsOne(k, n, s, t)
  <2>1. PICK b \in k.unread :
          /\ n.unread = k.unread \ {b}
          /\ n.got = k.got + (IF s[b].status = "success" THEN s[b].amount ELSE 0)
    BY <1>7 DEF ReadsOne
  <2>2. /\ k.unread \subseteq k.success /\ k.wake \in Nat /\ s[b].time + CheckDelay <= k.wake
        /\ \A x \in k.success \ k.unread : Closed(s[x], t)
        /\ k.got = won(k.success \ k.unread)
    BY <1>7 DEF ReadsOne, Awaits
  <2>3. Read(n, placed) = Read(k, placed) /\ CountsAll(n, placed, s, t)
    <3>1. Read(n, placed) = Read(k, placed)
      BY <1>7 DEF ReadsOne, Read
    <3> QED BY <1>4, <1>7, <3>1 DEF ReadsOne, CountsAll
  <2>4. b \in placed /\ b \in Bids /\ s[b] # Absent
    BY <2>1, <2>2
  <2>5. Closed(s[b], t)
    <3>1. s[b].time + CheckDelay <= t
      BY <1>1, <1>7, <2>2, <2>4, ConsumerAssumption DEF ReadsOne
    <3>2. Window \in Nat /\ Latency \in Nat /\ CheckDelay \in Nat /\ s[b].time \in Nat
      BY <1>1, <2>4, ContractAssumption, TimelyAssumption, ConsumerAssumption
    <3> QED BY <3>1, <3>2 DEF Closed, Patient
  <2> DEFINE X == k.success \ k.unread
             Y == n.success \ n.unread
             a == Amounts(s)[b]
  <2>6. Y = X \cup {b} /\ b \notin X /\ Y \ {b} = X /\ b \in Y /\ Y \in SUBSET Bids
    BY <1>7, <2>1, <2>2 DEF ReadsOne
  <2>7. a = (IF s[b].status = "success" THEN s[b].amount ELSE 0)
    BY <2>4 DEF Amounts, Settled
  <2>8. n.got = won(Y)
    <3> DEFINE before == won(X)
               after == won(Y)
    <3>1. after = a + before
      BY <2>6, AmountsAdd, TotalFacts
    <3>2. a \in Nat
      BY <2>4, AmountsAdd DEF Summable
    <3>3. n.got = k.got + a /\ k.got = before
      BY <2>1, <2>2, <2>6, <2>7
    <3>4. n.got = after
      <4> HIDE DEF before, after, a
      <4> QED BY <3>1, <3>2, <3>3
    <3> QED BY <3>4
  <2>9. Awaits(n, s, t)
    <3>1. n.unread \subseteq n.success /\ n.wake \in Nat /\ n.success = k.success /\ n.wake = k.wake
      BY <1>7, <2>1, <2>2 DEF ReadsOne
    <3>2. \A x \in n.success : s[x].time + CheckDelay <= n.wake
      BY <1>7, <3>1 DEF ReadsOne, Awaits
    <3>3. \A x \in n.success \ n.unread : Closed(s[x], t)
      BY <2>2, <2>5, <2>6
    <3> QED BY <2>8, <3>1, <3>2, <3>3 DEF Awaits
  <2> QED BY <2>3, <2>9
<1>8. CASE ChargesAll(k, n)
  <2> DEFINE R == Read(k, placed)
             S == k.success
  <2>1. Read(n, placed) = R \cup S /\ R \cap S = {} /\ R \cup S \in SUBSET Bids /\ R \in SUBSET Bids
    BY <1>8 DEF ChargesAll, Read
  <2>2. (\A b \in S : Closed(s[b], t)) /\ k.got = won(S)
    <3>1. S \ k.unread = S /\ k.pc = "check"
      BY <1>8 DEF ChargesAll
    <3> QED BY <3>1 DEF Awaits
  <2>3. \A b \in R \cup S : Closed(s[b], t)
    BY <2>2 DEF CountsAll
  <2>4. won(R \cup S) = won(R) + won(S)
    BY <2>1, AmountsAdd, TotalOfTwo
  <2>5. n.charged = n.start + won(R \cup S)
    <3> DEFINE before == won(R)
               got == won(S)
               after == won(R \cup S)
    <3>1. n.charged = k.charged + k.got /\ k.charged = k.start + before /\ k.got = got
      BY <1>8, <2>2 DEF ChargesAll, CountsAll
    <3>2. before \in Nat /\ after = before + got
      BY <1>2, <2>1, <2>4
    <3>3. n.charged = n.start + after
      <4> HIDE DEF before, got, after
      <4> QED BY <1>4, <3>1, <3>2
    <3> QED BY <3>3
  <2>6. n.pc # "check"
    BY <1>8 DEF ChargesAll
  <2> QED BY <2>1, <2>3, <2>5, <2>6 DEF CountsAll, Awaits
<1> QED BY <1>5, <1>6, <1>7, <1>8 DEF Counting

\* What a step of the others leaves of what a consumer has counted.
LEMMA CountStays ==
  ASSUME NEW s, World(s), NEW z, NEW t, NEW u, NEW placed \in SUBSET Bids, NEW k,
         \A b \in placed : /\ z[b].time = s[b].time
                           /\ Closed(s[b], t) => /\ Closed(z[b], u)
                                                 /\ Amounts(z)[b] = Amounts(s)[b],
         NEW known, Read(k, known) = Read(k, placed), k.success \subseteq placed,
         CountsAll(k, placed, s, t), Awaits(k, s, t)
  PROVE  CountsAll(k, known, z, u) /\ Awaits(k, z, u)
<1>1. ASSUME NEW S \in SUBSET placed, \A b \in S : Closed(s[b], t)
      PROVE  (\A b \in S : Closed(z[b], u)) /\ Total(Amounts(z), S) = Total(Amounts(s), S)
  <2>1. S \in SUBSET Bids /\ \A b \in S : Amounts(s)[b] = Amounts(z)[b]
    BY <1>1
  <2>2. Summable(Amounts(s), S)
    BY <2>1, AmountsAdd
  <2>3. Total(Amounts(z), S) = Total(Amounts(s), S)
    BY <2>1, <2>2, TotalSame
  <2> QED BY <1>1, <2>3
<1>2. CountsAll(k, known, z, u)
  <2>1. Read(k, placed) \in SUBSET placed
    BY DEF Read
  <2> QED BY <1>1, <2>1 DEF CountsAll
<1>3. Awaits(k, z, u)
  <2>1. k.success \ k.unread \in SUBSET placed
    OBVIOUS
  <2> QED BY <1>1, <2>1 DEF Awaits
<1> QED BY <1>2, <1>3

\* No tick settles a bid after its results may have been read.
LEMMA ClosedStaysClosed ==
  ASSUME AwardsInv, TimedInv, faults = 0, MarketNext, InTime,
         NEW b \in Bids, ws[b] # Absent, Closed(ws[b], now)
  PROVE  Closed(ws'[b], now') /\ Amounts(ws')[b] = Amounts(ws)[b]
<1>1. CASE ws'[b] = ws[b]
  <2>1. ws[b].time \in Nat /\ now \in Nat /\ (now' = now \/ now' = now + 1)
    BY BidFacts, StepIs DEF TimedInv
  <2>2. Window \in Nat /\ Latency \in Nat
    BY ContractAssumption, TimelyAssumption
  <2>3. Closed(ws'[b], now')
    BY <1>1, <2>1, <2>2 DEF Closed
  <2>4. Amounts(ws')[b] = Amounts(ws)[b]
    BY <1>1 DEF Amounts
  <2> QED BY <2>3, <2>4
<1>2. ~IsSettled(b)
  <2>1. SUFFICES ASSUME IsSettled(b) PROVE FALSE
    OBVIOUS
  <2>2. PICK m \in Makers : auction[m].pc = "submitted" /\
          \E i \in DOMAIN auction[m].offer : auction[m].offer[i].id = b
    BY <2>1 DEF IsSettled
  <2>3. auction[m].ts <= ws[b].time + Window
    BY <2>2 DEF InTime, OfferInTime
  <2>4. now <= auction[m].ts + age[m] /\ age[m] \in 0..Latency
    BY <2>2 DEF InTime, MakerInTime, Busy
  <2>5. now > ws[b].time + Window + Latency
    BY <2>1 DEF IsSettled, Closed
  <2>6. ws[b].time \in Nat /\ now \in Nat /\ auction[m].ts \in Nat
    BY BidFacts DEF TimedInv, Timings
  <2>7. Window \in Nat /\ Latency \in Nat
    BY ContractAssumption, TimelyAssumption
  <2> QED BY <2>3, <2>4, <2>5, <2>6, <2>7
<1> QED BY <1>1, <1>2, BidsMove DEF IsPlaced

\* What is known to be placed grows by the batch that has returned.
LEMMA PlacedGrows ==
  ASSUME MarketInv, MarketNext, NEW c \in Buyers
  PROVE  \/ basket'[c].placed = basket[c].placed
         \/ /\ charging' = charging /\ charging[c].pc = "placing"
            /\ basket'[c].placed = basket[c].placed \cup charging[c].batch
<1>1. basket = [d \in Buyers |-> basket[d]] /\ \A d \in Buyers : BasketOK(basket[d])
  BY DEF MarketInv, AnswerInv, FinalInv, HouseInv, BasketsOK
<1>2. CASE basket'[c] = basket[c]
  BY <1>2
<1>3. CASE PlacingBids /\ basket'[c] # basket[c]
  <2>1. PICK d \in Buyers : BuyerStep(d)
    BY <1>3 DEF PlacingBids, BuyersPlace
  <2>2. \E k : basket' = [basket EXCEPT ![d] = k]
    BY <1>1, <2>1 DEF BuyerStep, SendBids, BidsPlaced, BidsFailed
  <2>3. d = c
    BY <1>1, <1>3, <2>2
  <2> DEFINE j == basket[c]
             tries == j.tries + 1
             more == j.placed \cup DOMAIN j.list
             sent == [j EXCEPT !.pc = "sent"]
             gone == [j EXCEPT !.pc = "idle", !.list = <<>>, !.tries = 0]
             taken == [j EXCEPT !.pc = "idle", !.list = <<>>, !.tries = 0, !.placed = more]
             again == [j EXCEPT !.pc = "send", !.tries = tries]
  <2>4. \/ basket' = [basket EXCEPT ![c] = sent]
        \/ basket' = [basket EXCEPT ![c] = taken] /\ j.pc = "sent"
        \/ basket' = [basket EXCEPT ![c] = gone]
        \/ basket' = [basket EXCEPT ![c] = again]
    BY <1>1, <2>1, <2>3 DEF BuyerStep, SendBids, BidsPlaced, BidsFailed, Shopping
  <2>5. BasketOK(j)
    BY <1>1
  <2>6. j.pc = "sent" => /\ charging[c].pc = "placing"
                         /\ more = basket[c].placed \cup charging[c].batch
    BY ConsumerIs DEF ConsumerOK, Sending
  <2> HIDE DEF j, tries, more
  <2>7. gone.placed = j.placed /\ taken.placed = more /\ sent.placed = j.placed /\ again.placed = j.placed
    BY <2>5 DEF BasketOK, BasketFields
  <2> HIDE DEF gone, taken, sent, again
  <2>8. basket'[c].placed = j.placed \/ (basket'[c].placed = more /\ j.pc = "sent")
    BY <1>1, <2>4, <2>7
  <2>9. charging' = charging
    BY <1>3 DEF PlacingBids
  <2> QED BY <2>6, <2>8, <2>9 DEF j
<1>4. CASE Consumers /\ basket'[c] # basket[c]
  <2>1. PICK d \in Buyers : PlaceBids(d)
    BY <1>4, QuietSteps DEF Consumers, vars
  <2>2. \E k : basket' = [basket EXCEPT ![d] = k]
    BY <2>1 DEF PlaceBids, StampBids
  <2>3. d = c
    BY <1>1, <1>4, <2>2
  <2> DEFINE j == basket[c]
  <2>4. PICK drawn, list : basket' = [basket EXCEPT ![c] =
          [j EXCEPT !.pc = "send", !.tries = 0, !.drawn = drawn, !.list = list]]
    BY <2>1, <2>3 DEF PlaceBids, StampBids
  <2> DEFINE i == [j EXCEPT !.pc = "send", !.tries = 0, !.drawn = drawn, !.list = list]
  <2>5. basket'[c] = i /\ BasketOK(j)
    BY <1>1, <2>4
  <2> HIDE DEF j
  <2>6. i.placed = j.placed
    BY <2>5 DEF BasketOK, BasketFields
  <2> HIDE DEF i
  <2> QED BY <2>5, <2>6 DEF j
<1>5. House => basket' = basket
  BY DEF House, Network, Producers, PriceUpdate
<1> QED BY <1>2, <1>3, <1>4, <1>5 DEF MarketNext

LEMMA ReadStays ==
  ASSUME MarketInv, MarketNext, NEW c \in Buyers
  PROVE  Read(charging[c], basket'[c].placed) = Read(charging[c], basket[c].placed)
<1>1. CASE basket'[c].placed = basket[c].placed
  BY <1>1
<1>2. CASE basket'[c].placed = basket[c].placed \cup charging[c].batch
  BY <1>2 DEF Read
<1> QED BY <1>1, <1>2, PlacedGrows

\* n differs from k in nothing that is counted.
SameCount(k, n) ==
  /\ n.pc # "check" /\ n.start = k.start /\ n.charged = k.charged
  /\ n.success = k.success /\ n.batch = k.batch

LEMMA IdleStepsCountNothing ==
  ASSUME MarketInv, NEW c \in Buyers,
         \/ Begin(c) \/ Satisfied(c) \/ Stop(c) \/ Rested(c)
         \/ Search(c) \/ Ask(c) \/ AskFails(c) \/ Rank(c)
  PROVE  \E n : Become(c, n) /\ SameCount(charging[c], n)
<1> DEFINE k == charging[c]
<1>1. DOMAIN k = ChargeFields
  BY ConsumerIs DEF Purse
<1>2. ASSUME NEW n, Become(c, n), SameCount(k, n)
      PROVE  \E i : Become(c, i) /\ SameCount(charging[c], i)
  BY <1>2
<1>3. ASSUME NEW p, p # "check", Become(c, [k EXCEPT !.pc = p])
      PROVE  \E i : Become(c, i) /\ SameCount(charging[c], i)
  <2> DEFINE n == [k EXCEPT !.pc = p]
  <2>1. Become(c, n)
    BY <1>3
  <2> HIDE DEF k
  <2>2. SameCount(k, n)
    BY <1>1, <1>3 DEF ChargeFields, SameCount
  <2> HIDE DEF n
  <2> QED BY <1>2, <2>1, <2>2
<1>4. CASE Begin(c) \/ Satisfied(c) \/ Stop(c)
  <2>1. Become(c, [k EXCEPT !.pc = "round"]) \/ Become(c, [k EXCEPT !.pc = "done"])
    BY <1>4 DEF Begin, Satisfied, Stop
  <2> HIDE DEF k
  <2> QED BY <1>3, <2>1
<1>5. CASE Rested(c)
  <2> DEFINE n == [k EXCEPT !.pc = "round", !.wake = 0]
  <2>1. Become(c, n)
    BY <1>5 DEF Rested
  <2> HIDE DEF k
  <2>2. SameCount(k, n)
    BY <1>1 DEF ChargeFields, SameCount
  <2> HIDE DEF n
  <2> QED BY <1>2, <2>1, <2>2
<1>6. CASE Search(c)
  <2>1. PICK r, a : Become(c, [k EXCEPT !.pc = "ask", !.requested = r, !.toAsk = a])
    BY <1>6 DEF Search
  <2> DEFINE n == [k EXCEPT !.pc = "ask", !.requested = r, !.toAsk = a]
  <2>2. Become(c, n)
    BY <2>1
  <2> HIDE DEF k
  <2>3. SameCount(k, n)
    BY <1>1 DEF ChargeFields, SameCount
  <2> HIDE DEF n
  <2> QED BY <1>2, <2>2, <2>3
<1>7. CASE Ask(c) \/ AskFails(c)
  <2>1. k.pc = "ask"
    BY <1>7 DEF Ask, AskFails, In
  <2>2. PICK a, f : Become(c, [k EXCEPT !.toAsk = a, !.fine = f])
    <3>1. CASE Ask(c)
      <4>1. PICK e \in k.toAsk : \E ok : Become(c, [k EXCEPT
               !.toAsk = @ \ {e}, !.fine = IF ok THEN @ \cup {e} ELSE @])
        BY <3>1 DEF Ask
      <4>2. PICK ok : Become(c, [k EXCEPT !.toAsk = @ \ {e}, !.fine = IF ok THEN @ \cup {e} ELSE @])
        BY <4>1
      <4> DEFINE a == k.toAsk \ {e}
                 f == IF ok THEN k.fine \cup {e} ELSE k.fine
      <4>3. Become(c, [k EXCEPT !.toAsk = a, !.fine = f])
        BY <4>2
      <4> HIDE DEF a, f
      <4> QED BY <4>3
    <3>2. CASE AskFails(c)
      <4>1. PICK e \in k.toAsk : Become(c, [k EXCEPT !.toAsk = @ \ {e}, !.fine = @ \cup {e}])
        BY <3>2 DEF AskFails
      <4> DEFINE a == k.toAsk \ {e}
                 f == k.fine \cup {e}
      <4>2. Become(c, [k EXCEPT !.toAsk = a, !.fine = f])
        BY <4>1
      <4> HIDE DEF a, f
      <4> QED BY <4>2
    <3> QED BY <1>7, <3>1, <3>2
  <2> DEFINE n == [k EXCEPT !.toAsk = a, !.fine = f]
  <2>3. Become(c, n)
    BY <2>2
  <2> HIDE DEF k
  <2>4. SameCount(k, n)
    BY <1>1, <2>1 DEF ChargeFields, SameCount
  <2> HIDE DEF n
  <2> QED BY <1>2, <2>3, <2>4
<1>8. CASE Rank(c)
  <2>1. PICK q : Become(c, [k EXCEPT !.pc = "bid", !.fine = {}, !.valid = q,
                                     !.left = charging[c].requested])
    BY <1>8 DEF Rank
  <2> DEFINE r == k.requested
             n == [k EXCEPT !.pc = "bid", !.fine = {}, !.valid = q, !.left = r]
  <2>2. Become(c, n)
    BY <2>1
  <2> HIDE DEF k, r
  <2>3. SameCount(k, n)
    BY <1>1 DEF ChargeFields, SameCount
  <2> HIDE DEF n
  <2> QED BY <1>2, <2>2, <2>3
<1> QED BY <1>4, <1>5, <1>6, <1>7, <1>8

\* A batch that starts or has returned is not read.
LEMMA BatchesCountNothing ==
  ASSUME MarketInv, MarketInv', NEW c \in Buyers, PlaceBids(c) \/ BatchReturned(c),
         basket'[c].placed = basket[c].placed
  PROVE  Counting(charging[c], charging'[c], basket[c].placed, ws, now)
<1> DEFINE k == charging[c]
           placed == basket[c].placed
<1>1. /\ DOMAIN k = ChargeFields /\ (k.pc # "placing" => k.batch = {})
      /\ charging = [d \in Buyers |-> charging[d]]
  BY ConsumerIs DEF Purse, MarketInv
<1>2. CASE PlaceBids(c)
  <2>1. PICK b, q : k.pc = "bid" /\ Become(c, [k EXCEPT !.pc = "placing", !.batch = b, !.valid = q])
    <3> DEFINE b == DOMAIN basket'[c].list
               q == SubSeq(k.valid, TokenCount(c) + 1, Len(k.valid))
    <3>1. k.pc = "bid" /\ Become(c, [k EXCEPT !.pc = "placing", !.batch = b, !.valid = q])
      BY <1>2 DEF PlaceBids, In
    <3> HIDE DEF b, q
    <3> QED BY <3>1
  <2> DEFINE n == [k EXCEPT !.pc = "placing", !.batch = b, !.valid = q]
  <2>2. charging'[c] = n
    BY <1>1, <2>1 DEF Become
  <2>3. basket'[c].pc = "send"
    <3>1. basket = [d \in Buyers |-> basket[d]] /\ BasketOK(basket[c])
      BY DEF MarketInv, AnswerInv, FinalInv, HouseInv, BasketsOK
    <3>2. PICK drawn, list : basket' = [basket EXCEPT ![c] =
            [@ EXCEPT !.pc = "send", !.tries = 0, !.drawn = drawn, !.list = list]]
      BY <1>2 DEF PlaceBids, StampBids
    <3> QED BY <3>1, <3>2 DEF BasketOK, BasketFields
  <2> HIDE DEF k
  <2>4. /\ n.pc = "placing" /\ n.start = k.start /\ n.charged = k.charged /\ n.success = k.success
    BY <1>1 DEF ChargeFields
  <2> HIDE DEF n
  <2>5. n.batch \cap placed = {}
    <3>1. ConsumerOK(n, basket'[c], reply'[c], c, ws')
      BY <2>2 DEF MarketInv
    <3> QED BY <2>3, <2>4, <3>1 DEF ConsumerOK, Sending
  <2>6. Read(n, placed) = Read(k, placed)
    BY <1>1, <2>1, <2>4, <2>5 DEF Read
  <2>7. Counting(k, n, placed, ws, now)
    BY <2>4, <2>6 DEF Counting, ReadsNothing
  <2> QED BY <2>2, <2>7 DEF k
<1>3. CASE BatchReturned(c)
  <2> DEFINE win == k.success \cup (k.batch \cap placed)
             left == k.left - Asks(k.batch \cap placed)
             n == [k EXCEPT !.pc = "bid", !.batch = {}, !.success = win, !.left = left]
  <2>1. Become(c, n)
    BY <1>3 DEF BatchReturned
  <2>2. charging'[c] = n
    BY <1>1, <2>1 DEF Become
  <2>3. win = k.success \cup (k.batch \cap placed)
    OBVIOUS
  <2> HIDE DEF k, win, left
  <2>4. /\ n.pc = "bid" /\ n.start = k.start /\ n.charged = k.charged
        /\ n.success = win /\ n.batch = {}
    BY <1>1 DEF ChargeFields
  <2> HIDE DEF n
  <2>5. Read(n, placed) = Read(k, placed)
    BY <2>3, <2>4 DEF Read
  <2>6. Counting(k, n, placed, ws, now)
    BY <2>4, <2>5 DEF Counting, ReadsNothing
  <2> QED BY <2>2, <2>6 DEF k
<1> QED BY <1>2, <1>3

\* The results of a round are due 90 s after the last of its bids.
LEMMA RoundsAwaitResults ==
  ASSUME MarketInv, NEW c \in Buyers, BidReturned(c)
  PROVE  Counting(charging[c], charging'[c], basket[c].placed, ws, now)
<1> DEFINE k == charging[c]
           placed == basket[c].placed
<1>1. /\ DOMAIN k = ChargeFields /\ (k.pc \notin {"check", "done"} => k.got = 0)
      /\ charging = [d \in Buyers |-> charging[d]] /\ k.pc = "bid"
      /\ k.success \subseteq placed /\ \A b \in placed : b \in Bids /\ ws[b] # Absent
  BY ConsumerIs DEF Purse, MarketInv, BidReturned, In, Reckons
<1>2. CASE k.success = {}
  <2> DEFINE n == Nothing(c)
  <2>1. Become(c, n)
    BY <1>2 DEF BidReturned
  <2>2. charging'[c] = n
    BY <1>1, <2>1 DEF Become
  <2>3. PICK zeros, wake :
          n = [k EXCEPT !.pc = "rest", !.requested = 0, !.valid = <<>>, !.left = 0,
                        !.zeros = zeros, !.wake = wake]
    BY DEF Nothing
  <2> HIDE DEF n, k
  <2>4. SameCount(k, n)
    BY <1>1, <2>3 DEF ChargeFields, SameCount
  <2>5. Counting(k, n, placed, ws, now)
    BY <2>4 DEF Counting, ReadsNothing, SameCount, Read
  <2> QED BY <2>2, <2>5 DEF k
<1>3. CASE k.success # {}
  <2> DEFINE last == LastBidTime(c)
             wake == last + CheckDelay
             n == [k EXCEPT !.pc = "check", !.requested = 0, !.valid = <<>>, !.left = 0,
                        !.zeros = 0, !.unread = k.success, !.wake = wake]
  <2>1. Become(c, n)
    BY <1>3 DEF BidReturned, Something
  <2>2. charging'[c] = n
    BY <1>1, <2>1 DEF Become
  <2>3. last \in Nat /\ \A b \in k.success : ws[b].time \in Nat /\ ws[b].time <= last
    <3> DEFINE S == {ws[b].time : b \in k.success}
    <3>1. World(ws)
      BY ConsumerIs
    <3>2. \A b \in k.success : ws[b].time \in Clock
      BY <1>1, <3>1 DEF World, HouseBid
    <3>3. S \in SUBSET Nat /\ S # {} /\ \A x \in S : x <= EndTime + 1
      <4>1. EndTime \in Nat
        BY Numbers
      <4> QED BY <1>3, <3>2, <4>1 DEF Clock
    <3>4. last = Max(S)
      BY DEF LastBidTime
    <3>5. EndTime + 1 \in Nat
      BY Numbers
    <3>6. Max(S) \in S /\ \A x \in S : x <= Max(S)
      <4> HIDE DEF S
      <4> QED BY <3>3, <3>5, GreatestOf
    <3>7. \A b \in k.success : ws[b].time \in S
      OBVIOUS
    <3> HIDE DEF S, last
    <3> QED BY <3>3, <3>4, <3>6, <3>7
  <2>4. wake = last + CheckDelay /\ CheckDelay \in Nat
    BY ConsumerAssumption
  <2> HIDE DEF last, wake, k
  <2>5. /\ n.pc = "check" /\ n.start = k.start /\ n.charged = k.charged /\ n.success = k.success
        /\ n.batch = k.batch /\ n.unread = k.success /\ n.got = k.got /\ n.wake = wake
    BY <1>1 DEF ChargeFields
  <2> HIDE DEF n
  <2>6. wake \in Nat /\ \A b \in k.success : ws[b].time + CheckDelay <= wake
    BY <2>3, <2>4
  <2>7. Counting(k, n, placed, ws, now)
    BY <1>1, <2>5, <2>6 DEF Counting, StartsToWait
  <2> QED BY <2>2, <2>7 DEF k
<1> QED BY <1>2, <1>3

\* The results are read, and then charged.
LEMMA ResultsAreCounted ==
  ASSUME MarketInv, NEW c \in Buyers, ReadBid(c) \/ Charge(c)
  PROVE  Counting(charging[c], charging'[c], basket[c].placed, ws, now)
<1> DEFINE k == charging[c]
           placed == basket[c].placed
<1>1. /\ DOMAIN k = ChargeFields /\ charging = [d \in Buyers |-> charging[d]] /\ k.pc = "check"
      /\ k.batch = {}
  BY ConsumerIs DEF Purse, MarketInv, ReadBid, Charge, In
<1>2. CASE ReadBid(c)
  <2>1. PICK b \in k.unread : Become(c, [k EXCEPT !.unread = @ \ {b}, !.got = @ + Won(b)])
    BY <1>2 DEF ReadBid
  <2> DEFINE won == Won(b)
             got == k.got + won
             unread == k.unread \ {b}
             n == [k EXCEPT !.unread = unread, !.got = got]
  <2>2. charging'[c] = n
    BY <1>1, <2>1 DEF Become
  <2>3. /\ won = (IF ws[b].status = "success" THEN ws[b].amount ELSE 0)
        /\ got = k.got + won /\ unread = k.unread \ {b} /\ b \in k.unread /\ k.wake <= now
    BY <1>2 DEF Won, ReadBid
  <2> HIDE DEF won, got, unread, k
  <2>4. /\ n.pc = k.pc /\ n.start = k.start /\ n.charged = k.charged /\ n.success = k.success
        /\ n.batch = k.batch /\ n.unread = unread /\ n.got = got /\ n.wake = k.wake
    BY <1>1 DEF ChargeFields
  <2> HIDE DEF n
  <2>5. ReadsOne(k, n, ws, now)
    BY <1>1, <2>3, <2>4 DEF ReadsOne
  <2>6. Counting(k, n, placed, ws, now)
    BY <2>4, <2>5 DEF Counting
  <2> QED BY <2>2, <2>6 DEF k
<1>3. CASE Charge(c)
  <2> DEFINE enough == k.got >= ChargeRate * Spare
             charged == k.charged + k.got
             before == IF enough THEN ChargeRate * Spare ELSE k.beforeUse
             wake == IF enough THEN now + ((k.got + k.beforeUse) \div ChargeRate - Spare) ELSE now
             n == [k EXCEPT !.pc = "rest", !.charged = charged, !.got = 0, !.success = {},
                            !.beforeUse = before, !.wake = wake]
  <2>1. Become(c, n) /\ k.unread = {}
    BY <1>3 DEF Charge
  <2>2. charging'[c] = n
    BY <1>1, <2>1 DEF Become
  <2>3. charged = k.charged + k.got
    OBVIOUS
  <2> HIDE DEF charged, before, wake, k
  <2>4. /\ n.pc = "rest" /\ n.start = k.start /\ n.charged = charged /\ n.success = {}
        /\ n.batch = k.batch
    BY <1>1 DEF ChargeFields
  <2> HIDE DEF n
  <2>5. ChargesAll(k, n)
    BY <1>1, <2>1, <2>3, <2>4 DEF ChargesAll
  <2>6. Counting(k, n, placed, ws, now)
    BY <2>4, <2>5 DEF Counting
  <2> QED BY <2>2, <2>6 DEF k
<1> QED BY <1>2, <1>3

LEMMA ConsumersCount ==
  ASSUME MarketInv, MarketInv', MarketNext, NEW c \in Buyers, charging'[c] # charging[c]
  PROVE  /\ ws' = ws /\ now' = now /\ basket'[c].placed = basket[c].placed
         /\ Counting(charging[c], charging'[c], basket[c].placed, ws, now)
<1>1. charging = [d \in Buyers |-> charging[d]] /\ Consumers
  BY DEF MarketInv, MarketNext, House, PlacingBids
<1>2. PICK d \in Buyers : Begin(d) \/ ConsumerStep(d) \/ AskFails(d)
  BY <1>1 DEF Consumers
<1>3. \E n : Become(d, n)
  BY <1>2 DEF Begin, ConsumerStep, AskFails, Satisfied, Stop, Search, Ask, Rank, PlaceBids,
       BatchReturned, BidReturned, ReadBid, Charge, Rested
<1>4. d = c
  BY <1>1, <1>3 DEF Become
<1>5. basket'[c].placed = basket[c].placed
  BY PlacedGrows
<1>6. ws' = ws /\ now' = now
  BY <1>1, StepIs, QuietSteps DEF Consumers, ConsumerStep, Begin, AskFails, Satisfied, Stop, Search,
       Ask, Rank, PlaceBids, StampBids, BatchReturned, BidReturned, ReadBid, Charge, Rested, Quietly,
       Evaluate, gatewayVars
<1>7. CASE \/ Begin(c) \/ Satisfied(c) \/ Stop(c) \/ Rested(c)
           \/ Search(c) \/ Ask(c) \/ AskFails(c) \/ Rank(c)
  <2>1. PICK n : Become(c, n) /\ SameCount(charging[c], n)
    BY <1>7, IdleStepsCountNothing
  <2>2. charging'[c] = n
    BY <1>1, <2>1 DEF Become
  <2>3. Counting(charging[c], n, basket[c].placed, ws, now)
    BY <2>1 DEF Counting, ReadsNothing, SameCount, Read
  <2> QED BY <1>5, <1>6, <2>2, <2>3
<1>8. CASE PlaceBids(c) \/ BatchReturned(c)
  BY <1>5, <1>6, <1>8, BatchesCountNothing
<1>9. CASE BidReturned(c)
  BY <1>5, <1>6, <1>9, RoundsAwaitResults
<1>10. CASE ReadBid(c) \/ Charge(c)
  BY <1>5, <1>6, <1>10, ResultsAreCounted
<1> QED BY <1>2, <1>4, <1>7, <1>8, <1>9, <1>10 DEF ConsumerStep

LEMMA CountsKeep ==
  ASSUME Patient, AwardsInv, MarketInv, MarketInv', TimedInv, faults = 0, InTime, MarketNext,
         NEW c \in Buyers,
         CountsAll(charging[c], basket[c].placed, ws, now), Awaits(charging[c], ws, now)
  PROVE  CountsAll(charging'[c], basket'[c].placed, ws', now') /\ Awaits(charging'[c], ws', now')
<1> DEFINE k == charging[c]
           placed == basket[c].placed
<1>1. /\ World(ws) /\ placed \in SUBSET Bids /\ (\A b \in placed : ws[b] # Absent)
      /\ k.success \subseteq placed /\ Purse(k, c) /\ now \in Nat
  BY ConsumerIs DEF Reckons, TimedInv
<1>2. CASE charging'[c] = charging[c]
  <2>1. ASSUME NEW b \in placed
        PROVE  /\ ws'[b].time = ws[b].time
               /\ Closed(ws[b], now) => /\ Closed(ws'[b], now')
                                        /\ Amounts(ws')[b] = Amounts(ws)[b]
    BY <1>1, TimesStay, ClosedStaysClosed
  <2>2. Read(k, basket'[c].placed) = Read(k, placed)
    BY ReadStays
  <2> HIDE DEF k, placed
  <2>3. CountsAll(k, placed, ws, now) /\ Awaits(k, ws, now)
    BY DEF k, placed
  <2>4. CountsAll(k, basket'[c].placed, ws', now') /\ Awaits(k, ws', now')
    BY <1>1, <2>1, <2>2, <2>3, CountStays
  <2> QED BY <1>2, <2>4 DEF k
<1>3. CASE charging'[c] # charging[c]
  <2> DEFINE n == charging'[c]
  <2>1. /\ ws' = ws /\ now' = now /\ basket'[c].placed = placed
        /\ Counting(k, n, placed, ws, now)
    BY <1>3, ConsumersCount
  <2>2. k.start \in Nat /\ k.charged \in Nat /\ k.got \in Nat /\ (k.pc # "placing" => k.batch = {})
    <3>1. Charged0[c] \subseteq Nat
      BY ConsumerIs
    <3> QED BY <1>1, <3>1 DEF Purse
  <2>3. CountsAll(k, placed, ws, now) /\ Awaits(k, ws, now)
    OBVIOUS
  <2> HIDE DEF k, placed, n
  <2>4. CountsAll(n, placed, ws, now) /\ Awaits(n, ws, now)
    BY <1>1, <2>1, <2>2, <2>3, CountMoves
  <2> QED BY <2>1, <2>4 DEF n
<1> QED BY <1>2, <1>3

LEMMA CountInvInit == TimelyInit => CountInv
<1> SUFFICES ASSUME TimelyInit, NEW c \in Buyers
             PROVE  /\ CountsAll(charging[c], basket[c].placed, ws, now)
                    /\ Awaits(charging[c], ws, now)
  BY DEF CountInv
<1>1. basket[c].placed = {} /\ World(ws)
  BY AnswerInvInit DEF TimelyInit, MarketInit, Init, BuyerInit, EmptyBasket, AnswerInv, FinalInv, HouseInv
<1>2. PICK start \in [Buyers -> UNION {Charged0[d] : d \in Buyers}] :
        /\ \A d \in Buyers : start[d] \in Charged0[d]
        /\ charging = [d \in Buyers |-> Asleep(start[d])]
  BY DEF TimelyInit, MarketInit, ConsumerInit
<1>3. /\ charging[c].pc = "idle" /\ charging[c].start = start[c] /\ charging[c].charged = start[c]
      /\ start[c] \in Nat
  <2>1. start[c] \in Charged0[c] /\ Charged0[c] \subseteq 0..(Goal[c] - 1) /\ Goal[c] \in Nat
    BY <1>2, ConsumerAssumption
  <2>2. start[c] \in Nat
    BY <2>1
  <2> QED BY <1>2, <2>2 DEF Asleep
<1>4. Read(charging[c], basket[c].placed) = {}
  BY <1>1 DEF Read
<1>5. Total(Amounts(ws), {}) = 0
  <2>1. {} \in SUBSET Bids
    OBVIOUS
  <2> QED BY <1>1, <2>1, AmountsAdd, TotalFacts
<1> QED BY <1>3, <1>4, <1>5 DEF CountsAll, Awaits

LEMMA CountInvStep ==
  ASSUME Patient, AwardsInv, MarketInv, MarketInv', TimedInv, TimelyInv, CountInv,
         [MarketNext /\ Grow]_timelyVars
  PROVE  CountInv'
<1>1. CASE UNCHANGED timelyVars
  BY <1>1 DEF timelyVars, marketVars, vars, CountInv, CountsAll, Awaits, Closed
<1>2. CASE MarketNext
  <2>1. SUFFICES ASSUME faults' = 0, NEW c \in Buyers
                 PROVE  /\ CountsAll(charging'[c], basket'[c].placed, ws', now')
                        /\ Awaits(charging'[c], ws', now')
    BY DEF CountInv
  <2>2. faults = 0
    <3>1. faults \in Nat /\ (faults' = faults \/ faults' = faults + 1)
      BY <1>2, StepIs DEF AwardsInv, AnswerInv
    <3> QED BY <2>1, <3>1
  <2> QED BY <1>2, <2>2, CountsKeep DEF TimelyInv, CountInv
<1> QED BY <1>1, <1>2

LEMMA CountedIsAwarded ==
  ASSUME AwardsInv, MarketInv, faults = 0, InTime, CountInv
  PROVE  EveryAwardCounts
<1> SUFFICES ASSUME NEW c \in Buyers
             PROVE  charging[c].charged - charging[c].start
                      = MapThenSumSet(LAMBDA b : ws[b].amount, Read(charging[c], basket[c].placed))
  BY DEF EveryAwardCounts, Read
<1> DEFINE k == charging[c]
           S == Read(k, basket[c].placed)
           f == [b \in S |-> ws[b].amount]
           won == Total(Amounts(ws), S)
<1>1. World(ws) /\ S \in SUBSET Bids /\ (\A b \in S : ws[b] # Absent) /\ Purse(k, c)
  BY ConsumerIs DEF Read
<1>2. \A b \in S : Amounts(ws)[b] = f[b]
  BY <1>1 DEF InTime, BidInTime, Amounts
<1>3. Summable(f, S) /\ won = Total(f, S) /\ won \in Nat
  <2>1. Summable(Amounts(ws), S)
    BY <1>1, AmountsAdd
  <2> HIDE DEF f, S
  <2> QED BY <1>2, <2>1, TotalSame, TotalFacts
<1>4. MapThenSumSet(LAMBDA b : ws[b].amount, S) = AmountSum(ws, S)
  BY DEF AmountSum, MapThenSumSet, MapThenFoldSet
<1>5. AmountSum(ws, S) = Total(f, S)
  BY <1>3, AmountTotal
<1>6. k.charged = k.start + won /\ k.start \in Nat
  <2>1. Charged0[c] \subseteq Nat
    BY ConsumerIs
  <2> QED BY <1>1, <2>1 DEF CountInv, CountsAll, Purse
<1>7. k.charged - k.start = won
  <2> HIDE DEF k, won
  <2> QED BY <1>3, <1>6
<1> QED BY <1>3, <1>4, <1>5, <1>7

\* As long as no call has failed, a consumer counts all that its bids win: when it
\* reads a result 90 s after its last bid (consumerApp.go:202), no tick will settle
\* that bid any more, as the last one that sees it is 75 s after it at most.
THEOREM AwardsAreCounted ==
  ASSUME Punctual, Patient PROVE TimelySpec => [](faults = 0 => EveryAwardCounts)
<1>1. /\ AwardsInv /\ MarketInv /\ TimedInv /\ (AwardsInv /\ MarketInv /\ TimedInv)'
      /\ TimelyInv /\ CountInv /\ [MarketNext /\ Grow]_timelyVars
      => CountInv'
  BY CountInvStep
<1>2. AwardsInv /\ MarketInv /\ TimedInv /\ TimelyInv /\ CountInv => (faults = 0 => EveryAwardCounts)
  BY CountedIsAwarded DEF TimelyInv
<1> QED BY <1>1, <1>2, CountInvInit, TimelyInvHolds, TimelyIsMarket, MarketKeeps, PTL
        DEF TimelySpec

=============================================================================
