------------------------------ MODULE Consumer ------------------------------
(***************************************************************************)
(* A consumer's goroutine: Consume of consumer/consumerApp.go with the     *)
(* search and the bids of Bid (consumerAppBuy.go) and the results read by  *)
(* BidResult (consumerAppBuyResult.go).  A round searches the tokens for   *)
(* sale, asks BidOk about each, bids on the cheapest that add up to what   *)
(* it needs, waits for the auction, and reads its bids once.               *)
(***************************************************************************)
EXTENDS BidSubmission

CONSTANTS
  Name,        \* Name[c]: the user name
  Surcharge,   \* Surcharge[c][e]: what the distance adds to the unit price
  Full,        \* Full[c]: battery, in energy
  Goal,        \* Goal[c]: finalBattery, what it charges up to
  Charged0,    \* Charged0[c]: what it may have at the start, which is random
  RequestMax,  \* what it can charge in a token's life
  ChargeRate,  \* energy charged per unit of time
  Spare,       \* five minutes: the charging time kept in reserve
  SearchAge,   \* TokenLife - 1 minute: it bids on tokens younger than this
  CheckDelay,  \* Interval + 30 s: when it reads its results
  NothingWait, \* one minute
  LongWait,    \* 30 minutes
  MaxZeros,    \* zeroCount > MaxZeros waits long (10 in the code)
  StartUntil   \* bound on the time of a consumer's first round

ASSUME ConsumerAssumption ==
  /\ Name \in [Buyers -> Users]
  /\ Surcharge \in [Buyers -> [Energies -> Nat]]
  /\ Full \in [Buyers -> Nat] /\ Goal \in [Buyers -> Nat]
  /\ \A c \in Buyers : Charged0[c] \subseteq 0..(Goal[c] - 1) /\ Goal[c] <= Full[c]
  /\ {RequestMax, ChargeRate} \subseteq Nat \ {0}
  /\ {Spare, SearchAge, CheckDelay, NothingWait, LongWait, MaxZeros, StartUntil} \subseteq Nat
  /\ RequestMax > ChargeRate * Spare

VARIABLE charging   \* charging[c]: the locals of c's Consume, Bid and BidResult

\* pc: "idle" until the first timer; "round" at the top of the loop of Consume;
\* "ask" while BidOk is asked about the tokens toAsk, fine being those it agreed
\* to; "bid" at the top of Bid's loop with the tokens valid to bid on and left
\* still wanted; "placing" inside bid with batch; "check" until the results are
\* due and while the bids unread are read; "rest" between rounds; "done".
Asleep(charged) ==
  [pc |-> "idle", start |-> charged, charged |-> charged, beforeUse |-> 0,
   requested |-> 0, zeros |-> 0, toAsk |-> {}, fine |-> {}, valid |-> <<>>, left |-> 0,
   batch |-> {}, success |-> {}, unread |-> {}, got |-> 0, wake |-> 0]

ConsumerInit ==
  \E charged \in [Buyers -> UNION {Charged0[c] : c \in Buyers}] :
    /\ \A c \in Buyers : charged[c] \in Charged0[c]
    /\ charging = [c \in Buyers |-> Asleep(charged[c])]

-----------------------------------------------------------------------------
In(c, pc) == ~crashed /\ charging[c].pc = pc

Become(c, new) == charging' = [charging EXCEPT ![c] = new]

\* A step that submits nothing.
Quietly == Evaluate /\ UNCHANGED <<basket, crashed>>

\* Energy asked for by bids that are on the ledger.
Asks(ids) == MapThenSumSet(LAMBDA b : ws[b].bidAmount, ids)

MyPrice(c, e) == ws[e].price + Surcharge[c][e]

\* 1 - BatteryLife, in energy.
Priority(c) == Full[c] - charging[c].charged

\* The first timer, or endTimer, after which the code goes on all the same.
Begin(c) ==
  /\ In(c, "idle")
  /\ now <= StartUntil \/ now >= EndTime
  /\ Become(c, [charging[c] EXCEPT !.pc = "round"])
  /\ Quietly

Satisfied(c) ==
  /\ In(c, "round")
  /\ charging[c].charged >= Goal[c]
  /\ Become(c, [charging[c] EXCEPT !.pc = "done"])
  /\ Quietly

\* endTimer fires in a select of Consume, or Bid or BidResult returns "time up".
Stop(c) ==
  /\ \/ In(c, "round") /\ charging[c].charged < Goal[c] /\ now >= EndTime
     \/ In(c, "bid") /\ now > EndTime
     \/ In(c, "check") /\ now >= EndTime
     \/ In(c, "rest") /\ now >= EndTime
  /\ Become(c, [charging[c] EXCEPT !.pc = "done"])
  /\ Quietly

\* How much this round asks for.
Request(c) ==
  LET need == Goal[c] - charging[c].charged
  IN  IF RequestMax < need THEN RequestMax - charging[c].beforeUse ELSE need

\* queryByLocationRange, which is repeated until it succeeds, and the age filter.
Search(c) ==
  /\ In(c, "round")
  /\ charging[c].charged < Goal[c]
  /\ now <= EndTime
  /\ Become(c, [charging[c] EXCEPT
       !.pc = "ask", !.requested = Request(c),
       !.toAsk = {e \in QueryByLocationRange(ws) : now - SearchAge < ws[e].gen}])
  /\ Quietly

\* bidOk of one token; after the end it does not even ask.
Ask(c) ==
  /\ In(c, "ask")
  /\ \E e \in charging[c].toAsk :
       LET ok == now <= EndTime /\ BidOk(ws, e, MyPrice(c, e), Priority(c)) IN
       Become(c, [charging[c] EXCEPT
         !.toAsk = @ \ {e}, !.fine = IF ok THEN @ \cup {e} ELSE @])
  /\ Quietly

\* A failed call of BidOk counts as a yes.  Its failure shows in nothing else and
\* is not counted; where calls fail, as many of these may as there are tokens.
AskFails(c) ==
  /\ In(c, "ask")
  /\ now <= EndTime
  /\ MaxFaults > 0
  /\ \E e \in charging[c].toAsk :
       Become(c, [charging[c] EXCEPT !.toAsk = @ \ {e}, !.fine = @ \cup {e}])
  /\ Quietly

\* Cheapest first, then oldest; ties in the order of the query, which is any.
Cheaper(c, d, e) ==
  \/ MyPrice(c, d) < MyPrice(c, e)
  \/ MyPrice(c, d) = MyPrice(c, e) /\ ws[d].gen < ws[e].gen

Ranked(c, S) ==
  {q \in [1..Cardinality(S) -> S] :
     \A i, j \in DOMAIN q : i < j => q[i] # q[j] /\ ~Cheaper(c, q[j], q[i])}

Rank(c) ==
  /\ In(c, "ask")
  /\ charging[c].toAsk = {}
  /\ \E q \in Ranked(c, charging[c].fine) :
       Become(c, [charging[c] EXCEPT
         !.pc = "bid", !.fine = {}, !.valid = q, !.left = charging[c].requested])
  /\ Quietly

\* What the first n tokens of valid add up to.
Supply(c) ==
  LET q == charging[c].valid
      sum[n \in 0..Len(q)] == IF n = 0 THEN 0 ELSE sum[n - 1] + ws[q[n]].amount
  IN  sum

\* tokenCount: the tokens needed for what is left, or all of them.
TokenCount(c) ==
  Cardinality({n \in 1..Len(charging[c].valid) : Supply(c)[n - 1] < charging[c].left})

BidOn(c, e, amount) ==
  [energy |-> e, owner |-> Name[c], cat |-> ws[e].cat, bidAmount |-> amount,
   price |-> MyPrice(c, e), prio |-> Priority(c)]

\* Mutant: the last token is not cut to what is still wanted.
WantedUncut(c) ==
  [n \in 1..TokenCount(c) |->
     LET e == charging[c].valid[n] IN BidOn(c, e, ws[e].amount)]

\* Mutant: every token is asked for all that is wanted.
WantedOfEach(c) ==
  [n \in 1..TokenCount(c) |->
     LET e == charging[c].valid[n] IN BidOn(c, e, charging[c].left)]

\* All of every token but the last, which is cut to what is still wanted.
Wanted(c) ==
  [n \in 1..TokenCount(c) |->
     LET e == charging[c].valid[n]
     IN  BidOn(c, e, Min({ws[e].amount, charging[c].left - Supply(c)[n - 1]}))]

PlaceBids(c) ==
  /\ In(c, "bid")
  /\ now <= EndTime
  /\ charging[c].left > 0 /\ charging[c].valid # <<>>
  /\ StampBids(c, Wanted(c))
  /\ Become(c, [charging[c] EXCEPT
       !.pc = "placing", !.batch = DOMAIN basket'[c].list,
       !.valid = SubSeq(@, TokenCount(c) + 1, Len(@))])

\* Mutant: what a batch has asked for still counts as wanted.
BatchReturnedUncounted(c) ==
  /\ In(c, "placing")
  /\ basket[c].pc = "idle"
  /\ LET placed == charging[c].batch \cap basket[c].placed IN
     Become(c, [charging[c] EXCEPT !.pc = "bid", !.batch = {}, !.success = @ \cup placed])
  /\ Quietly

\* bid returned: the bids whose ids came back are successes.
BatchReturned(c) ==
  /\ In(c, "placing")
  /\ basket[c].pc = "idle"
  /\ LET placed == charging[c].batch \cap basket[c].placed IN
     Become(c, [charging[c] EXCEPT
       !.pc = "bid", !.batch = {}, !.success = @ \cup placed, !.left = @ - Asks(placed)])
  /\ Quietly

LastBidTime(c) == Max({ws[b].time : b \in charging[c].success})

\* Nothing was bid: a minute later again, and after many such rounds half an
\* hour later.
Nothing(c) ==
  LET long == charging[c].zeros + 1 > MaxZeros IN
  [charging[c] EXCEPT
     !.pc = "rest", !.requested = 0, !.valid = <<>>, !.left = 0,
     !.zeros = IF long THEN 0 ELSE @ + 1,
     !.wake = now + (IF long THEN LongWait ELSE NothingWait)]

\* Mutant: the results are read 60 s after the bid.
SomethingEarly(c) ==
  [charging[c] EXCEPT
     !.pc = "check", !.requested = 0, !.valid = <<>>, !.left = 0, !.zeros = 0,
     !.unread = charging[c].success, !.wake = LastBidTime(c) + (CheckDelay * 2) \div 3]

\* The results are due 90 s after the last bid.
Something(c) ==
  [charging[c] EXCEPT
     !.pc = "check", !.requested = 0, !.valid = <<>>, !.left = 0, !.zeros = 0,
     !.unread = charging[c].success, !.wake = LastBidTime(c) + CheckDelay]

BidReturned(c) ==
  /\ In(c, "bid")
  /\ now <= EndTime
  /\ charging[c].left = 0 \/ charging[c].valid = <<>>
  /\ Become(c, IF charging[c].success = {} THEN Nothing(c) ELSE Something(c))
  /\ Quietly

\* Mutant: what was asked for counts, not what was awarded.
WonAsAsked(b) == IF ws[b].status = "success" THEN ws[b].bidAmount ELSE 0

Won(b) == IF ws[b].status = "success" THEN ws[b].amount ELSE 0

\* One of BidResult's goroutines reads its bid, until it succeeds.
ReadBid(c) ==
  /\ In(c, "check")
  /\ charging[c].wake <= now /\ now <= EndTime
  /\ \E b \in charging[c].unread :
       Become(c, [charging[c] EXCEPT !.unread = @ \ {b}, !.got = @ + Won(b)])
  /\ Quietly

\* Charge what was won, less the reserve, before the next round.
Charge(c) ==
  /\ In(c, "check")
  /\ charging[c].unread = {} /\ now <= EndTime
  /\ LET got    == charging[c].got
         enough == got >= ChargeRate * Spare
         rest   == (got + charging[c].beforeUse) \div ChargeRate - Spare
     IN Become(c, [charging[c] EXCEPT
          !.pc = "rest", !.charged = @ + got, !.got = 0, !.success = {},
          !.beforeUse = IF enough THEN ChargeRate * Spare ELSE @,
          !.wake = IF enough THEN now + rest ELSE now])
  /\ Quietly

Rested(c) ==
  /\ In(c, "rest")
  /\ charging[c].wake <= now
  /\ Become(c, [charging[c] EXCEPT !.pc = "round", !.wake = 0])
  /\ Quietly

\* The steps Go takes as soon as it can.
ConsumerStep(c) ==
  \/ Satisfied(c)
  \/ Stop(c)
  \/ Search(c)
  \/ Ask(c)
  \/ Rank(c)
  \/ PlaceBids(c)
  \/ BatchReturned(c)
  \/ BidReturned(c)
  \/ ReadBid(c)
  \/ Charge(c)
  \/ Rested(c)

=============================================================================
