--------------------------- MODULE ProducerAuction ---------------------------
(***************************************************************************)
(* The goroutine a producer starts for every token it generates:           *)
(* producer/producerAppCreate.go creates the token and                     *)
(* producer/producerAppAuction.go auctions it off, one tick per Interval.  *)
(* The goroutines share one process: a panic ends all of them.             *)
(***************************************************************************)
EXTENDS FabricGateway, BidAllocation

CONSTANTS
  Makers,        \* the goroutines, one per token to generate
  Owner,         \* Owner[m]: the producer's name
  Output,        \* Output[m]: the energy of its token
  Kind,          \* Kind[m]: the category
  TokenIds,      \* TokenIds[m]: the ids createToken may draw for it
  Interval,      \* time between two ticks
  TokenLife,     \* the producer's idea of how long a token is for sale
  MaxErrors,     \* loopCount > MaxErrors panics (5 in the code)
  MaxCreateErrors, \* errCount > MaxCreateErrors gives up (3 in the code)
  ProduceUntil   \* bound on the time at which a token is generated

ASSUME ProducerAssumption ==
  /\ Makers \subseteq Clients
  /\ Owner \in [Makers -> Users]
  /\ Output \in [Makers -> Nat \ {0}]
  /\ Kind \in [Makers -> Categories]
  /\ TokenIds \in [Makers -> SUBSET Energies]
  /\ \A m, n \in Makers : m # n => TokenIds[m] \cap TokenIds[n] = {}
  /\ Interval \in Nat \ {0}
  /\ TokenLife \in Nat
  /\ MaxErrors \in Nat
  /\ MaxCreateErrors \in Nat
  /\ ProduceUntil \in Nat

VARIABLE auction   \* auction[m]: the state of goroutine m

\* Ticks after the first one: the for loop of Auction.
LaterTicks == TokenLife \div Interval

NoId == "no id"
NoOffer == <<>>

ASSUME NoIdAssumption == NoId \notin Energies

\* pc follows the code: "idle" until Produce's ticker starts it, "create" and
\* "creating" around SubmitTransaction in createToken, "wait" in the selects of
\* Auction, "query" and "submit" before and "submitted" after the calls of
\* auctionEnd, "done" when Create returns.  tries counts failed calls, last is
\* why the goroutine ended or what its last tick was told.
Idle == [pc |-> "idle", id |-> NoId, gen |-> 0, tries |-> 0, ticks |-> 0,
         due |-> 0, ts |-> 0, offer |-> NoOffer, amount |-> 0,
         isSold |-> FALSE, last |-> "none"]

ProducerInit == auction = [m \in Makers |-> Idle]

-----------------------------------------------------------------------------
At(m, pc) == ~crashed /\ auction[m].pc = pc

Finish(m, why) ==
  [auction EXCEPT ![m] = [@ EXCEPT !.pc = "done", !.tries = 0, !.due = 0, !.ts = 0,
                            !.offer = NoOffer, !.amount = 0, !.last = why]]

Waiting(m, why) ==
  [auction EXCEPT ![m] = [@ EXCEPT !.pc = "wait", !.tries = 0, !.ts = 0,
                            !.offer = NoOffer, !.amount = 0, !.isSold = FALSE,
                            !.last = why]]

\* Mutant: the loop over the ticks ends one tick early.
ContinueShort(m, why) ==
  IF auction[m].ticks >= LaterTicks THEN Finish(m, why) ELSE Waiting(m, why)

\* auctionEnd returned false: wait for the next tick, unless it was the last.
Continue(m, why) ==
  IF auction[m].ticks > LaterTicks THEN Finish(m, why) ELSE Waiting(m, why)

\* A tick of Produce's ticker: start Create with the time as Timestamp.
Produce(m) ==
  /\ At(m, "idle")
  /\ now < EndTime /\ now <= ProduceUntil
  /\ auction' = [auction EXCEPT ![m] = [@ EXCEPT !.pc = "create", !.gen = now]]
  /\ UNCHANGED crashed
  /\ UNCHANGED gatewayVars

\* createToken draws a new id for every attempt.
CreateToken(m) ==
  /\ At(m, "create")
  /\ now <= EndTime
  /\ \E id \in TokenIds[m] :
       /\ Submit(m, [op |-> "CreateEnergyToken", id |-> id, producer |-> Owner[m],
                     amount |-> Output[m], cat |-> Kind[m], time |-> auction[m].gen])
       /\ auction' = [auction EXCEPT ![m] = [@ EXCEPT !.pc = "creating", !.id = id]]
  /\ UNCHANGED crashed

\* The token exists: the first timer runs to gen + Interval.
Created(m) ==
  /\ At(m, "creating")
  /\ reply[m].kind = "ok"
  /\ TakeReply(m)
  /\ auction' = [auction EXCEPT ![m] =
                   [@ EXCEPT !.pc = "wait", !.tries = 0, !.due = auction[m].gen + Interval]]
  /\ UNCHANGED crashed

CreateFailed(m) ==
  /\ At(m, "creating")
  /\ reply[m].kind = "error"
  /\ TakeReply(m)
  /\ auction' = IF auction[m].tries > MaxCreateErrors
                THEN Finish(m, "many create error")
                ELSE [auction EXCEPT ![m] =
                        [@ EXCEPT !.pc = "create", !.id = NoId, !.tries = auction[m].tries + 1]]
  /\ UNCHANGED crashed

\* endTimer fires in one of the selects.
EndTimer(m) ==
  /\ At(m, "create") \/ At(m, "wait")
  /\ now >= EndTime
  /\ auction' = Finish(m, "time up")
  /\ UNCHANGED crashed
  /\ UNCHANGED gatewayVars

\* The timer or the ticker fires and auctionEnd is called with the time.  The
\* ticker starts with the first tick; it holds one tick while the goroutine is
\* busy and drops the others.
Tick(m) ==
  /\ At(m, "wait")
  /\ auction[m].due <= now
  /\ LET due == auction[m].due IN
     auction' = [auction EXCEPT ![m] =
       [@ EXCEPT !.pc = "query", !.ts = now, !.ticks = auction[m].ticks + 1,
                 !.due = IF auction[m].ticks = 0 THEN now + Interval
                         ELSE due + Interval * (((now - due) \div Interval) + 1)]]
  /\ UNCHANGED crashed
  /\ UNCHANGED gatewayVars

\* auctionEndQuery and auctionEndTransaction look at the clock first.
TimeUp(m) ==
  /\ At(m, "query") \/ At(m, "submit")
  /\ now > EndTime
  /\ auction' = Finish(m, "time up")
  /\ UNCHANGED crashed
  /\ UNCHANGED gatewayVars

\* One more failed call of auctionEndQuery or auctionEndTransaction.
CallFailed(m, pc) ==
  IF auction[m].tries + 1 > MaxErrors
  THEN /\ crashed' = TRUE
       /\ UNCHANGED auction
  ELSE /\ crashed' = crashed
       /\ auction' = [auction EXCEPT ![m] = [@ EXCEPT !.pc = pc, !.tries = auction[m].tries + 1]]

QueryFailed(m) ==
  /\ At(m, "query")
  /\ now <= EndTime
  /\ EvaluateFails
  /\ CallFailed(m, "query")

\* The energy the loop has to give away is Output[m]: auctionEnd works on a copy
\* of the energy token, so every tick starts from the amount generated.
Query(m) ==
  /\ At(m, "query")
  /\ now <= EndTime
  /\ LET a    == auction[m]
         open == AuctionEndQuery(ws, a.id, a.ts)
     IN \/ /\ a.ts <= a.gen + TokenLife
           /\ open = {}
           /\ auction' = Continue(m, "no bids")
        \/ /\ a.ts > a.gen + TokenLife \/ open # {}
           /\ \E q \in Rankings(open, ws) :
                auction' = [auction EXCEPT ![m] =
                  [@ EXCEPT !.pc = "submit", !.tries = 0,
                            !.offer = IF open = {} THEN <<[id |-> OldId, amount |-> 0]>>
                                      ELSE Allocate(q, ws, Output[m]),
                            !.amount = Allocated(q, ws, Output[m]),
                            !.isSold = TakesAll(q, ws, Output[m])]]
  /\ UNCHANGED crashed
  /\ Evaluate

SubmitEnd(m) ==
  /\ At(m, "submit")
  /\ now <= EndTime
  /\ LET a == auction[m] IN
     /\ Submit(m, [op |-> "AuctionEnd", bidInput |-> a.offer,
                   in |-> [id |-> a.id, amount |-> a.amount, time |-> a.ts]])
     /\ auction' = [auction EXCEPT ![m] = [@ EXCEPT !.pc = "submitted"]]
  /\ UNCHANGED crashed

\* isSold is what the loop found, or what the message says.
Ended(m) ==
  /\ At(m, "submitted")
  /\ reply[m].kind = "ok"
  /\ TakeReply(m)
  /\ LET msg == reply[m].msg IN
     auction' = IF auction[m].isSold \/ msg \in {OldMessage, "auction end"}
                THEN Finish(m, msg)
                ELSE Continue(m, msg)
  /\ UNCHANGED crashed

\* Mutant: the goroutine waits on for the answer instead of calling again.
EndFailedHangs(m) ==
  /\ At(m, "submitted")
  /\ reply[m].kind = "error"
  /\ TakeReply(m)
  /\ CallFailed(m, "submitted")

EndFailed(m) ==
  /\ At(m, "submitted")
  /\ reply[m].kind = "error"
  /\ TakeReply(m)
  /\ CallFailed(m, "submit")

ProducerStep(m) ==
  \/ CreateToken(m)
  \/ Created(m)
  \/ CreateFailed(m)
  \/ EndTimer(m)
  \/ Tick(m)
  \/ TimeUp(m)
  \/ Query(m)
  \/ SubmitEnd(m)
  \/ Ended(m)
  \/ EndFailed(m)

ProducerNext == \E m \in Makers : Produce(m) \/ ProducerStep(m) \/ QueryFailed(m)

-----------------------------------------------------------------------------
ProducerTypeOK ==
  \A m \in Makers :
       LET a == auction[m] IN
       /\ a.pc \in {"idle", "create", "creating", "wait", "query", "submit",
                    "submitted", "done"}
       /\ a.id \in TokenIds[m] \cup {NoId}
       /\ a.gen \in 0..EndTime
       /\ a.tries \in 0..(MaxErrors + MaxCreateErrors + 1)
       /\ a.ticks \in 0..(LaterTicks + 1)
       /\ a.amount \in 0..Output[m]

=============================================================================
