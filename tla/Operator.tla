------------------------------ MODULE Operator ------------------------------
(***************************************************************************)
(* The operator: operator/operatorApp.go.  A goroutine per category of     *)
(* operator/operator.go puts the price of the hour on the ledger: at the   *)
(* start, when the first full hour begins, and by a ticker from then on.   *)
(* A call is repeated until it succeeds.                                   *)
(***************************************************************************)
EXTENDS FabricGateway, FiniteSetsExt

CONSTANTS
  Operated,    \* categories with a goroutine, which are its clients
  HourLen,     \* an hour of the clock
  HoursPerDay, \* hourNum
  StartHour,   \* hour of the day at which the simulation starts
  StartPast,   \* how far that hour has gone
  Latency      \* how long an update may take and still count as punctual

ASSUME OperatorAssumption ==
  /\ Operated \subseteq Clients /\ Operated \subseteq Categories
  /\ {HourLen, HoursPerDay} \subseteq Nat \ {0}
  /\ StartHour \in 0..(HoursPerDay - 1)
  /\ StartPast \in 0..(HourLen - 1)
  /\ Latency \in Nat
  /\ EndTime <= HourLen * HoursPerDay   \* a day: simulation.go:42

VARIABLES
  operate,   \* operate[cat]: the locals of Operate for cat
  punctual   \* history: no timer or update has been late so far

operatorVars == <<gatewayVars, crashed, operate, punctual>>

\* pc: "begin" before the first update, "update" and "updating" around the call,
\* "wait" in a select, "done".  fires counts timers, 2 standing for more.
Start == [pc |-> "begin", day |-> 0, hour |-> StartHour, ts |-> 0, due |-> 0, fires |-> 0]

OperatorInit ==
  /\ GatewayInit
  /\ operate = [cat \in Operated |-> Start]
  /\ punctual = TRUE

-----------------------------------------------------------------------------
Is(cat, pc) == operate[cat].pc = pc

Goes(cat, new) == operate' = [operate EXCEPT ![cat] = new] /\ UNCHANGED crashed

\* priceList[day][hour], for which its place in the list stands here.
PriceList(day, hour) == 1 + day * HoursPerDay + hour

\* The hour of the next update; there are two days in the list.
NextHour(s) ==
  IF s.hour > HoursPerDay - 2 THEN [s EXCEPT !.day = 1, !.hour = 0]
  ELSE [s EXCEPT !.hour = @ + 1]

Begin(cat) ==
  /\ Is(cat, "begin")
  /\ Goes(cat, [operate[cat] EXCEPT !.pc = "update", !.ts = now])
  /\ UNCHANGED gatewayVars

Update(cat) ==
  /\ Is(cat, "update")
  /\ Submit(cat, [op |-> "UpdateUnitPrice", cat |-> cat,
                  price |-> PriceList(operate[cat].day, operate[cat].hour)])
  /\ Goes(cat, [operate[cat] EXCEPT !.pc = "updating"])

Again(s) == [s EXCEPT !.pc = "update"]

UpdateFailed(cat) ==
  /\ Is(cat, "updating")
  /\ reply[cat].kind = "error"
  /\ TakeReply(cat)
  /\ Goes(cat, Again(operate[cat]))

\* Mutant: the first timer runs for an hour, whenever it is started.
FirstFullHourFromNow == now + HourLen

\* nextTime
FirstFullHour == HourLen - StartPast

\* The timer runs to the first full hour, the ticker starts after the second
\* update.
Updated(cat) ==
  /\ Is(cat, "updating")
  /\ reply[cat].kind = "ok"
  /\ TakeReply(cat)
  /\ LET s == operate[cat] IN
     Goes(cat, [NextHour(s) EXCEPT
       !.pc = "wait",
       !.due = IF s.fires = 0 THEN FirstFullHour
               ELSE IF s.fires = 1 THEN now + HourLen ELSE @])

\* The timer or the ticker fires; the ticker holds one tick and drops others.
Fire(cat) ==
  /\ Is(cat, "wait")
  /\ operate[cat].due <= now
  /\ LET s == operate[cat] IN
     Goes(cat, [s EXCEPT
       !.pc = "update", !.ts = now, !.fires = Min({@ + 1, 2}),
       !.due = IF s.fires = 0 THEN 0
               ELSE @ + HourLen * (((now - s.due) \div HourLen) + 1)])
  /\ UNCHANGED gatewayVars

EndTimer(cat) ==
  /\ Is(cat, "wait")
  /\ now >= EndTime
  /\ Goes(cat, [operate[cat] EXCEPT !.pc = "done"])
  /\ UNCHANGED gatewayVars

\* The clock may go on without a timer or an update being late.
InTime ==
  \A cat \in Operated :
    LET s == operate[cat] IN
    /\ s.pc \in {"begin", "update", "updating"} => now - s.ts < Latency
    /\ s.pc = "wait" => now < s.due

Operate ==
  \E cat \in Operated :
    \/ Begin(cat)
    \/ Update(cat)
    \/ UpdateFailed(cat)
    \/ Updated(cat)
    \/ Fire(cat)
    \/ EndTimer(cat)

OperatorNext ==
  /\ \/ Operate
     \/ GatewayNext /\ UNCHANGED operate
  /\ punctual' = (punctual /\ (now' > now => InTime))

OperatorSpec == OperatorInit /\ [][OperatorNext]_operatorVars

-----------------------------------------------------------------------------
\* The place in the price list that belongs to a time of the clock.
PlaceAt(t) == PriceList(0, StartHour + (StartPast + t) \div HourLen)

\* No price is replaced by that of an earlier hour, although an update that was
\* given up and repeated (operatorApp.go:129) may commit hours later.
PricesMoveForward ==
  [][\A cat \in Operated : ws'[cat].price >= ws[cat].price]_ws

\* No price is on the ledger before its hour, also with updates that fail, take
\* longer than an hour or lose ticks; and as long as updates are punctual the price
\* is that of the hour once two latencies of it have passed: the ticker starts late
\* by one, and an update takes another (operatorApp.go:92).
PriceOfTheHour ==
  \A cat \in Operated :
    /\ ws[cat].price \in {InitPrice} \cup 1..PlaceAt(now)
    /\ punctual /\ now > 2 * Latency => ws[cat].price >= PlaceAt(now - 2 * Latency - 1)

=============================================================================
