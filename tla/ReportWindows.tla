---------------------------- MODULE ReportWindows ----------------------------
(***************************************************************************)
(* How the reporting program reads the ledger after a run:                 *)
(* getEnergyTokens and getBidTokens of db/producerDB.go, one algorithm in  *)
(* two copies.  It asks for an hour at a time; when an answer is too long  *)
(* it starts that hour again in shorter windows, whose number is the next  *)
(* divisor of the hour, until every window's answer is short enough.       *)
(***************************************************************************)
EXTENDS Integers, FiniteSets

CONSTANTS
  Tokens,     \* the tokens, or the bids with status "success", on the ledger
  Stamps,     \* times they may have
  StartTime,  \* of the simulation
  Hours,      \* diff / interval: the full hours it lasts
  Interval,   \* one hour
  Limit       \* 99999, the longest answer that is used

ASSUME WindowAssumption ==
  /\ Stamps \subseteq Nat /\ StartTime \in Nat /\ Hours \in Nat
  /\ Interval \in Nat \ {0} /\ Interval % 2 = 0
  /\ Limit \in Nat

VARIABLES
  stamp,          \* stamp[t]: the time of t, fixed
  mode,             \* "hour", "split", "spin", "done", or "panic"
  i,              \* the hour it is at
  split, count,   \* the number of windows of that hour, and the window it is at
  tokenList,      \* how often each token is in the list of that hour
  fullTokenList   \* how often each token is in the list of all hours

reportVars == <<stamp, mode, i, split, count, tokenList, fullTokenList>>

Empty == [t \in Tokens |-> 0]

ReportInit ==
  /\ stamp \in [Tokens -> Stamps]
  /\ mode = "hour" /\ i = 0
  /\ split = 2 /\ count = 0
  /\ tokenList = Empty /\ fullTokenList = Empty

-----------------------------------------------------------------------------
\* The selector of QueryByTime and QueryBid takes both ends in.
Query(from, to) == {t \in Tokens : from <= stamp[t] /\ stamp[t] <= to}

TooLong(found) == Cardinality(found) > Limit

\* append(list, found...)
AppendAll(list, found) == [t \in Tokens |-> IF t \in found THEN list[t] + 1 ELSE list[t]]

HourStart == StartTime + i * Interval

HourWindow == Query(HourStart, HourStart + Interval - 1)

\* splitStart of window n; the division comes after the multiplication.
SplitStart(n) == HourStart + (n * Interval) \div split

\* Mutant: the end of a window is the start of the next one.
SplitWindowOverlaps == Query(SplitStart(count), SplitStart(count + 1))

SplitWindow == Query(SplitStart(count), SplitStart(count + 1) - 1)

WholeHour ==
  /\ mode = "hour" /\ i < Hours
  /\ ~TooLong(HourWindow)
  /\ fullTokenList' = AppendAll(fullTokenList, HourWindow)
  /\ i' = i + 1
  /\ UNCHANGED <<stamp, mode, split, count, tokenList>>

SplitHour ==
  /\ mode = "hour" /\ i < Hours
  /\ TooLong(HourWindow)
  /\ mode' = "split" /\ split' = 2 /\ count' = 0
  /\ tokenList' = Empty
  /\ UNCHANGED <<stamp, i, fullTokenList>>

\* A window but the last.
NextWindow ==
  /\ mode = "split" /\ count + 1 < split
  /\ ~TooLong(SplitWindow)
  /\ tokenList' = AppendAll(tokenList, SplitWindow)
  /\ count' = count + 1
  /\ UNCHANGED <<stamp, mode, i, split, fullTokenList>>

LastWindow ==
  /\ mode = "split" /\ count + 1 = split
  /\ ~TooLong(SplitWindow)
  /\ fullTokenList' =
       [t \in Tokens |-> fullTokenList[t] + AppendAll(tokenList, SplitWindow)[t]]
  /\ mode' = "hour" /\ i' = i + 1
  /\ count' = 0 /\ tokenList' = Empty
  /\ UNCHANGED <<stamp, split>>

\* Mutant: the search begins with the number that was too small.
NextSplitOrSame(n) ==
  /\ Interval % n = 0
  /\ n >= split /\ \A k \in split..(n - 1) : Interval % k # 0

\* n is the next divisor of the hour.
NextSplit(n) ==
  /\ Interval % n = 0
  /\ n > split /\ \A k \in (split + 1)..(n - 1) : Interval % k # 0

Resplit ==
  /\ mode = "split"
  /\ TooLong(SplitWindow)
  /\ \E n \in 1..Interval : NextSplit(n) /\ split' = n
  /\ count' = 0 /\ tokenList' = Empty
  /\ UNCHANGED <<stamp, mode, i, fullTokenList>>

\* There is no larger divisor: the loop that looks for one does not end.
Spin ==
  /\ mode = "split" /\ split >= Interval
  /\ TooLong(SplitWindow)
  /\ mode' = "spin"
  /\ UNCHANGED <<stamp, i, split, count, tokenList, fullTokenList>>

\* DbResister: ID is the primary key, a second row with it fails.
DbResister ==
  /\ mode = "hour" /\ i = Hours
  /\ mode' = IF \E t \in Tokens : fullTokenList[t] > 1 THEN "panic" ELSE "done"
  /\ UNCHANGED <<stamp, i, split, count, tokenList, fullTokenList>>

ReportNext ==
  \/ WholeHour
  \/ SplitHour
  \/ NextWindow
  \/ LastWindow
  \/ Resplit
  \/ Spin
  \/ DbResister

ReportSpec == ReportInit /\ [][ReportNext]_reportVars

\* A query that fails is repeated, and succeeds at last.
FairReportSpec == ReportSpec /\ WF_reportVars(ReportNext)

-----------------------------------------------------------------------------
\* From the start of the simulation to the end of the hours read so far.
Read(t) == StartTime <= stamp[t] /\ stamp[t] < HourStart

\* Every token of the full hours is listed once, whatever windows an hour was
\* split into and started again with: no gap and no overlap between windows,
\* nothing left of an attempt that was given up.
ListedOnce ==
  /\ mode # "panic"
  /\ \A t \in Tokens : fullTokenList[t] = IF Read(t) THEN 1 ELSE 0

\* The report is finished unless more tokens than an answer may have are of one
\* instant: the windows get shorter until every answer fits.
ReportEnds ==
  (\A x \in Stamps : Cardinality({t \in Tokens : stamp[t] = x}) <= Limit) => <>(mode = "done")

=============================================================================
