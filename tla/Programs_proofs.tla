--------------------------- MODULE Programs_proofs ---------------------------
(* The programs that run beside the market and beside each other: for any     *)
(* stamps, jobs, blocks and prices, and any crashes, failures and delays.     *)
EXTENDS AuctionEndLoop, ReportWindows, JobQueue, BlockListener, PendingBlocks, Operator,
        Sums_proofs

-----------------------------------------------------------------------------
(* The report over windows of time: no token is listed twice and, once it is  *)
(* finished, none is left out.                                                *)

ReportTypes ==
  /\ stamp \in [Tokens -> Nat]
  /\ mode \in {"hour", "split", "spin", "done", "panic"}
  /\ i \in Nat
  /\ split \in Nat \ {0} /\ count \in Nat
  /\ tokenList \in [Tokens -> Nat] /\ fullTokenList \in [Tokens -> Nat]

\* shown has every token of a time from lo on and before upto, once, and no other.
Lists(shown, lo, upto) ==
  /\ shown \in [Tokens -> Nat]
  /\ \A t \in Tokens : shown[t] = IF lo <= stamp[t] /\ stamp[t] < upto THEN 1 ELSE 0

\* The list of the hour at hand has the windows read since the last start once,
\* and there are windows left.
HourListedOnce ==
  mode = "split" => count < split /\ Lists(tokenList, HourStart, SplitStart(count))

ReportInv == ReportTypes /\ HourListedOnce /\ ListedOnce

-----------------------------------------------------------------------------
\* The windows of an hour begin where it begins,
LEMMA FirstWindow ==
  ASSUME NEW I \in Nat, NEW s \in Nat \ {0}
  PROVE  (0 * I) \div s = 0
  BY SMT

\* follow one another,
LEMMA WindowsFollow ==
  ASSUME NEW I \in Nat, NEW s \in Nat \ {0}, NEW n \in Nat
  PROVE  /\ (n * I) \div s \in Nat
         /\ (n * I) \div s <= ((n + 1) * I) \div s
<1> DEFINE a == n * I
           b == (n + 1) * I
<1>1. a \in Nat /\ b \in Nat /\ a <= b
  BY SMT
<1> HIDE DEF a, b
<1>2. a \div s \in Nat /\ a \div s <= b \div s
  BY <1>1, SMT
<1> QED
  BY <1>2 DEF a, b

\* and end where it ends.
LEMMA LastWindowEnds ==
  ASSUME NEW I \in Nat, NEW s \in Nat \ {0}
  PROVE  (s * I) \div s = I
  BY SMT

-----------------------------------------------------------------------------
\* Appending a query to a list that has exactly the tokens before its window
\* gives one that has exactly those before its end.
LEMMA AppendStep ==
  ASSUME ReportTypes, NEW shown, NEW lo \in Nat, NEW from \in Nat, NEW upto \in Nat,
         lo <= from, from <= upto, Lists(shown, lo, from)
  PROVE  Lists(AppendAll(shown, Query(from, upto - 1)), lo, upto)
  BY DEF ReportTypes, AppendAll, Query, Lists

\* An hour is Interval long, and its windows are in it.
LEMMA HourFacts ==
  ASSUME ReportTypes
  PROVE  /\ HourStart \in Nat
         /\ StartTime <= HourStart
         /\ StartTime + (i + 1) * Interval = HourStart + Interval
         /\ SplitStart(0) = HourStart
         /\ SplitStart(split) = HourStart + Interval
         /\ \A n \in Nat : SplitStart(n) \in Nat /\ HourStart <= SplitStart(n)
                            /\ SplitStart(n) <= SplitStart(n + 1)
<1>1. /\ StartTime \in Nat /\ Interval \in Nat /\ i \in Nat /\ split \in Nat \ {0}
  BY WindowAssumption DEF ReportTypes
<1>2. i * Interval \in Nat /\ (i + 1) * Interval = i * Interval + Interval
  BY <1>1, SMT
<1>3. /\ HourStart \in Nat /\ StartTime <= HourStart
      /\ StartTime + (i + 1) * Interval = HourStart + Interval
  BY <1>1, <1>2 DEF HourStart
<1>4. SplitStart(0) = HourStart
  BY <1>1, <1>3, FirstWindow DEF SplitStart
<1>5. SplitStart(split) = HourStart + Interval
  BY <1>1, <1>3, LastWindowEnds DEF SplitStart
<1>6. ASSUME NEW n \in Nat
      PROVE  /\ SplitStart(n) \in Nat /\ HourStart <= SplitStart(n)
             /\ SplitStart(n) <= SplitStart(n + 1)
  <2>1. /\ (n * Interval) \div split \in Nat
        /\ ((n + 1) * Interval) \div split \in Nat
        /\ (n * Interval) \div split <= ((n + 1) * Interval) \div split
    BY <1>1, WindowsFollow
  <2> QED
    BY <2>1, <1>3 DEF SplitStart
<1> QED
  BY <1>3, <1>4, <1>5, <1>6

\* An hour that is started again has an empty list before its first window.
LEMMA RestartStep ==
  ASSUME ReportTypes, ReportTypes', UNCHANGED <<stamp, i>>, count' = 0, tokenList' = Empty
  PROVE  HourListedOnce'
<1>1. Interval \in Nat /\ HourStart \in Nat /\ HourStart' = HourStart /\ split' \in Nat \ {0}
  BY WindowAssumption, HourFacts DEF ReportTypes, HourStart
<1>2. (0 * Interval) \div split' = 0
  BY <1>1, FirstWindow
<1>3. SplitStart(count)' = HourStart'
  <2>1. SplitStart(count)' = HourStart' + (count' * Interval) \div split'
    BY DEF SplitStart
  <2>2. (count' * Interval) \div split' = 0
    BY <1>2
  <2> QED
    BY <1>1, <2>1, <2>2
<1>4. \A t \in Tokens : ~(HourStart <= stamp'[t] /\ stamp'[t] < HourStart) /\ stamp'[t] \in Nat
  BY <1>1 DEF ReportTypes
<1>5. Lists(tokenList, HourStart, SplitStart(count))'
  BY <1>1, <1>3, <1>4 DEF Lists, Empty
<1> QED
  BY <1>1, <1>5 DEF HourListedOnce

-----------------------------------------------------------------------------
LEMMA ReportStarts == ReportInit => ReportInv
<1> SUFFICES ASSUME ReportInit PROVE ReportInv
  OBVIOUS
<1>1. ReportTypes
  <2>1. stamp \in [Tokens -> Nat]
    BY WindowAssumption DEF ReportInit
  <2>2. Empty \in [Tokens -> Nat]
    BY DEF Empty
  <2> QED
    BY <2>1, <2>2 DEF ReportInit, ReportTypes
<1>2. HourStart = StartTime
  BY WindowAssumption DEF ReportInit, HourStart
<1>3. ListedOnce
  BY <1>1, <1>2, WindowAssumption DEF ReportInit, ReportTypes, ListedOnce, Read, Empty
<1> QED
  BY <1>1, <1>3 DEF ReportInit, ReportInv, HourListedOnce

LEMMA ReportStep == ReportInv /\ [ReportNext]_reportVars => ReportInv'
<1> SUFFICES ASSUME ReportInv, [ReportNext]_reportVars PROVE ReportInv'
  OBVIOUS
<1> USE DEF ReportInv
<1>0. /\ ReportTypes /\ HourListedOnce /\ ListedOnce
      /\ Interval \in Nat \ {0} /\ StartTime \in Nat
  BY WindowAssumption
<1>1. CASE WholeHour
  <2>1. /\ i' = i + 1 /\ stamp' = stamp /\ mode = "hour" /\ mode' = "hour"
        /\ split' = split /\ count' = count /\ tokenList' = tokenList
        /\ fullTokenList' = AppendAll(fullTokenList, Query(HourStart, HourStart + Interval - 1))
    BY <1>1 DEF WholeHour, HourWindow
  <2>2. HourStart' = HourStart + Interval
    BY <1>0, <2>1, HourFacts DEF HourStart
  <2>3. Lists(fullTokenList', StartTime, HourStart + Interval)
    <3>1. /\ HourStart \in Nat /\ HourStart + Interval \in Nat /\ StartTime <= HourStart
          /\ HourStart <= HourStart + Interval
      BY <1>0, HourFacts
    <3>2. Lists(fullTokenList, StartTime, HourStart)
      BY <1>0 DEF ReportTypes, ListedOnce, Read, Lists
    <3> QED
      BY <1>0, <2>1, <3>1, <3>2, AppendStep
  <2>4. ReportTypes'
    BY <1>0, <2>1, <2>3 DEF ReportTypes, Lists
  <2>5. ListedOnce'
    BY <2>1, <2>2, <2>3 DEF ListedOnce, Read, Lists
  <2> QED
    BY <2>1, <2>4, <2>5 DEF HourListedOnce
<1>2. CASE SplitHour
  <2>1. /\ ReportTypes' /\ HourStart' = HourStart /\ stamp' = stamp
        /\ fullTokenList' = fullTokenList /\ mode' = "split"
    BY <1>0, <1>2 DEF SplitHour, ReportTypes, Empty, HourStart
  <2>2. HourListedOnce'
    BY <1>0, <1>2, <2>1, RestartStep DEF SplitHour
  <2>3. ListedOnce'
    BY <1>0, <2>1 DEF ListedOnce, Read
  <2> QED
    BY <2>1, <2>2, <2>3
<1>3. CASE NextWindow
  <2>1. /\ stamp' = stamp /\ mode = "split" /\ mode' = "split" /\ i' = i /\ split' = split
        /\ fullTokenList' = fullTokenList /\ count' = count + 1 /\ count + 1 < split
        /\ tokenList' =
             AppendAll(tokenList, Query(SplitStart(count), SplitStart(count + 1) - 1))
    BY <1>3 DEF NextWindow, SplitWindow
  <2>2. HourStart' = HourStart /\ SplitStart(count)' = SplitStart(count + 1)
    BY <2>1 DEF HourStart, SplitStart
  <2>3. Lists(tokenList', HourStart, SplitStart(count + 1))
    <3>1. count \in Nat /\ count + 1 \in Nat
      BY <1>0 DEF ReportTypes
    <3>2. /\ HourStart \in Nat /\ SplitStart(count) \in Nat /\ SplitStart(count + 1) \in Nat
          /\ HourStart <= SplitStart(count) /\ SplitStart(count) <= SplitStart(count + 1)
      BY <1>0, <3>1, HourFacts
    <3>3. Lists(tokenList, HourStart, SplitStart(count))
      BY <1>0, <2>1 DEF HourListedOnce
    <3> QED
      BY <1>0, <2>1, <3>2, <3>3, AppendStep
  <2>4. ReportTypes'
    BY <1>0, <2>1, <2>3 DEF ReportTypes, Lists
  <2>5. HourListedOnce'
    BY <2>1, <2>2, <2>3 DEF HourListedOnce, Lists
  <2>6. ListedOnce'
    BY <1>0, <2>1, <2>2 DEF ListedOnce, Read
  <2> QED
    BY <2>4, <2>5, <2>6
<1>4. CASE LastWindow
  <2> DEFINE whole == AppendAll(tokenList, Query(SplitStart(count), SplitStart(count + 1) - 1))
  <2>1. /\ stamp' = stamp /\ mode = "split" /\ mode' = "hour" /\ i' = i + 1 /\ split' = split
        /\ count + 1 = split /\ count' = 0 /\ tokenList' = Empty
        /\ fullTokenList' = [t \in Tokens |-> fullTokenList[t] + whole[t]]
    BY <1>4 DEF LastWindow, SplitWindow
  <2>2. HourStart' = HourStart + Interval
    BY <1>0, <2>1, HourFacts DEF HourStart
  <2>3. Lists(whole, HourStart, HourStart + Interval)
    <3>1. count \in Nat /\ count + 1 \in Nat
      BY <1>0 DEF ReportTypes
    <3>2. /\ HourStart \in Nat /\ SplitStart(count) \in Nat /\ SplitStart(count + 1) \in Nat
          /\ HourStart <= SplitStart(count) /\ SplitStart(count) <= SplitStart(count + 1)
          /\ SplitStart(count + 1) = HourStart + Interval
      BY <1>0, <2>1, <3>1, HourFacts
    <3>3. Lists(tokenList, HourStart, SplitStart(count))
      BY <1>0, <2>1 DEF HourListedOnce
    <3>4. Lists(whole, HourStart, SplitStart(count + 1))
      BY <1>0, <3>2, <3>3, AppendStep
    <3> QED
      BY <3>2, <3>4
  <2> HIDE DEF whole
  <2>4. ReportTypes'
    BY <1>0, <2>1, <2>3 DEF ReportTypes, Lists, Empty
  <2>5. ListedOnce'
    <3>1. HourStart \in Nat /\ StartTime <= HourStart
      BY <1>0, HourFacts
    <3>2. ASSUME NEW t \in Tokens
          PROVE  fullTokenList'[t] = IF Read(t)' THEN 1 ELSE 0
      <4>1. fullTokenList'[t] = fullTokenList[t] + whole[t] /\ stamp'[t] \in Nat
        BY <1>0, <2>1 DEF ReportTypes
      <4>2. fullTokenList[t] = IF StartTime <= stamp'[t] /\ stamp'[t] < HourStart THEN 1 ELSE 0
        BY <1>0, <2>1 DEF ListedOnce, Read
      <4>3. whole[t] =
              IF HourStart <= stamp'[t] /\ stamp'[t] < HourStart + Interval THEN 1 ELSE 0
        BY <2>1, <2>3 DEF Lists
      <4> QED
        BY <1>0, <2>2, <3>1, <4>1, <4>2, <4>3 DEF Read
    <3> QED
      BY <2>1, <3>2 DEF ListedOnce
  <2> QED
    BY <2>1, <2>4, <2>5 DEF HourListedOnce
<1>5. CASE Resplit
  <2>1. /\ ReportTypes' /\ HourStart' = HourStart /\ stamp' = stamp /\ mode' = mode
        /\ fullTokenList' = fullTokenList
    BY <1>0, <1>5 DEF Resplit, NextSplit, ReportTypes, Empty, HourStart
  <2>2. HourListedOnce'
    BY <1>0, <1>5, <2>1, RestartStep DEF Resplit
  <2>3. ListedOnce'
    BY <1>0, <1>5, <2>1 DEF Resplit, ListedOnce, Read
  <2> QED
    BY <2>1, <2>2, <2>3
<1>6. CASE Spin
  BY <1>0, <1>6 DEF Spin, ReportTypes, HourListedOnce, ListedOnce, Read, HourStart
<1>7. CASE DbResister
  <2>1. \A t \in Tokens : ~(fullTokenList[t] > 1)
    BY <1>0 DEF ListedOnce
  <2> QED
    BY <1>0, <1>7, <2>1 DEF DbResister, ReportTypes, HourListedOnce, ListedOnce, Read, HourStart
<1>8. CASE UNCHANGED reportVars
  BY <1>0, <1>8 DEF reportVars, ReportTypes, HourListedOnce, ListedOnce, Read, Lists, SplitStart,
                    HourStart
<1> QED
  BY <1>1, <1>2, <1>3, <1>4, <1>5, <1>6, <1>7, <1>8 DEF ReportNext

\* The report has every token of the hours it has read, and has it once
\* (producerDB.go:221-308): no primary key is used twice.
THEOREM ReportIsComplete == ReportSpec => []ListedOnce
<1>1. ReportInv => ListedOnce
  BY DEF ReportInv
<1> QED
  BY ReportStarts, ReportStep, <1>1, PTL DEF ReportSpec

-----------------------------------------------------------------------------
(* The job queue of the REST server: a request takes effect at most once as   *)
(* long as no proposal or envelope is turned down, and what a client reads of *)
(* its job is true.                                                           *)

Statuses == {"none", "waiting", "active", "delayed", "completed", "failed"}
Results == {"none", "payload", "duplicate", "refused"}
Stages == {"idle", "process", "save", "endorse", "broadcast", "commit", "clear", "throw"}

JobRecord ==
  [status : Statuses, order : Orders \cup {NoOrder}, saved : TxIds \cup {NoTx},
   ids : SUBSET TxIds, made : Nat, stalls : Nat, result : Results]
WorkRecord ==
  [pc : Stages, tx : TxIds \cup {NoTx}, value : Asset \cup {NoAsset}, fresh : BOOLEAN]
Envelope ==
  [tx : TxIds, id : AssetIds, value : Asset \cup {NoAsset}, fresh : BOOLEAN]

Types ==
  /\ assets \in [AssetIds -> Asset \cup {NoAsset}]
  /\ DOMAIN codes \subseteq TxIds
  /\ ordered \subseteq Envelope
  /\ job \in [Jobs -> JobRecord]
  /\ work \in [Jobs -> WorkRecord]
  /\ created \in [Jobs -> Nat]
  /\ counts \in [timeouts : Nat, rejects : Nat, crashes : Nat, others : Nat]

\* A transaction that has no effect, and no envelope that may give it one.
Valid(t) == t \in DOMAIN codes /\ codes[t] = "VALID"
Spent(t) == ~Valid(t) /\ \A e \in ordered : e.tx = t => t \in DOMAIN codes

\* What the contract says of the job's request now.
Refuses(j) == ExecuteAsset(assets, job[j].order).err

\* While a transaction is submitted it is the one that is saved.
Called(j) ==
  /\ job[j].status # "none" => job[j].order \in Orders
  /\ work[j].pc # "idle" => job[j].status = "active"
  /\ work[j].pc = "save" => /\ job[j].saved = NoTx
                            /\ work[j].tx \in TxIds /\ work[j].tx # NoTx /\ work[j].tx.job = j
  /\ work[j].pc \in {"endorse", "broadcast", "commit", "clear"} =>
       work[j].tx = job[j].saved /\ job[j].saved # NoTx
  /\ job[j].saved # NoTx => job[j].saved.job = j /\ job[j].saved \in job[j].ids

\* Envelopes and blocks have transactions of the job's ids, for its asset.
Sent(j) ==
  /\ \A e \in ordered : e.tx.job = j =>
       job[j].status # "none" /\ e.id = job[j].order.id /\ e.tx \in job[j].ids
  /\ \A t \in DOMAIN codes : t.job = j => t \in job[j].ids

\* What is fresh would be endorsed again.
Fresh(j) ==
  /\ \A e \in ordered : e.tx.job = j /\ e.fresh => ~Refuses(j)
  /\ work[j].pc = "broadcast" /\ work[j].fresh => ~Refuses(j)

\* The saved transaction is the only one that has or may still have an effect.
OnlySaved(j) ==
  counts.rejects = 0 =>
    /\ \A t \in TxIds : t.job = j /\ t # job[j].saved => Spent(t)
    /\ work[j].pc = "clear" => Spent(job[j].saved)

ToldTruth(j) ==
  /\ job[j].result # "none" => job[j].status = "completed"
  /\ job[j].result = "payload" => \E t \in DOMAIN codes : t.job = j /\ Valid(t)
  /\ job[j].result = "refused" /\ counts.rejects = 0 =>
       \A t \in TxIds : t.job = j =>
         /\ ~Valid(t)
         /\ \A e \in ordered : e.tx = t => t \in DOMAIN codes \/ ~e.fresh

JobInv(j) == Called(j) /\ Sent(j) /\ Fresh(j) /\ OnlySaved(j) /\ ToldTruth(j)

(* AppliedOnceUnlessRejected is not inductive: that a new transaction is only *)
(* created when the one before it is spent rests on what is saved at each     *)
(* point of the function, and on what may still be under way.                 *)
QueueInv == Types /\ Spent(NoTx) /\ \A j \in Jobs : JobInv(j)

-----------------------------------------------------------------------------
LEMMA NoTxIs == NoTx.n = 0
  BY DEF NoTx

LEMMA NewTx ==
  ASSUME NEW j \in Jobs, NEW n \in Nat
  PROVE  /\ Tx(j, n + 1) \in TxIds
         /\ Tx(j, n + 1) # NoTx
         /\ Tx(j, n + 1).job = j
<1>1. Tx(j, n + 1).n = n + 1 /\ Tx(j, n + 1).job = j
  BY DEF Tx
<1>2. n + 1 # 0
  OBVIOUS
<1>3. Tx(j, n + 1) \in TxIds
  BY DEF Tx, TxIds
<1> QED
  BY <1>1, <1>2, <1>3, NoTxIs

\* A function of the contract looks at the key of its asset only.
LEMMA ExecuteLocal ==
  ASSUME NEW s, NEW u, NEW req \in AssetRequests, s[req.id] = u[req.id]
  PROVE  ExecuteAsset(s, req) = ExecuteAsset(u, req)
  BY DEF ExecuteAsset, CreateAsset, UpdateAsset, TransferAsset, DeleteAsset, AssetExists

\* What it writes is an asset or nothing.
LEMMA ExecuteType ==
  ASSUME NEW s \in [AssetIds -> Asset \cup {NoAsset}], NEW req \in AssetRequests
  PROVE  /\ req.id \in AssetIds
         /\ ExecuteAsset(s, req).err \in BOOLEAN
         /\ ExecuteAsset(s, req).value \in Asset \cup {NoAsset}
<1>1. CASE req \in [op : {"CreateAsset", "UpdateAsset"}, id : AssetIds, details : Details, owner : Owners]
  BY <1>1 DEF ExecuteAsset, CreateAsset, UpdateAsset, AssetExists, Put, Refused, Asset
<1>2. CASE req \in [op : {"TransferAsset"}, id : AssetIds, owner : Owners]
  <2>1. s[req.id] # NoAsset => [s[req.id] EXCEPT !.owner = req.owner] \in Asset
    BY <1>2 DEF Asset
  <2>2. ExecuteAsset(s, req) = TransferAsset(s, req.id, req.owner)
    BY <1>2 DEF ExecuteAsset
  <2> QED
    BY <1>2, <2>1, <2>2 DEF TransferAsset, AssetExists, Put, Refused
<1>3. CASE req \in [op : {"DeleteAsset"}, id : AssetIds]
  BY <1>3 DEF ExecuteAsset, DeleteAsset, AssetExists, Put, Refused
<1> QED
  BY <1>1, <1>2, <1>3 DEF AssetRequests

LEMMA QueueStarts == QueueInit => QueueInv
<1> SUFFICES ASSUME QueueInit PROVE QueueInv
  OBVIOUS
<1>1. NewJob \in JobRecord /\ NotRunning \in WorkRecord
  BY DEF NewJob, NotRunning, JobRecord, WorkRecord, Statuses, Results, Stages
<1>2. Types
  BY <1>1 DEF QueueInit, Types, Envelope
<1>3. Spent(NoTx)
  BY DEF QueueInit, Spent, Valid
<1>4. ASSUME NEW j \in Jobs PROVE JobInv(j)
  BY DEF QueueInit, JobInv, Called, Sent, Fresh, OnlySaved, ToldTruth, Spent, Valid, NewJob, NotRunning
<1> QED
  BY <1>2, <1>3, <1>4 DEF QueueInv

\* A job that a step does not touch.
LEMMA Untouched ==
  ASSUME NEW k \in Jobs, JobInv(k), job'[k] = job[k], work'[k] = work[k],
         UNCHANGED <<assets, codes, ordered>>, counts'.rejects = counts.rejects
  PROVE  JobInv(k)'
  BY DEF JobInv, Called, Sent, Fresh, OnlySaved, ToldTruth, Spent, Valid, Refuses

\* A step of one job that sends and commits nothing.
LEMMA StepOfOne ==
  ASSUME QueueInv, NEW j \in Jobs,
         UNCHANGED <<assets, codes, ordered>>, counts'.rejects = counts.rejects,
         \A k \in Jobs \ {j} : job'[k] = job[k] /\ work'[k] = work[k],
         Types', JobInv(j)'
  PROVE  QueueInv'
<1>1. Spent(NoTx)'
  BY DEF QueueInv, Spent, Valid
<1>2. ASSUME NEW k \in Jobs PROVE JobInv(k)'
  BY Untouched DEF QueueInv
<1> QED
  BY <1>1, <1>2 DEF QueueInv

\* The types after a step that changes one job and its call.
LEMMA TypesOfOne ==
  ASSUME Types, NEW j \in Jobs, NEW r \in JobRecord, NEW w \in WorkRecord,
         job' = [job EXCEPT ![j] = r], work' = [work EXCEPT ![j] = w],
         UNCHANGED <<assets, codes, ordered>>,
         created' \in [Jobs -> Nat],
         counts' \in [timeouts : Nat, rejects : Nat, crashes : Nat, others : Nat]
  PROVE  Types'
  BY DEF Types

-----------------------------------------------------------------------------
(* One lemma for every action.                                              *)

LEMMA AddJobKeeps ==
  ASSUME QueueInv, NEW j \in Jobs, AddJob(j)
  PROVE  QueueInv'
<1>1. job[j] \in JobRecord /\ work[j] \in WorkRecord /\ JobInv(j)
  BY DEF QueueInv, Types
<1>2. Types'
  <2>0. PICK order \in Orders : job' = [job EXCEPT ![j].status = "waiting", ![j].order = order]
    BY DEF AddJob
  <2>1. job'[j] \in JobRecord /\ job' = [job EXCEPT ![j] = job'[j]]
    BY <1>1, <2>0 DEF QueueInv, Types, JobRecord, Statuses, Results
  <2>2. work'[j] \in WorkRecord /\ work' = [work EXCEPT ![j] = work'[j]]
    BY <1>1 DEF QueueInv, Types, WorkRecord, AddJob, Stages
  <2>3. created' \in [Jobs -> Nat] /\ counts' \in [timeouts : Nat, rejects : Nat, crashes : Nat, others : Nat]
    BY DEF QueueInv, Types, AddJob
  <2>4. UNCHANGED <<assets, codes, ordered>>
    BY DEF AddJob
  <2> QED
    BY <2>1, <2>2, <2>3, <2>4, TypesOfOne DEF QueueInv
<1>3. JobInv(j)'
  BY <1>1 DEF QueueInv, Types, JobRecord, WorkRecord, AddJob, JobInv, Called, Sent, Fresh, OnlySaved, ToldTruth, Spent, Valid, Refuses
<1> QED
  BY <1>1, <1>2, <1>3, StepOfOne DEF QueueInv, Types, AddJob

LEMMA TakeJobKeeps ==
  ASSUME QueueInv, NEW j \in Jobs, TakeJob(j)
  PROVE  QueueInv'
<1>1. job[j] \in JobRecord /\ work[j] \in WorkRecord /\ JobInv(j)
  BY DEF QueueInv, Types
<1>2. Types'
  BY <1>1 DEF QueueInv, Types, JobRecord, WorkRecord, TakeJob, Goto, Statuses, Results, Stages
<1>3. JobInv(j)'
  BY <1>1 DEF QueueInv, Types, JobRecord, WorkRecord, TakeJob, Goto, JobInv, Called, Sent, Fresh, OnlySaved, ToldTruth, Spent, Valid, Refuses
<1> QED
  BY <1>1, <1>2, <1>3, StepOfOne DEF QueueInv, Types, TakeJob, Goto

LEMMA RetryKeeps ==
  ASSUME QueueInv, NEW j \in Jobs, Retry(j)
  PROVE  QueueInv'
<1>1. job[j] \in JobRecord /\ work[j] \in WorkRecord /\ JobInv(j)
  BY DEF QueueInv, Types
<1>2. Types'
  BY <1>1 DEF QueueInv, Types, JobRecord, WorkRecord, Retry, Statuses, Results, Stages
<1>3. JobInv(j)'
  BY <1>1 DEF QueueInv, Types, JobRecord, WorkRecord, Retry, JobInv, Called, Sent, Fresh, OnlySaved, ToldTruth, Spent, Valid, Refuses
<1> QED
  BY <1>1, <1>2, <1>3, StepOfOne DEF QueueInv, Types, Retry

LEMMA ThrowKeeps ==
  ASSUME QueueInv, NEW j \in Jobs, Throw(j)
  PROVE  QueueInv'
<1>1. job[j] \in JobRecord /\ work[j] \in WorkRecord /\ JobInv(j)
  BY DEF QueueInv, Types
<1>2. Types'
  BY <1>1 DEF QueueInv, Types, JobRecord, WorkRecord, Throw, At, NotRunning, Statuses, Results, Stages
<1>3. JobInv(j)'
  BY <1>1 DEF QueueInv, Types, JobRecord, WorkRecord, Throw, At, NotRunning, JobInv, Called, Sent, Fresh, OnlySaved, ToldTruth, Spent, Valid, Refuses
<1> QED
  BY <1>1, <1>2, <1>3, StepOfOne DEF QueueInv, Types, Throw, At, NotRunning

LEMMA StalledKeeps ==
  ASSUME QueueInv, NEW j \in Jobs, Stalled(j)
  PROVE  QueueInv'
<1>1. job[j] \in JobRecord /\ work[j] \in WorkRecord /\ JobInv(j)
  BY DEF QueueInv, Types
<1>2. Types'
  <2>1. job'[j] \in JobRecord /\ job' = [job EXCEPT ![j] = job'[j]]
    BY <1>1 DEF QueueInv, Types, JobRecord, Stalled, At, Statuses, Results
  <2>2. work'[j] \in WorkRecord /\ work' = [work EXCEPT ![j] = work'[j]]
    BY <1>1 DEF QueueInv, Types, WorkRecord, Stalled, At, Stages
  <2>3. created' \in [Jobs -> Nat] /\ counts' \in [timeouts : Nat, rejects : Nat, crashes : Nat, others : Nat]
    BY DEF QueueInv, Types, Stalled, At
  <2>4. UNCHANGED <<assets, codes, ordered>>
    BY DEF Stalled
  <2> QED
    BY <2>1, <2>2, <2>3, <2>4, TypesOfOne DEF QueueInv
<1>3. JobInv(j)'
  <2>1. /\ work'[j] = work[j] /\ job'[j].order = job[j].order /\ job'[j].saved = job[j].saved
        /\ job'[j].ids = job[j].ids /\ job'[j].result = job[j].result /\ job'[j].status # "none"
    BY <1>1 DEF Stalled, QueueInv, Types, JobRecord
  <2>2. job[j].status = "active" /\ work[j].pc = "idle"
    BY DEF Stalled, At
  <2>3. UNCHANGED <<assets, codes, ordered, counts>>
    BY DEF Stalled
  <2> QED
    BY <1>1, <2>1, <2>2, <2>3 DEF JobInv, Called, Sent, Fresh, OnlySaved, ToldTruth, Spent, Valid, Refuses
<1> QED
  BY <1>1, <1>2, <1>3, StepOfOne DEF QueueInv, Types, Stalled, At

LEMMA UseTransactionKeeps ==
  ASSUME QueueInv, NEW j \in Jobs, UseTransaction(j)
  PROVE  QueueInv'
<1>1. job[j] \in JobRecord /\ work[j] \in WorkRecord /\ JobInv(j)
  BY DEF QueueInv, Types
<1>2. Types'
  <2>1. job'[j] \in JobRecord /\ job' = [job EXCEPT ![j] = job'[j]]
    BY <1>1 DEF QueueInv, Types, JobRecord, UseTransaction, At, Statuses, Results
  <2>0. Tx(j, created[j] + 1) \in TxIds
    BY NewTx DEF QueueInv, Types
  <2>2. work'[j] \in WorkRecord /\ work' = [work EXCEPT ![j] = work'[j]]
    <3>1. CASE job[j].saved # NoTx
      <4>1. work' = [work EXCEPT ![j].pc = "endorse", ![j].tx = job[j].saved]
        BY <3>1 DEF UseTransaction
      <4> QED
        BY <1>1, <4>1 DEF QueueInv, Types, JobRecord, WorkRecord, Stages
    <3>2. CASE job[j].saved = NoTx
      BY <1>1, <2>0, <3>2 DEF QueueInv, Types, JobRecord, WorkRecord, UseTransaction, Stages
    <3> QED
      BY <3>1, <3>2
  <2>3. created' \in [Jobs -> Nat] /\ counts' \in [timeouts : Nat, rejects : Nat, crashes : Nat, others : Nat]
    BY DEF QueueInv, Types, UseTransaction, At
  <2>4. UNCHANGED <<assets, codes, ordered>>
    BY DEF UseTransaction
  <2> QED
    BY <2>1, <2>2, <2>3, <2>4, TypesOfOne DEF QueueInv
<1>3. JobInv(j)'
  BY <1>1, NewTx DEF QueueInv, Types, JobRecord, WorkRecord, UseTransaction, At, JobInv, Called, Sent, Fresh, OnlySaved, ToldTruth, Spent, Valid, Refuses
<1> QED
  BY <1>1, <1>2, <1>3, StepOfOne DEF QueueInv, Types, UseTransaction, At

LEMMA SaveTransactionKeeps ==
  ASSUME QueueInv, NEW j \in Jobs, SaveTransaction(j)
  PROVE  QueueInv'
<1>1. job[j] \in JobRecord /\ work[j] \in WorkRecord /\ JobInv(j)
  BY DEF QueueInv, Types
<1>2. Types'
  <2>0. work[j].tx \in TxIds /\ job[j].ids \cup {work[j].tx} \in SUBSET TxIds
    BY <1>1 DEF SaveTransaction, At, JobInv, Called, JobRecord
  <2>1. job'[j] \in JobRecord /\ job' = [job EXCEPT ![j] = job'[j]]
    BY <1>1, <2>0 DEF QueueInv, Types, JobRecord, SaveTransaction
  <2>2. work'[j] \in WorkRecord /\ work' = [work EXCEPT ![j] = work'[j]]
    BY <1>1 DEF QueueInv, Types, WorkRecord, SaveTransaction, At, Goto, JobInv, Called, Stages
  <2>3. created' \in [Jobs -> Nat] /\ counts' \in [timeouts : Nat, rejects : Nat, crashes : Nat, others : Nat]
    BY DEF QueueInv, Types, SaveTransaction, At, Goto, JobInv, Called
  <2>4. UNCHANGED <<assets, codes, ordered>>
    BY DEF SaveTransaction
  <2> QED
    BY <2>1, <2>2, <2>3, <2>4, TypesOfOne DEF QueueInv
<1>3. JobInv(j)'
  BY <1>1 DEF QueueInv, Types, JobRecord, WorkRecord, SaveTransaction, At, Goto, JobInv, Called, Sent, Fresh, OnlySaved, ToldTruth, Spent, Valid, Refuses
<1> QED
  BY <1>1, <1>2, <1>3, StepOfOne DEF QueueInv, Types, SaveTransaction, At, Goto

LEMMA EndorseKeeps ==
  ASSUME QueueInv, NEW j \in Jobs, Endorse(j)
  PROVE  QueueInv'
<1>1. job[j] \in JobRecord /\ work[j] \in WorkRecord /\ JobInv(j)
  BY DEF QueueInv, Types
<1>2. Types'
  <2>0. ExecuteAsset(assets, job[j].order).err
          \/ ExecuteAsset(assets, job[j].order).value \in Asset \cup {NoAsset}
    BY <1>1, ExecuteType, JobAssumption DEF QueueInv, Types, JobInv, Called, Endorse, At
  <2>1. job'[j] \in JobRecord /\ job' = [job EXCEPT ![j] = job'[j]]
    BY <1>1 DEF QueueInv, Types, JobRecord, Endorse, At, Completes, Endorses, NotRunning, Statuses, Results
  <2>2. work'[j] \in WorkRecord /\ work' = [work EXCEPT ![j] = work'[j]]
    <3>1. CASE work' = [work EXCEPT ![j] = NotRunning]
      BY <1>1, <3>1 DEF QueueInv, Types, WorkRecord, NotRunning, Stages
    <3>2. CASE /\ ~ExecuteAsset(assets, job[j].order).err
               /\ work' = [work EXCEPT ![j].pc = "broadcast",
                             ![j].value = ExecuteAsset(assets, job[j].order).value,
                             ![j].fresh = TRUE]
      BY <1>1, <2>0, <3>2 DEF QueueInv, Types, WorkRecord, Stages
    <3> QED
      BY <3>1, <3>2 DEF Endorse, Completes
  <2>3. created' \in [Jobs -> Nat] /\ counts' \in [timeouts : Nat, rejects : Nat, crashes : Nat, others : Nat]
    BY DEF QueueInv, Types, Endorse, At, Completes, Endorses, NotRunning
  <2>4. UNCHANGED <<assets, codes, ordered>>
    BY DEF Endorse
  <2> QED
    BY <2>1, <2>2, <2>3, <2>4, TypesOfOne DEF QueueInv
<1>3. JobInv(j)'
  BY <1>1 DEF QueueInv, Types, JobRecord, WorkRecord, Endorse, At, Completes, Endorses, NotRunning, JobInv, Called, Sent, Fresh, OnlySaved, ToldTruth, Spent, Valid, Refuses
<1> QED
  BY <1>1, <1>2, <1>3, StepOfOne DEF QueueInv, Types, Endorse, At, Completes, Endorses, NotRunning

LEMMA CommitTimeoutKeeps ==
  ASSUME QueueInv, NEW j \in Jobs, CommitTimeout(j)
  PROVE  QueueInv'
<1>1. job[j] \in JobRecord /\ work[j] \in WorkRecord /\ JobInv(j)
  BY DEF QueueInv, Types
<1>2. Types'
  <2>1. job'[j] \in JobRecord /\ job' = [job EXCEPT ![j] = job'[j]]
    BY <1>1 DEF QueueInv, Types, JobRecord, CommitTimeout, At, Goto, Statuses, Results
  <2>2. work'[j] \in WorkRecord /\ work' = [work EXCEPT ![j] = work'[j]]
    BY <1>1 DEF QueueInv, Types, WorkRecord, CommitTimeout, At, Goto, Stages
  <2>3. created' \in [Jobs -> Nat] /\ counts' \in [timeouts : Nat, rejects : Nat, crashes : Nat, others : Nat]
    BY DEF QueueInv, Types, CommitTimeout, At, Goto
  <2>4. UNCHANGED <<assets, codes, ordered>>
    BY DEF CommitTimeout
  <2> QED
    BY <2>1, <2>2, <2>3, <2>4, TypesOfOne DEF QueueInv
<1>3. JobInv(j)'
  BY <1>1 DEF QueueInv, Types, JobRecord, WorkRecord, CommitTimeout, At, Goto, JobInv, Called, Sent, Fresh, OnlySaved, ToldTruth, Spent, Valid, Refuses
<1> QED
  BY <1>1, <1>2, <1>3, StepOfOne DEF QueueInv, Types, CommitTimeout, At, Goto

LEMMA ClearTransactionKeeps ==
  ASSUME QueueInv, NEW j \in Jobs, ClearTransaction(j)
  PROVE  QueueInv'
<1>1. job[j] \in JobRecord /\ work[j] \in WorkRecord /\ JobInv(j)
  BY DEF QueueInv, Types
<1>2. Types'
  BY <1>1 DEF QueueInv, Types, JobRecord, WorkRecord, ClearTransaction, At, Goto, Statuses, Results, Stages
<1>3. JobInv(j)'
  BY <1>1 DEF QueueInv, Types, JobRecord, WorkRecord, ClearTransaction, At, Goto, JobInv, Called, Sent, Fresh, OnlySaved, ToldTruth, Spent, Valid, Refuses
<1> QED
  BY <1>1, <1>2, <1>3, StepOfOne DEF QueueInv, Types, ClearTransaction, At, Goto

LEMMA RejectedKeeps ==
  ASSUME QueueInv, NEW j \in Jobs, Rejected(j)
  PROVE  QueueInv'
<1>1. /\ UNCHANGED <<assets, codes, ordered, job, created>>
      /\ work' = [work EXCEPT ![j].pc = "clear"]
      /\ work[j].pc \in {"endorse", "broadcast"}
      /\ job[j].status = "active"
      /\ counts' = [counts EXCEPT !.rejects = @ + 1]
  BY DEF Rejected, At, Goto
<1>2. Types'
  BY <1>1 DEF QueueInv, Types, WorkRecord, Stages
<1>3. counts'.rejects # 0
  BY <1>1 DEF QueueInv, Types
<1>4. ASSUME NEW k \in Jobs PROVE JobInv(k)'
  <2>1. work'[k].tx = work[k].tx /\ work'[k].value = work[k].value
        /\ (k # j => work'[k] = work[k]) /\ (k = j => work'[k].pc = "clear")
    BY <1>1 DEF QueueInv, Types, WorkRecord
  <2>2. JobInv(k)
    BY DEF QueueInv
  <2> QED
    BY <1>1, <1>3, <2>1, <2>2
      DEF JobInv, Called, Sent, Fresh, OnlySaved, ToldTruth, Spent, Valid, Refuses
<1>5. Spent(NoTx)'
  BY <1>1 DEF QueueInv, Spent, Valid
<1> QED
  BY <1>2, <1>4, <1>5 DEF QueueInv

LEMMA CrashKeeps ==
  ASSUME QueueInv, Crash
  PROVE  QueueInv'
<1>1. /\ UNCHANGED <<assets, codes, ordered, job, created>>
      /\ work' = [j \in Jobs |-> NotRunning]
      /\ counts' = [counts EXCEPT !.crashes = @ + 1]
  BY DEF Crash
<1>2. NotRunning \in WorkRecord
  BY DEF NotRunning, WorkRecord, Stages
<1>3. Types'
  BY <1>1, <1>2 DEF QueueInv, Types
<1>4. counts'.rejects = counts.rejects
  BY <1>1 DEF QueueInv, Types
<1>5. ASSUME NEW k \in Jobs PROVE JobInv(k)'
  <2>1. work'[k].pc = "idle" /\ JobInv(k)
    BY <1>1 DEF QueueInv, NotRunning
  <2> QED
    BY <1>1, <1>4, <2>1
      DEF JobInv, Called, Sent, Fresh, OnlySaved, ToldTruth, Spent, Valid, Refuses
<1>6. Spent(NoTx)'
  BY <1>1 DEF QueueInv, Spent, Valid
<1> QED
  BY <1>3, <1>5, <1>6 DEF QueueInv

LEMMA BroadcastKeeps ==
  ASSUME QueueInv, NEW j \in Jobs, Broadcast(j)
  PROVE  QueueInv'
<1> DEFINE new == [tx |-> work[j].tx, id |-> job[j].order.id,
                   value |-> work[j].value, fresh |-> work[j].fresh]
<1>1. /\ UNCHANGED <<assets, codes, job, created, counts>>
      /\ ordered' = ordered \cup {new}
      /\ work' = [work EXCEPT ![j].pc = "commit", ![j].value = NoAsset, ![j].fresh = TRUE]
      /\ job[j].status = "active" /\ work[j].pc = "broadcast"
  BY DEF Broadcast, At
<1>2. work[j].tx = job[j].saved /\ job[j].saved # NoTx /\ job[j].saved.job = j
      /\ job[j].saved \in job[j].ids /\ job[j].order \in Orders
  BY <1>1 DEF QueueInv, JobInv, Called
<1>3. new \in Envelope
  <2>1. job[j].order.id \in AssetIds
    BY <1>2, ExecuteType, JobAssumption DEF QueueInv, Types
  <2>2. job[j].ids \subseteq TxIds /\ work[j] \in WorkRecord
    BY DEF QueueInv, Types, JobRecord
  <2> QED
    BY <1>2, <2>1, <2>2 DEF Envelope, WorkRecord
<1>4. Types'
  <2>1. work' \in [Jobs -> WorkRecord]
    <3> DEFINE w == [work[j] EXCEPT !.pc = "commit", !.value = NoAsset, !.fresh = TRUE]
    <3>1. work \in [Jobs -> WorkRecord] /\ work[j] \in WorkRecord
      BY DEF QueueInv, Types
    <3>2. w \in WorkRecord
      BY <3>1 DEF WorkRecord, Stages
    <3>3. work' = [work EXCEPT ![j] = w]
      BY <1>1, <3>1 DEF WorkRecord
    <3> QED
      BY <3>1, <3>2, <3>3
  <2> QED
    BY <1>1, <1>3, <2>1 DEF QueueInv, Types
<1>5. new.tx = job[j].saved /\ new.id = job[j].order.id /\ new.fresh = work[j].fresh
  BY <1>2
<1> HIDE DEF new
<1>6. ASSUME NEW k \in Jobs PROVE JobInv(k)'
  <2>1. JobInv(k) /\ JobInv(j)
    BY DEF QueueInv
  <2>2. CASE k = j
    <3>1. work'[j].pc = "commit" /\ work'[j].tx = work[j].tx
      BY <1>1 DEF QueueInv, Types, WorkRecord
    <3> QED
      BY <1>1, <1>2, <1>5, <2>1, <2>2, <3>1
        DEF JobInv, Called, Sent, Fresh, OnlySaved, ToldTruth, Spent, Valid, Refuses
  <2>3. CASE k # j
    <3>1. work'[k] = work[k]
      BY <1>1, <2>3 DEF QueueInv, Types
    <3> QED
      BY <1>1, <1>2, <1>5, <2>1, <2>3, <3>1
        DEF JobInv, Called, Sent, Fresh, OnlySaved, ToldTruth, Spent, Valid, Refuses
  <2> QED
    BY <2>2, <2>3
<1>7. Spent(NoTx)'
  BY <1>1, <1>2, <1>5 DEF QueueInv, Spent, Valid
<1> QED
  BY <1>4, <1>6, <1>7 DEF QueueInv

-----------------------------------------------------------------------------
(* A write to a key makes what was endorsed before it stale.                *)

LEMMA AgedEnvelope ==
  ASSUME NEW S \in SUBSET Envelope, NEW id
  PROVE  /\ AgedEnvelopes(S, id) \subseteq Envelope
         /\ \A x \in AgedEnvelopes(S, id) : \E f \in S :
              x.tx = f.tx /\ x.id = f.id /\ (x.fresh => f.fresh /\ x.id # id)
<1>1. ASSUME NEW x \in AgedEnvelopes(S, id)
      PROVE  x \in Envelope
             /\ \E f \in S : x.tx = f.tx /\ x.id = f.id /\ (x.fresh => f.fresh /\ x.id # id)
  <2>1. PICK f \in S : x = [f EXCEPT !.fresh = f.fresh /\ f.id # id]
    BY DEF AgedEnvelopes
  <2>2. f \in Envelope
    OBVIOUS
  <2>3. x.tx = f.tx /\ x.id = f.id /\ x.value = f.value /\ x.fresh = (f.fresh /\ f.id # id)
    BY <2>1, <2>2 DEF Envelope
  <2>4. x \in Envelope
    BY <2>1, <2>2 DEF Envelope
  <2> QED
    BY <2>3, <2>4
<1> QED
  BY <1>1

LEMMA AgedCall ==
  ASSUME NEW j \in Jobs, NEW id, work[j] \in WorkRecord
  PROVE  /\ AgedWork(j, id) \in WorkRecord
         /\ AgedWork(j, id).pc = work[j].pc /\ AgedWork(j, id).tx = work[j].tx
         /\ AgedWork(j, id).pc = "broadcast" /\ AgedWork(j, id).fresh =>
              work[j].fresh /\ job[j].order.id # id
<1>1. CASE Older(j, id)
  BY <1>1 DEF AgedWork, WorkRecord
<1>2. CASE ~Older(j, id)
  BY <1>2 DEF AgedWork, Older
<1> QED
  BY <1>1, <1>2

\* What is fresh would be endorsed again, after a write to the key id too.
LEMMA FreshStays ==
  ASSUME QueueInv, NEW j \in Jobs, NEW id, job'[j].order = job[j].order,
         \A a \in AssetIds : a # id => assets'[a] = assets[a],
         \A x \in ordered' : \E f \in ordered :
           x.tx = f.tx /\ x.id = f.id /\ (x.fresh => f.fresh /\ x.id # id),
         work'[j].pc = "broadcast" /\ work'[j].fresh =>
           work[j].pc = "broadcast" /\ work[j].fresh /\ job[j].order.id # id
  PROVE  Fresh(j)'
<1>1. JobInv(j)
  BY DEF QueueInv
<1>2. ASSUME job[j].order \in Orders, job[j].order.id # id, ~Refuses(j)
      PROVE  ~Refuses(j)'
  <2>1. job[j].order \in AssetRequests
    BY <1>2, JobAssumption
  <2>2. job[j].order.id \in AssetIds
    BY <2>1, ExecuteType DEF QueueInv, Types
  <2>3. ExecuteAsset(assets', job[j].order) = ExecuteAsset(assets, job[j].order)
    BY <1>2, <2>1, <2>2, ExecuteLocal
  <2> QED
    BY <1>2, <2>3 DEF Refuses
<1>3. ASSUME NEW x \in ordered', x.tx.job = j, x.fresh PROVE ~Refuses(j)'
  <2>1. PICK f \in ordered : x.tx = f.tx /\ x.id = f.id /\ f.fresh /\ x.id # id
    BY <1>3
  <2>2. f.id = job[j].order.id /\ job[j].order \in Orders /\ ~Refuses(j)
    BY <1>1, <1>3, <2>1 DEF JobInv, Sent, Called, Fresh
  <2> QED
    BY <1>2, <2>1, <2>2
<1>4. ASSUME work'[j].pc = "broadcast", work'[j].fresh PROVE ~Refuses(j)'
  <2>1. job[j].order \in Orders /\ ~Refuses(j)
    BY <1>1, <1>4 DEF JobInv, Called, Fresh
  <2> QED
    BY <1>2, <1>4, <2>1
<1> QED
  BY <1>3, <1>4 DEF Fresh

LEMMA ElsewhereKeeps ==
  ASSUME QueueInv, Elsewhere
  PROVE  QueueInv'
<1>1. PICK req \in AssetRequests :
        /\ assets' = [assets EXCEPT ![req.id] = ExecuteAsset(assets, req).value]
        /\ ordered' = AgedEnvelopes(ordered, req.id)
        /\ work' = [j \in Jobs |-> AgedWork(j, req.id)]
        /\ ~ExecuteAsset(assets, req).err
  BY DEF Elsewhere
<1>2. UNCHANGED <<codes, job, created>> /\ counts' = [counts EXCEPT !.others = @ + 1]
  BY DEF Elsewhere
<1>3. Types
  BY DEF QueueInv
<1>4. ordered \in SUBSET Envelope
  BY <1>3 DEF Types
<1>5. /\ ordered' \subseteq Envelope
      /\ \A x \in ordered' : \E f \in ordered :
           x.tx = f.tx /\ x.id = f.id /\ (x.fresh => f.fresh /\ x.id # req.id)
  BY <1>1, <1>4, AgedEnvelope
<1>6. ASSUME NEW j \in Jobs
      PROVE  /\ work'[j] \in WorkRecord
             /\ work'[j].pc = work[j].pc /\ work'[j].tx = work[j].tx
             /\ work'[j].pc = "broadcast" /\ work'[j].fresh =>
                  work[j].fresh /\ job[j].order.id # req.id
  <2>1. work[j] \in WorkRecord /\ work'[j] = AgedWork(j, req.id)
    BY <1>1, <1>3 DEF Types
  <2> QED
    BY <2>1, AgedCall
<1>7. assets' \in [AssetIds -> Asset \cup {NoAsset}]
      /\ \A a \in AssetIds : a # req.id => assets'[a] = assets[a]
  BY <1>1, <1>3, ExecuteType DEF Types
<1>8. work' \in [Jobs -> WorkRecord]
  BY <1>1, <1>6
<1>9. Types'
  BY <1>2, <1>3, <1>5, <1>7, <1>8 DEF Types
<1>10. counts'.rejects = counts.rejects
  BY <1>2, <1>3 DEF Types
<1>11. ASSUME NEW t, Spent(t) PROVE Spent(t)'
  BY <1>2, <1>5, <1>11 DEF Spent, Valid
<1>12. ASSUME NEW k \in Jobs PROVE JobInv(k)'
  <2>1. JobInv(k)
    BY DEF QueueInv
  <2>2. Called(k)'
    BY <1>2, <1>6, <2>1 DEF JobInv, Called
  <2>3. Sent(k)'
    BY <1>2, <1>5, <2>1 DEF JobInv, Sent
  <2>4. Fresh(k)'
    BY <1>2, <1>5, <1>6, <1>7, FreshStays
  <2>5. OnlySaved(k)'
    BY <1>2, <1>6, <1>10, <1>11, <2>1 DEF JobInv, OnlySaved
  <2>6. ToldTruth(k)'
    BY <1>2, <1>5, <1>10, <2>1 DEF JobInv, ToldTruth, Valid
  <2> QED
    BY <2>2, <2>3, <2>4, <2>5, <2>6 DEF JobInv
<1>13. Spent(NoTx)'
  BY <1>11 DEF QueueInv, NoTx
<1> QED
  BY <1>9, <1>12, <1>13 DEF QueueInv

LEMMA CommitKeeps ==
  ASSUME QueueInv, NEW e \in ordered, CommitEnvelope(e)
  PROVE  QueueInv'
<1> DEFINE code == Code(e)
           valid == code = "VALID"
<1>1. /\ codes' = [t \in DOMAIN codes \cup {e.tx} |-> IF t \in DOMAIN codes THEN codes[t] ELSE code]
      /\ assets' = IF valid THEN [assets EXCEPT ![e.id] = e.value] ELSE assets
      /\ ordered' = IF valid THEN AgedEnvelopes(ordered \ {e}, e.id) ELSE ordered \ {e}
      /\ job' = [j \in Jobs |->
               IF Waits(j, e) /\ code # "MVCC_READ_CONFLICT"
               THEN [job[j] EXCEPT !.status = "completed", !.result = ResultOf(code)]
               ELSE job[j]]
      /\ work' = [j \in Jobs |-> IF Waits(j, e) THEN Told(j, code)
                             ELSE IF valid THEN AgedWork(j, e.id) ELSE work[j]]
      /\ UNCHANGED <<created, counts>>
  BY DEF CommitEnvelope
<1>2. /\ code \in {"VALID", "DUPLICATE_TXID", "MVCC_READ_CONFLICT"}
      /\ code = "DUPLICATE_TXID" <=> e.tx \in DOMAIN codes
      /\ valid => e.fresh
      /\ code = "MVCC_READ_CONFLICT" => ~e.fresh
  BY DEF Code
<1> HIDE DEF code
<1>3. Types /\ e \in Envelope
  BY DEF QueueInv, Types
<1>4. /\ ordered' \subseteq Envelope
      /\ \A x \in ordered' : \E f \in ordered :
           x.tx = f.tx /\ x.id = f.id /\ (x.fresh => f.fresh /\ (valid => x.id # e.id))
  <2>1. ordered \ {e} \in SUBSET Envelope
    BY <1>3 DEF Types
  <2>2. CASE valid
    <3>1. ordered' = AgedEnvelopes(ordered \ {e}, e.id)
      BY <1>1, <2>2
    <3> QED
      BY <2>1, <3>1, AgedEnvelope
  <2>3. CASE ~valid
    BY <1>1, <2>1, <2>3
  <2> QED
    BY <2>2, <2>3
<1>5. /\ DOMAIN codes' = DOMAIN codes \cup {e.tx}
      /\ \A t \in DOMAIN codes : codes'[t] = codes[t]
      /\ e.tx \notin DOMAIN codes => codes'[e.tx] = code
  BY <1>1
<1>6. ASSUME NEW j \in Jobs
      PROVE  /\ job'[j] \in JobRecord
             /\ job'[j].order = job[j].order /\ job'[j].saved = job[j].saved
             /\ job'[j].ids = job[j].ids
             /\ ~(Waits(j, e) /\ code # "MVCC_READ_CONFLICT") => job'[j] = job[j]
             /\ Waits(j, e) /\ code # "MVCC_READ_CONFLICT" =>
                  job'[j].status = "completed" /\ job'[j].result = ResultOf(code)
  <2>1. job[j] \in JobRecord
    BY <1>3 DEF Types
  <2>2. ResultOf(code) \in Results
    BY DEF ResultOf, Results
  <2> QED
    BY <1>1, <2>1, <2>2 DEF JobRecord, Statuses
<1>7. ASSUME NEW j \in Jobs
      PROVE  /\ work'[j] \in WorkRecord
             /\ Waits(j, e) /\ code = "MVCC_READ_CONFLICT" =>
                  work'[j].pc = "clear" /\ work'[j].tx = work[j].tx
             /\ Waits(j, e) /\ code # "MVCC_READ_CONFLICT" => work'[j].pc = "idle"
             /\ ~Waits(j, e) => work'[j].pc = work[j].pc /\ work'[j].tx = work[j].tx
             /\ work'[j].pc = "broadcast" /\ work'[j].fresh =>
                  ~Waits(j, e) /\ work[j].fresh /\ (valid => job[j].order.id # e.id)
  <2>1. work[j] \in WorkRecord
    BY <1>3 DEF Types
  <2>2. CASE Waits(j, e) /\ code = "MVCC_READ_CONFLICT"
    <3>1. work'[j] = [work[j] EXCEPT !.pc = "clear"]
      BY <1>1, <2>2 DEF Told
    <3> QED
      BY <2>1, <2>2, <3>1 DEF WorkRecord, Stages
  <2>3. CASE Waits(j, e) /\ code # "MVCC_READ_CONFLICT"
    <3>1. work'[j] = NotRunning
      BY <1>1, <2>3 DEF Told
    <3> QED
      BY <2>3, <3>1 DEF NotRunning, WorkRecord, Stages
  <2>4. CASE ~Waits(j, e) /\ valid
    <3>1. work'[j] = AgedWork(j, e.id)
      BY <1>1, <2>4
    <3> QED
      BY <2>1, <2>4, <3>1, AgedCall
  <2>5. CASE ~Waits(j, e) /\ ~valid
    <3>1. work'[j] = work[j]
      BY <1>1, <2>5
    <3> QED
      BY <2>1, <2>5, <3>1
  <2> QED
    BY <2>2, <2>3, <2>4, <2>5
<1>8. Types'
  <2>1. assets' \in [AssetIds -> Asset \cup {NoAsset}]
    BY <1>1, <1>3 DEF Types, Envelope
  <2>2. DOMAIN codes' \subseteq TxIds
    <3>1. e.tx \in TxIds
      BY <1>3 DEF Envelope, Types
    <3> QED
      BY <1>3, <1>5, <3>1 DEF Types
  <2>3. job' \in [Jobs -> JobRecord]
    BY <1>1, <1>6
  <2>4. work' \in [Jobs -> WorkRecord]
    BY <1>1, <1>7
  <2> QED
    BY <1>1, <1>3, <1>4, <2>1, <2>2, <2>3, <2>4 DEF Types
<1>9. ASSUME NEW t, Spent(t) PROVE Spent(t)'
  BY <1>4, <1>5, <1>9 DEF Spent, Valid
<1>10. ASSUME NEW k \in Jobs PROVE JobInv(k)'
  <2>1. JobInv(k)
    BY DEF QueueInv
  <2>2. Waits(k, e) => e.tx = job[k].saved /\ job[k].saved.job = k /\ job[k].saved # NoTx
    BY <2>1 DEF Waits, At, JobInv, Called
  <2>3. Called(k)'
    <3>1. CASE Waits(k, e) /\ code # "MVCC_READ_CONFLICT"
      BY <1>6, <1>7, <2>1, <3>1 DEF JobInv, Called, Waits, At
    <3>2. CASE Waits(k, e) /\ code = "MVCC_READ_CONFLICT"
      BY <1>6, <1>7, <2>1, <3>2 DEF JobInv, Called, Waits, At
    <3>3. CASE ~Waits(k, e)
      BY <1>6, <1>7, <2>1, <3>3 DEF JobInv, Called
    <3> QED
      BY <3>1, <3>2, <3>3
  <2>4. Sent(k)'
    <3>1. job[k].status # "none" => job'[k].status # "none"
      BY <1>6
    <3> QED
      BY <1>4, <1>5, <1>6, <2>1, <3>1 DEF JobInv, Sent
  <2>5. Fresh(k)'
    <3>1. CASE valid
      <4>1. \A a \in AssetIds : a # e.id => assets'[a] = assets[a]
        BY <1>1, <1>3, <3>1 DEF Types
      <4> QED
        BY <1>4, <1>6, <1>7, <3>1, <4>1, FreshStays
    <3>2. CASE ~valid
      <4>1. Refuses(k)' = Refuses(k)
        BY <1>1, <1>6, <3>2 DEF Refuses
      <4> QED
        BY <1>4, <1>7, <2>1, <4>1 DEF JobInv, Fresh
    <3> QED
      BY <3>1, <3>2
  <2>6. OnlySaved(k)'
    <3> SUFFICES ASSUME counts.rejects = 0
                 PROVE  /\ \A t \in TxIds : t.job = k /\ t # job'[k].saved => Spent(t)'
                        /\ work'[k].pc = "clear" => Spent(job[k].saved)'
      BY <1>1 DEF OnlySaved
    <3>1. \A t \in TxIds : t.job = k /\ t # job'[k].saved => Spent(t)'
      BY <1>6, <1>9, <2>1 DEF JobInv, OnlySaved
    <3>2. ASSUME work'[k].pc = "clear" PROVE Spent(job[k].saved)'
      <4>1. CASE Waits(k, e)
        <5>1. code = "MVCC_READ_CONFLICT" /\ e.tx = job'[k].saved
          BY <1>6, <1>7, <2>2, <3>2, <4>1
        <5> QED
          BY <1>2, <1>5, <5>1 DEF Spent, Valid
      <4>2. CASE ~Waits(k, e)
        <5>1. Spent(job[k].saved)
          BY <1>7, <2>1, <3>2, <4>2 DEF JobInv, OnlySaved
        <5> QED
          BY <1>6, <1>9, <5>1
      <4> QED
        BY <4>1, <4>2
    <3> QED
      BY <3>1, <3>2
  <2>7. ToldTruth(k)'
    <3>1. job'[k].result # "none" => job'[k].status = "completed"
      BY <1>6, <2>1 DEF JobInv, ToldTruth
    <3>2. ASSUME job'[k].result = "payload"
          PROVE  \E t \in DOMAIN codes' : t.job = k /\ Valid(t)'
      <4>1. CASE Waits(k, e) /\ code # "MVCC_READ_CONFLICT"
        <5>1. valid /\ e.tx.job = k
          BY <1>6, <2>2, <3>2, <4>1 DEF ResultOf
        <5> QED
          BY <1>2, <1>5, <5>1 DEF Valid
      <4>2. CASE ~(Waits(k, e) /\ code # "MVCC_READ_CONFLICT")
        BY <1>5, <1>6, <2>1, <3>2, <4>2 DEF JobInv, ToldTruth, Valid
      <4> QED
        BY <4>1, <4>2
    <3>3. ASSUME job'[k].result = "refused", counts'.rejects = 0, NEW t \in TxIds, t.job = k
          PROVE  /\ ~Valid(t)'
                 /\ \A x \in ordered' : x.tx = t => t \in DOMAIN codes' \/ ~x.fresh
      <4>1. job[k].result = "refused"
        BY <1>6, <3>3 DEF ResultOf
      <4>2. ~Valid(t) /\ \A x \in ordered : x.tx = t => t \in DOMAIN codes \/ ~x.fresh
        BY <1>1, <2>1, <3>3, <4>1 DEF JobInv, ToldTruth
      <4> QED
        BY <1>2, <1>4, <1>5, <4>2 DEF Valid
    <3> QED
      BY <3>1, <3>2, <3>3 DEF ToldTruth
  <2> QED
    BY <2>3, <2>4, <2>5, <2>6, <2>7 DEF JobInv
<1>11. Spent(NoTx)'
  BY <1>9 DEF QueueInv, NoTx
<1> QED
  BY <1>8, <1>10, <1>11 DEF QueueInv

-----------------------------------------------------------------------------
LEMMA QueueStep ==
  ASSUME QueueInv, [QueueNext]_queueVars
  PROVE  QueueInv'
<1>1. CASE \E j \in Jobs : AddJob(j)
  BY <1>1, AddJobKeeps
<1>2. CASE \E j \in Jobs : WorkerStep(j)
  BY <1>2, TakeJobKeeps, RetryKeeps, StalledKeeps, UseTransactionKeeps,
     SaveTransactionKeeps, EndorseKeeps, BroadcastKeeps, ClearTransactionKeeps,
     ThrowKeeps DEF WorkerStep
<1>3. CASE \E j \in Jobs : Rejected(j)
  BY <1>3, RejectedKeeps
<1>4. CASE \E j \in Jobs : CommitTimeout(j)
  BY <1>4, CommitTimeoutKeeps
<1>5. CASE \E e \in ordered : CommitEnvelope(e)
  BY <1>5, CommitKeeps
<1>6. CASE Crash
  BY <1>6, CrashKeeps
<1>7. CASE Elsewhere
  BY <1>7, ElsewhereKeeps
<1>8. CASE UNCHANGED queueVars
  BY <1>8 DEF queueVars, QueueInv, Types, JobInv, Called, Sent, Fresh, OnlySaved,
    ToldTruth, Spent, Valid, Refuses
<1> QED
  BY <1>1, <1>2, <1>3, <1>4, <1>5, <1>6, <1>7, <1>8 DEF QueueNext

LEMMA QueueInvariant == QueueSpec => []QueueInv
  BY QueueStarts, QueueStep, PTL DEF QueueSpec

LEMMA Applied == QueueInv => AppliedOnceUnlessRejected
<1> SUFFICES ASSUME QueueInv, counts.rejects = 0, NEW j \in Jobs,
                    NEW t \in Effective(j), NEW u \in Effective(j)
             PROVE  t = u
  BY DEF AppliedOnceUnlessRejected, AppliedOnce
<1>1. t \in TxIds /\ t.job = j /\ Valid(t) /\ u \in TxIds /\ u.job = j /\ Valid(u)
  BY DEF Effective, QueueInv, Types, Valid
<1>2. \A x \in TxIds : x.job = j /\ x # job[j].saved => ~Valid(x)
  BY DEF QueueInv, JobInv, OnlySaved, Spent
<1> QED
  BY <1>1, <1>2

LEMMA Truth == QueueInv => SummaryTellsTruth
<1> SUFFICES ASSUME QueueInv, NEW j \in Jobs
             PROVE  /\ Effective(j) \subseteq job[j].ids
                    /\ job[j].result = "payload" => Effective(j) # {}
                    /\ job[j].result = "refused" /\ counts.rejects = 0 => Effective(j) = {}
  BY DEF SummaryTellsTruth
<1>1. Sent(j) /\ ToldTruth(j)
  BY DEF QueueInv, JobInv
<1>2. Effective(j) \subseteq TxIds /\ \A t : t \in Effective(j) <=> t \in DOMAIN codes /\ t.job = j /\ Valid(t)
  BY DEF Effective, QueueInv, Types, Valid
<1> QED
  BY <1>1, <1>2 DEF Sent, ToldTruth

\* A request of a client takes effect at most once as long as no proposal or
\* envelope is turned down, however many timeouts, conflicts, stalls and crashes of
\* the server there are (jobs.ts:150, errors.ts:105).
THEOREM AppliedAtMostOnce == QueueSpec => []AppliedOnceUnlessRejected
  BY QueueInvariant, Applied, PTL

\* The ids of a job hold every transaction that took effect for it, a payload means
\* that one did, and an error of the contract that none did (jobs.ts:176).
THEOREM SummariesAreTrue == QueueSpec => []SummaryTellsTruth
  BY QueueInvariant, Truth, PTL

-----------------------------------------------------------------------------
(* The producer's three sorts and its loop: for any list of bids and any       *)
(* amount they compute what BidAllocation says.                               *)

\* The order of a stable sort by key: places x and y of the list s.
ComesFirst(s, key, x, y) == key[s[x]] < key[s[y]] \/ (key[s[x]] = key[s[y]] /\ x < y)
Earlier(s, key, x) == {y \in DOMAIN s : ComesFirst(s, key, y, x)}

\* A stable sort is the list in another order, which is that of ComesFirst.
SortedTo(s, key, n, r, p) ==
  /\ r = [m \in 1..n |-> s[p[m]]]
  /\ p \in [1..n -> 1..n]
  /\ \A l, m \in 1..n : l < m => ComesFirst(s, key, p[l], p[m])

LEMMA StableSorts ==
  ASSUME NEW n \in Nat, NEW s, NEW key, DOMAIN s = 1..n, \A x \in 1..n : key[s[x]] \in Int
  PROVE  \E p : SortedTo(s, key, n, StableSort(s, key), p)
<1> DEFINE E(x) == Earlier(s, key, x)
           C(x) == Cardinality(E(x))
           p == [m \in 1..n |-> CHOOSE x \in 1..n : C(x) + 1 = m]
           rank == [x \in 1..n |-> C(x) + 1]
<1>1. IsFiniteSet(1..n) /\ Cardinality(1..n) = n
  BY CountUpTo
<1>2. ASSUME NEW x \in 1..n
      PROVE  E(x) \in SUBSET (1..n) /\ IsFiniteSet(E(x)) /\ C(x) \in 0..(n - 1)
  <2>1. E(x) \in SUBSET (1..n) /\ x \notin E(x)
    BY DEF Earlier, ComesFirst
  <2> HIDE DEF E
  <2>2. IsFiniteSet(E(x)) /\ C(x) <= n /\ (n = C(x) => 1..n = E(x))
    BY <1>1, <2>1, FS_Subset
  <2>3. C(x) \in Nat
    BY <2>2, FS_CardinalityType
  <2>4. C(x) # n
    BY <1>2, <2>1, <2>2
  <2> QED BY <2>1, <2>2, <2>3, <2>4
<1>3. ASSUME NEW x \in 1..n, NEW y \in 1..n, ComesFirst(s, key, x, y)
      PROVE  C(x) < C(y)
  <2>1. E(x) \in SUBSET E(y) /\ x \in E(y) /\ x \notin E(x)
    <3>1. ASSUME NEW k \in 1..n, ComesFirst(s, key, k, x) PROVE ComesFirst(s, key, k, y)
      BY <1>3, <3>1 DEF ComesFirst
    <3>2. ~ComesFirst(s, key, x, x)
      BY DEF ComesFirst
    <3> QED BY <1>3, <3>1, <3>2 DEF Earlier
  <2>2. IsFiniteSet(E(y)) /\ C(x) \in 0..(n - 1) /\ C(y) \in 0..(n - 1)
    BY <1>2
  <2> HIDE DEF E
  <2>3. C(x) <= C(y) /\ (C(y) = C(x) => E(y) = E(x))
    BY <2>1, <2>2, FS_Subset
  <2>4. C(x) # C(y)
    BY <2>1, <2>3
  <2> QED BY <2>2, <2>3, <2>4
<1>4. ASSUME NEW x \in 1..n, NEW y \in 1..n
      PROVE  ComesFirst(s, key, x, y) \/ ComesFirst(s, key, y, x) \/ x = y
  BY DEF ComesFirst
<1>5. ASSUME NEW m \in 1..n PROVE p[m] \in 1..n /\ C(p[m]) + 1 = m
  <2> HIDE DEF C
  <2>1. rank \in Injection(1..n, 1..n)
    <3>1. rank \in [1..n -> 1..n]
      BY <1>2
    <3>2. ASSUME NEW x \in 1..n, NEW y \in 1..n, rank[x] = rank[y] PROVE x = y
      <4>1. C(x) = C(y) /\ C(x) \in Nat /\ C(y) \in Nat
        <5>1. C(x) \in Nat /\ C(y) \in Nat
          BY <1>2
        <5> QED BY <3>2, <5>1
      <4> QED BY <1>3, <1>4, <4>1
    <3> HIDE DEF rank
    <3> QED BY <3>1, <3>2 DEF Injection, IsInjective
  <2>2. rank \in Surjection(1..n, 1..n)
    BY <1>1, <2>1, FS_Injection
  <2>3. \E x \in 1..n : C(x) + 1 = m
    BY <2>2 DEF Surjection
  <2> QED BY <2>3
<1>6. ASSUME NEW l \in 1..n, NEW m \in 1..n, l < m PROVE ComesFirst(s, key, p[l], p[m])
  <2>1. p[l] \in 1..n /\ C(p[l]) + 1 = l /\ p[m] \in 1..n /\ C(p[m]) + 1 = m
    BY <1>5
  <2>2. C(p[l]) \in Int /\ C(p[m]) \in Int
    BY <1>2, <2>1
  <2> HIDE DEF p, C
  <2>3. C(p[l]) < C(p[m])
    BY <1>6, <2>1, <2>2
  <2> QED BY <1>3, <1>4, <2>1, <2>2, <2>3
<1>7. StableSort(s, key) = [m \in 1..n |-> s[p[m]]]
  <2>1. \A x, m : (Cardinality({y \in DOMAIN s : key[s[y]] < key[s[x]] \/ (key[s[y]] = key[s[x]] /\ y < x)}) + 1 = m)
                  <=> (C(x) + 1 = m)
    BY DEF Earlier, ComesFirst
  <2> QED BY DEF StableSort, Earlier, ComesFirst
<1>8. p \in [1..n -> 1..n]
  BY <1>5
<1> HIDE DEF p
<1> QED BY <1>6, <1>7, <1>8 DEF SortedTo

\* What the sorts leave behind, the last of them first; bids that tie keep the
\* order of the query.
ByTime(x, y) == bid[x].time < bid[y].time \/ (bid[x].time = bid[y].time /\ x < y)
ByPriority(x, y) == bid[x].prio > bid[y].prio \/ (bid[x].prio = bid[y].prio /\ ByTime(x, y))
ByPrice(x, y) == bid[x].price > bid[y].price \/ (bid[x].price = bid[y].price /\ ByPriority(x, y))

InPlace(x, y) ==
  CASE stage = "time" -> x < y
    [] stage = "priority" -> ByTime(x, y)
    [] stage = "price" -> ByPriority(x, y)
    [] OTHER -> ByPrice(x, y)

SortsOK ==
  /\ Len(bid) \in Nat \ {0} /\ bid \in [1..Len(bid) -> Offers]
  /\ stage \in {"time", "priority", "price", "loop", "done"}
  /\ list \in [1..Len(bid) -> 1..Len(bid)]
  /\ \A x, y \in 1..Len(bid) : x < y => InPlace(list[x], list[y])

\* The awards so far are all that the first bids of the list ask for.
WholeAwards ==
  /\ Len(bidInput) \in 0..Len(bid)
  /\ bidInput = [n \in 1..Len(bidInput) |-> [id |-> list[n], amount |-> bid[list[n]].bidAmount]]
  /\ soldAmount = Asked(list, bid)[Len(bidInput)]
  /\ soldAmount < output
  /\ isSold = FALSE

LoopInv ==
  /\ SortsOK
  /\ output \in Nat \ {0} /\ soldAmount \in Nat
  /\ left = output - soldAmount
  /\ stage \in {"time", "priority", "price"} => bidInput = <<>> /\ soldAmount = 0 /\ isSold = FALSE
  /\ stage = "loop" => WholeAwards
  /\ stage = "done" =>
       /\ bidInput = Allocate(list, bid, output)
       /\ soldAmount = Allocated(list, bid, output)
       /\ isSold = TakesAll(list, bid, output)

LEMMA BidKeys ==
  ASSUME SortsOK, NEW x \in 1..Len(bid)
  PROVE  /\ bid[x].bidAmount \in Nat \ {0}
         /\ bid[x].price \in Nat /\ bid[x].prio \in Nat /\ bid[x].time \in Nat
BY LoopAssumption DEF SortsOK

LEMMA LoopStarts == LoopInit => LoopInv
<1> SUFFICES ASSUME LoopInit PROVE LoopInv
  OBVIOUS
<1>1. PICK n \in 1..MaxBids : bid \in [1..n -> Offers]
  BY DEF LoopInit
<1>2. n \in Nat \ {0} /\ Len(bid) = n /\ DOMAIN bid = 1..n
  BY <1>1, LoopAssumption
<1>3. list = [x \in 1..n |-> x] /\ stage = "time"
  BY <1>2 DEF LoopInit
<1>4. SortsOK
  BY <1>1, <1>2, <1>3 DEF SortsOK, InPlace
<1> QED BY <1>3, <1>4, LoopAssumption DEF LoopInit, LoopInv

LEMMA SortStep ==
  ASSUME LoopInv, NEW from \in {"time", "priority", "price"},
         NEW to \in {"priority", "price", "loop"}, NEW key \in [1..Len(bid) -> Int],
         Sort(from, to, key)
  PROVE  /\ bid' = bid /\ output' = output /\ left' = left /\ soldAmount' = soldAmount
         /\ bidInput' = bidInput /\ isSold' = isSold
         /\ stage = from /\ stage' = to
         /\ list' \in [1..Len(bid) -> 1..Len(bid)]
         /\ \A x, y \in 1..Len(bid) : x < y =>
              \/ key[list'[x]] < key[list'[y]]
              \/ key[list'[x]] = key[list'[y]] /\ InPlace(list'[x], list'[y])
<1>1. Len(bid) \in Nat /\ list \in [1..Len(bid) -> 1..Len(bid)]
  BY DEF LoopInv, SortsOK
<1>2. PICK p : SortedTo(list, key, Len(bid), StableSort(list, key), p)
  <2>1. DOMAIN list = 1..Len(bid) /\ \A x \in 1..Len(bid) : key[list[x]] \in Int
    BY <1>1
  <2> QED BY <1>1, <2>1, StableSorts
<1>3. list' = StableSort(list, key)
  BY DEF Sort
<1>4. /\ list' = [m \in 1..Len(bid) |-> list[p[m]]]
      /\ p \in [1..Len(bid) -> 1..Len(bid)]
      /\ \A l, m \in 1..Len(bid) : l < m => ComesFirst(list, key, p[l], p[m])
  BY <1>2, <1>3 DEF SortedTo
<1>5. ASSUME NEW x \in 1..Len(bid), NEW y \in 1..Len(bid), x < y
      PROVE  \/ key[list'[x]] < key[list'[y]]
             \/ key[list'[x]] = key[list'[y]] /\ InPlace(list'[x], list'[y])
  <2>1. ComesFirst(list, key, p[x], p[y])
    BY <1>4, <1>5
  <2>2. p[x] < p[y] => InPlace(list[p[x]], list[p[y]])
    BY <1>4 DEF LoopInv, SortsOK
  <2> QED BY <1>4, <2>1, <2>2 DEF ComesFirst
<1> QED BY <1>1, <1>4, <1>5 DEF Sort


LEMMA SortsKeep ==
  ASSUME LoopInv, SortByTime \/ SortByPriority \/ SortByPrice
  PROVE  LoopInv'
<1>b. Len(bid) \in Nat \ {0} /\ bid \in [1..Len(bid) -> Offers] /\ DOMAIN bid = 1..Len(bid)
  BY DEF LoopInv, SortsOK
<1>1. CASE SortByTime
  <2> DEFINE key == [x \in DOMAIN bid |-> bid[x].time]
  <2>1. key \in [1..Len(bid) -> Int] /\ Sort("time", "priority", key)
    BY <1>b, <1>1, BidKeys DEF SortByTime, LoopInv
  <2> HIDE DEF key
  <2>2. /\ bid' = bid /\ output' = output /\ left' = left /\ soldAmount' = soldAmount
        /\ bidInput' = bidInput /\ isSold' = isSold
        /\ stage = "time" /\ stage' = "priority"
        /\ list' \in [1..Len(bid) -> 1..Len(bid)]
        /\ \A x, y \in 1..Len(bid) : x < y =>
             \/ key[list'[x]] < key[list'[y]]
             \/ key[list'[x]] = key[list'[y]] /\ InPlace(list'[x], list'[y])
    BY <2>1, SortStep
  <2>3. \A x, y \in 1..Len(bid) : x < y => InPlace(list[x], list[y])'
    BY <1>b, <2>2 DEF InPlace, ByTime, key
  <2>4. SortsOK'
    BY <1>b, <2>2, <2>3 DEF SortsOK
  <2> QED BY <2>2, <2>4 DEF LoopInv
<1>2. CASE SortByPriority
  <2> DEFINE key == [x \in DOMAIN bid |-> -bid[x].prio]
  <2>1. key \in [1..Len(bid) -> Int] /\ Sort("priority", "price", key)
    BY <1>b, <1>2, BidKeys DEF SortByPriority, LoopInv
  <2>k. \A x \in 1..Len(bid) : key[x] = -bid[x].prio /\ bid[x].prio \in Nat
    BY <1>b, BidKeys DEF LoopInv
  <2> HIDE DEF key
  <2>2. /\ bid' = bid /\ output' = output /\ left' = left /\ soldAmount' = soldAmount
        /\ bidInput' = bidInput /\ isSold' = isSold
        /\ stage = "priority" /\ stage' = "price"
        /\ list' \in [1..Len(bid) -> 1..Len(bid)]
        /\ \A x, y \in 1..Len(bid) : x < y =>
             \/ key[list'[x]] < key[list'[y]]
             \/ key[list'[x]] = key[list'[y]] /\ InPlace(list'[x], list'[y])
    BY <2>1, SortStep
  <2>3. \A x, y \in 1..Len(bid) : x < y => InPlace(list[x], list[y])'
    BY <1>b, <2>2, <2>k DEF InPlace, ByPriority, ByTime
  <2>4. SortsOK'
    BY <1>b, <2>2, <2>3 DEF SortsOK
  <2> QED BY <2>2, <2>4 DEF LoopInv
<1>3. CASE SortByPrice
  <2> DEFINE key == [x \in DOMAIN bid |-> -bid[x].price]
  <2>1. key \in [1..Len(bid) -> Int] /\ Sort("price", "loop", key)
    BY <1>b, <1>3, BidKeys DEF SortByPrice, LoopInv
  <2>k. \A x \in 1..Len(bid) : key[x] = -bid[x].price /\ bid[x].price \in Nat
    BY <1>b, BidKeys DEF LoopInv
  <2> HIDE DEF key
  <2>2. /\ bid' = bid /\ output' = output /\ left' = left /\ soldAmount' = soldAmount
        /\ bidInput' = bidInput /\ isSold' = isSold
        /\ stage = "price" /\ stage' = "loop"
        /\ list' \in [1..Len(bid) -> 1..Len(bid)]
        /\ \A x, y \in 1..Len(bid) : x < y =>
             \/ key[list'[x]] < key[list'[y]]
             \/ key[list'[x]] = key[list'[y]] /\ InPlace(list'[x], list'[y])
    BY <2>1, SortStep
  <2>3. \A x, y \in 1..Len(bid) : x < y => InPlace(list[x], list[y])'
    BY <1>b, <2>2, <2>k DEF InPlace, ByPrice, ByPriority, ByTime
  <2>4. SortsOK'
    BY <1>b, <2>2, <2>3 DEF SortsOK
  <2>5. WholeAwards'
    <3>0. PICK q : q = list'
      OBVIOUS
    <3>1. Sums(Asked(q, bid), Len(bid), [n \in 1..Len(bid) |-> bid[q[n]].bidAmount])
      <4>1. \A x \in 1..Len(bid) : bid[x].bidAmount \in Nat
        BY BidKeys DEF LoopInv
      <4>2. q \in [1..Len(bid) -> 1..Len(bid)] /\ Len(bid) \in Nat
        BY <1>b, <2>2, <3>0
      <4> QED BY <4>1, <4>2, AskedSums
    <3>2. Asked(q, bid)[0] = 0
      BY <3>1 DEF Sums
    <3>4. (Asked(list, bid)[0] = 0)'
      BY <2>2, <3>0, <3>2
    <3>3. bidInput' = <<>> /\ soldAmount' = 0 /\ isSold' = FALSE
      BY <2>2 DEF LoopInv
    <3> QED BY <1>b, <2>2, <3>4, <3>3 DEF WholeAwards, LoopInv
  <2> QED BY <2>2, <2>4, <2>5 DEF LoopInv
<1> QED BY <1>1, <1>2, <1>3


\* Once sorted, the list is a ranking of the bids.
LEMMA Ranked ==
  ASSUME SortsOK, stage \in {"loop", "done"}
  PROVE  /\ IsFiniteSet(DOMAIN bid) /\ DOMAIN bid = 1..Len(bid) /\ Cardinality(DOMAIN bid) = Len(bid)
         /\ list \in Rankings(DOMAIN bid, bid)
         /\ SortsRankBids
<1>1. /\ Len(bid) \in Nat /\ DOMAIN bid = 1..Len(bid) /\ DOMAIN list = 1..Len(bid)
      /\ list \in [1..Len(bid) -> 1..Len(bid)]
  BY DEF SortsOK
<1>2. IsFiniteSet(1..Len(bid)) /\ Cardinality(1..Len(bid)) = Len(bid)
  BY <1>1, CountUpTo
<1>3. ASSUME NEW x \in 1..Len(bid), NEW y \in 1..Len(bid), x < y
      PROVE  list[x] # list[y] /\ ~Precedes(bid[list[y]], bid[list[x]])
             /\ (~Precedes(bid[list[x]], bid[list[y]]) => list[x] < list[y])
  <2>1. ByPrice(list[x], list[y])
    BY <1>3 DEF SortsOK, InPlace
  <2>2. list[x] \in 1..Len(bid) /\ list[y] \in 1..Len(bid)
    BY <1>1
  <2>3. /\ bid[list[x]].price \in Nat /\ bid[list[x]].prio \in Nat /\ bid[list[x]].time \in Nat
        /\ bid[list[y]].price \in Nat /\ bid[list[y]].prio \in Nat /\ bid[list[y]].time \in Nat
    BY <2>2, BidKeys
  <2> QED BY <2>1, <2>2, <2>3 DEF ByPrice, ByPriority, ByTime, Precedes
<1>4. list \in Rankings(DOMAIN bid, bid)
  BY <1>1, <1>2, <1>3 DEF Rankings
<1>5. SortsRankBids
  BY <1>1, <1>3, <1>4 DEF SortsRankBids
<1> QED BY <1>1, <1>2, <1>4, <1>5

LEMMA AskedAre ==
  ASSUME SortsOK
  PROVE  Sums(Asked(list, bid), Len(bid), [n \in 1..Len(bid) |-> bid[list[n]].bidAmount])
<1>1. PICK q : q = list
  OBVIOUS
<1>2. \A x \in 1..Len(bid) : bid[x].bidAmount \in Nat
  BY BidKeys
<1>3. q \in [1..Len(bid) -> 1..Len(bid)] /\ Len(bid) \in Nat
  BY <1>1 DEF SortsOK
<1> QED BY <1>1, <1>2, <1>3, AskedSums

\* What the loop computes when it has served k bids and all is asked for by the
\* next, or there is none.
LEMMA AllocationAt ==
  ASSUME SortsOK, output \in Nat \ {0}, NEW k \in 0..Len(bid), Asked(list, bid)[k] < output
  PROVE  /\ Asked(list, bid) \in [0..Len(bid) -> Nat]
         /\ k < Len(bid) => Asked(list, bid)[k + 1] = Asked(list, bid)[k] + bid[list[k + 1]].bidAmount
         /\ k < Len(bid) /\ Asked(list, bid)[k + 1] >= output =>
              /\ Allocate(list, bid, output) =
                   [n \in 1..(k + 1) |-> [id |-> list[n], amount |->
                      IF n = k + 1 THEN output - Asked(list, bid)[k] ELSE bid[list[n]].bidAmount]]
              /\ Allocated(list, bid, output) = output
              /\ TakesAll(list, bid, output)
         /\ k = Len(bid) =>
              /\ Allocate(list, bid, output) =
                   [n \in 1..k |-> [id |-> list[n], amount |-> bid[list[n]].bidAmount]]
              /\ Allocated(list, bid, output) = Asked(list, bid)[k]
              /\ ~TakesAll(list, bid, output)
<1> DEFINE L == Len(bid)
           A == Asked(list, bid)
           a == [n \in 1..L |-> bid[list[n]].bidAmount]
           S == Served(list, bid, output)
<1>1. L \in Nat \ {0} /\ list \in [1..L -> 1..L] /\ Len(list) = L
  BY DEF SortsOK
<1>2. \A x \in 1..L : bid[x].bidAmount \in Nat \ {0}
  BY BidKeys
<1>3. Sums(A, L, a)
  BY AskedAre
<1>4. PICK m \in 0..L : /\ S = 1..m /\ Cardinality(S) = m
                        /\ m = L \/ A[m] >= output
                        /\ \A n \in 0..L : n < m => A[n] < output
  <2> HIDE DEF L
  <2> QED BY <1>1, <1>2, ServedFirst
<1>5. a \in [1..L -> Nat \ {0}] /\ \A n \in 1..L : a[n] = bid[list[n]].bidAmount
  BY <1>1, <1>2
<1>6. Allocate(list, bid, output) =
        [n \in 1..m |-> [id |-> list[n], amount |-> MinOf(bid[list[n]].bidAmount, output - A[n - 1])]]
  BY <1>4 DEF Allocate
<1>7. /\ Allocated(list, bid, output) = MinOf(A[L], output)
      /\ TakesAll(list, bid, output) <=> (L > 0 /\ A[L] >= output)
  BY <1>1 DEF Allocated, TakesAll
<1>8. A[k] < output /\ k \in 0..L
  OBVIOUS
<1> HIDE DEF L, A, a, S
<1>9. /\ A \in [0..L -> Nat] /\ \A n \in 1..L : A[n] = A[n - 1] + a[n]
  BY <1>3 DEF Sums
<1>10. \A x, y \in 0..L : x < y => A[x] < A[y]
  BY <1>1, <1>3, <1>5, SumsGrow
<1>11. \A n \in 1..k : MinOf(bid[list[n]].bidAmount, output - A[n - 1]) = bid[list[n]].bidAmount
  <2>1. ASSUME NEW n \in 1..k PROVE bid[list[n]].bidAmount < output - A[n - 1]
    <3>1. n \in 1..L /\ n \in 0..L /\ n - 1 \in 0..L
      BY <1>1, <1>8
    <3>2. A[n] = A[n - 1] + a[n] /\ a[n] = bid[list[n]].bidAmount
      BY <1>5, <1>9, <3>1
    <3>3. n = k \/ A[n] < A[k]
      BY <1>8, <1>10, <3>1
    <3>4. /\ A[n] \in Nat /\ A[n - 1] \in Nat /\ A[k] \in Nat /\ a[n] \in Nat
      BY <1>5, <1>8, <1>9, <3>1
    <3> QED BY <1>8, <3>2, <3>3, <3>4
  <2> QED BY <2>1 DEF MinOf
<1>12. ASSUME k < L, A[k + 1] >= output
       PROVE  /\ m = k + 1 /\ A[L] >= output
              /\ MinOf(bid[list[k + 1]].bidAmount, output - A[k]) = output - A[k]
  <2>1. k + 1 \in 0..L /\ k + 1 \in 1..L
    BY <1>1, <1>8, <1>12
  <2>n. A[k + 1] \in Nat
    BY <1>9, <2>1
  <2>2. ~(k + 1 < m)
    BY <1>4, <1>12, <2>1, <2>n
  <2>3. ~(m <= k)
    BY <1>4, <1>8, <1>9, <1>10, <1>12
  <2>4. m = k + 1
    BY <1>4, <1>8, <2>2, <2>3
  <2>5. A[L] >= output
    <3>1. k + 1 = L \/ A[k + 1] < A[L]
      BY <1>1, <1>10, <2>1
    <3>2. A[L] \in Nat
      BY <1>1, <1>9
    <3> QED BY <1>12, <2>n, <3>1, <3>2
  <2>6. A[k + 1] = A[k] + bid[list[k + 1]].bidAmount /\ bid[list[k + 1]].bidAmount \in Nat
    <3>1. A[k + 1] = A[k + 1 - 1] + a[k + 1]
      BY <1>9, <2>1
    <3> QED BY <1>5, <1>8, <2>1, <3>1
  <2>7. MinOf(bid[list[k + 1]].bidAmount, output - A[k]) = output - A[k]
    <3>1. A[k] \in Nat
      BY <1>8, <1>9
    <3> QED BY <1>12, <2>6, <3>1 DEF MinOf
  <2> QED BY <2>4, <2>5, <2>7
<1>13. ASSUME k = L PROVE m = L /\ A[L] < output
  BY <1>4, <1>8, <1>9, <1>10, <1>13
<1>14. k < L => A[k + 1] = A[k] + bid[list[k + 1]].bidAmount
  <2>1. ASSUME k < L PROVE A[k + 1] = A[k] + bid[list[k + 1]].bidAmount
    <3>1. k + 1 \in 1..L
      BY <1>1, <1>8, <2>1
    <3>2. A[k + 1] = A[k + 1 - 1] + a[k + 1]
      BY <1>9, <3>1
    <3> QED BY <1>5, <1>8, <3>1, <3>2
  <2> QED BY <2>1
<1>15. k < L /\ A[k + 1] >= output =>
         /\ Allocate(list, bid, output) = [n \in 1..(k + 1) |-> [id |-> list[n], amount |->
                       IF n = k + 1 THEN output - A[k] ELSE bid[list[n]].bidAmount]]
         /\ Allocated(list, bid, output) = output
         /\ TakesAll(list, bid, output)
  <2> SUFFICES ASSUME k < L, A[k + 1] >= output
               PROVE  /\ Allocate(list, bid, output) = [n \in 1..(k + 1) |-> [id |-> list[n], amount |->
                                    IF n = k + 1 THEN output - A[k] ELSE bid[list[n]].bidAmount]]
                      /\ Allocated(list, bid, output) = output
                      /\ TakesAll(list, bid, output)
    OBVIOUS
  <2>1. ASSUME NEW n \in 1..(k + 1)
        PROVE  MinOf(bid[list[n]].bidAmount, output - A[n - 1])
                 = IF n = k + 1 THEN output - A[k] ELSE bid[list[n]].bidAmount
    <3>1. CASE n = k + 1
      <4>1. n - 1 = k
        BY <1>8, <3>1
      <4> QED BY <1>12, <3>1, <4>1
    <3>2. CASE n # k + 1
      <4>1. n \in 1..k
        BY <1>8, <3>2
      <4> QED BY <1>11, <3>2, <4>1
    <3> QED BY <3>1, <3>2
  <2>2. MinOf(A[L], output) = output
    <3>1. A[L] \in Nat
      BY <1>1, <1>9
    <3> QED BY <1>12, <3>1 DEF MinOf
  <2>3. m = k + 1 /\ A[L] >= output
    BY <1>12
  <2>4. Allocate(list, bid, output) = [n \in 1..(k + 1) |-> [id |-> list[n], amount |->
                       IF n = k + 1 THEN output - A[k] ELSE bid[list[n]].bidAmount]]
    BY <1>6, <2>1, <2>3, Zenon
  <2>5. TakesAll(list, bid, output)
    BY <1>1, <1>7, <2>3
  <2> QED BY <1>7, <2>2, <2>4, <2>5
<1>16. k = L =>
         /\ Allocate(list, bid, output) = [n \in 1..k |-> [id |-> list[n], amount |-> bid[list[n]].bidAmount]]
         /\ Allocated(list, bid, output) = A[k]
         /\ ~TakesAll(list, bid, output)
  <2> SUFFICES ASSUME k = L
               PROVE  /\ Allocate(list, bid, output) =
                           [n \in 1..k |-> [id |-> list[n], amount |-> bid[list[n]].bidAmount]]
                      /\ Allocated(list, bid, output) = A[k]
                      /\ ~TakesAll(list, bid, output)
    OBVIOUS
  <2>1. A[L] \in Nat /\ A[L] < output
    BY <1>1, <1>9, <1>13
  <2>2. m = k /\ A[k] = A[L]
    BY <1>13
  <2>3. MinOf(A[L], output) = A[L]
    BY <2>1 DEF MinOf
  <2>4. Allocate(list, bid, output) = [n \in 1..k |-> [id |-> list[n], amount |-> bid[list[n]].bidAmount]]
    BY <1>6, <1>11, <2>2, Zenon
  <2>5. ~TakesAll(list, bid, output)
    BY <1>7, <2>1
  <2> QED BY <1>7, <2>2, <2>3, <2>4, <2>5
<1> QED BY <1>9, <1>14, <1>15, <1>16 DEF A, L


\* The next award goes at the end of the list.
LEMMA NextAward ==
  ASSUME LoopInv, InLoop, NEW amount, Award(amount)
  PROVE  /\ Len(bidInput) \in 0..(Len(bid) - 1) /\ Len(bidInput) + 1 \in 1..Len(bid)
         /\ Current = list[Len(bidInput) + 1] /\ Current \in 1..Len(bid)
         /\ bid[Current].bidAmount \in Nat
         /\ Len(bidInput') = Len(bidInput) + 1
         /\ bidInput' = [n \in 1..(Len(bidInput) + 1) |->
              [id |-> list[n], amount |-> IF n = Len(bidInput) + 1 THEN amount ELSE bid[list[n]].bidAmount]]
<1> DEFINE k == Len(bidInput)
           whole(n) == [id |-> list[n], amount |-> bid[list[n]].bidAmount]
           last == [id |-> Current, amount |-> amount]
<1>1. k \in 0..Len(bid) /\ bidInput = [n \in 1..k |-> whole(n)]
  BY DEF LoopInv, WholeAwards, InLoop
<1>2. Len(list) = Len(bid) /\ list \in [1..Len(bid) -> 1..Len(bid)] /\ Len(bid) \in Nat
  BY DEF LoopInv, SortsOK
<1>3. k < Len(bid)
  BY <1>2 DEF InLoop
<1>4. k + 1 \in 1..Len(bid) /\ k \in 0..(Len(bid) - 1)
  BY <1>1, <1>2, <1>3
<1>5. Current = list[k + 1] /\ Current \in 1..Len(bid)
  BY <1>2, <1>4 DEF Current
<1>6. bid[Current].bidAmount \in Nat
  BY <1>5, BidKeys DEF LoopInv
<1>7. bidInput' = Append(bidInput, last)
  BY DEF Award
<1> DEFINE Made == {whole(n) : n \in 1..k} \cup {last}
<1>8. bidInput \in Seq(Made) /\ last \in Made
  BY <1>1
<1>9. bidInput' = [n \in 1..(k + 1) |-> IF n = k + 1 THEN last ELSE bidInput[n]]
  <2> HIDE DEF Made, last
  <2>1. bidInput' \in Seq(Made) /\ Len(bidInput') = k + 1
    BY <1>7, <1>8
  <2>2. \A n \in 1..(k + 1) : bidInput'[n] = IF n = k + 1 THEN last ELSE bidInput[n]
    BY <1>7, <1>8
  <2>3. bidInput' = [n \in 1..(k + 1) |-> bidInput'[n]]
    BY <2>1
  <2> QED BY <2>2, <2>3
<1>10. \A n \in 1..(k + 1) : (IF n = k + 1 THEN last ELSE bidInput[n])
           = [id |-> list[n], amount |-> IF n = k + 1 THEN amount ELSE bid[list[n]].bidAmount]
  <2>1. ASSUME NEW n \in 1..(k + 1)
        PROVE (IF n = k + 1 THEN last ELSE bidInput[n])
           = [id |-> list[n], amount |-> IF n = k + 1 THEN amount ELSE bid[list[n]].bidAmount]
    <3>1. CASE n = k + 1
      BY <1>5, <3>1
    <3>2. CASE n # k + 1
      <4>1. n \in 1..k
        BY <1>1, <3>2
      <4>2. bidInput[n] = whole(n)
        BY <1>1, <4>1
      <4> QED BY <3>2, <4>2
    <3> QED BY <3>1, <3>2
  <2> QED BY <2>1
<1>11. bidInput' = [n \in 1..(k + 1) |->
              [id |-> list[n], amount |-> IF n = k + 1 THEN amount ELSE bid[list[n]].bidAmount]]
  <2> HIDE DEF last, k
  <2> QED BY <1>9, <1>10, Zenon
<1>12. Len(bidInput') = k + 1
  <2> HIDE DEF last
  <2> QED BY <1>1, <1>11
<1> QED BY <1>4, <1>5, <1>6, <1>11, <1>12

LEMMA TakeWholeKeeps == ASSUME LoopInv, TakeWhole PROVE LoopInv'
<1> DEFINE k == Len(bidInput)
           A == Asked(list, bid)
           amount == bid[Current].bidAmount
<1>1. InLoop /\ Award(amount) /\ amount < left /\ stage' = stage /\ isSold' = isSold
  BY DEF TakeWhole
<1>2. /\ k \in 0..(Len(bid) - 1) /\ k + 1 \in 1..Len(bid)
      /\ Current = list[k + 1] /\ amount \in Nat
      /\ Len(bidInput') = k + 1
      /\ bidInput' = [n \in 1..(k + 1) |->
           [id |-> list[n], amount |-> IF n = k + 1 THEN amount ELSE bid[list[n]].bidAmount]]
  <2> HIDE DEF amount
  <2>1. /\ Len(bidInput) \in 0..(Len(bid) - 1) /\ Len(bidInput) + 1 \in 1..Len(bid)
        /\ Current = list[Len(bidInput) + 1] /\ bid[Current].bidAmount \in Nat
        /\ Len(bidInput') = Len(bidInput) + 1
        /\ bidInput' = [n \in 1..(Len(bidInput) + 1) |->
             [id |-> list[n], amount |-> IF n = Len(bidInput) + 1 THEN amount ELSE bid[list[n]].bidAmount]]
    BY <1>1, NextAward
  <2> QED BY <2>1 DEF amount
<1>3. /\ stage = "loop" /\ isSold = FALSE /\ soldAmount = A[k] /\ soldAmount < output /\ soldAmount \in Nat
      /\ left = output - soldAmount /\ output \in Nat \ {0} /\ SortsOK
  BY <1>1 DEF InLoop, LoopInv, WholeAwards
<1>4. /\ bid' = bid /\ list' = list /\ output' = output
      /\ soldAmount' = soldAmount + amount /\ left' = left - amount
  BY <1>1 DEF Award
<1>5. A[k + 1] = A[k] + amount
  <2>1. k \in 0..Len(bid) /\ k < Len(bid) /\ A[k] < output
    BY <1>2, <1>3 DEF SortsOK
  <2> QED BY <1>2, <1>3, <2>1, AllocationAt
<1>6. bidInput' = [n \in 1..(k + 1) |-> [id |-> list[n], amount |-> bid[list[n]].bidAmount]]
  BY <1>2
<1> HIDE DEF A, amount, k
<1>7. soldAmount' < output /\ soldAmount' \in Nat /\ left' = output - soldAmount' /\ soldAmount' = A[k + 1]
  BY <1>1, <1>2, <1>3, <1>4, <1>5
<1>8. SortsOK'
  BY <1>1, <1>3, <1>4 DEF SortsOK, InPlace, ByPrice, ByPriority, ByTime
<1>9. WholeAwards'
  <2>1. k + 1 \in 0..Len(bid)
    BY <1>2
  <2> QED BY <1>1, <1>2, <1>3, <1>4, <1>6, <1>7, <2>1 DEF WholeAwards, A
<1> QED BY <1>1, <1>3, <1>4, <1>7, <1>8, <1>9 DEF LoopInv

LEMMA TakeRestKeeps == ASSUME LoopInv, TakeRest PROVE LoopInv'
<1> DEFINE k == Len(bidInput)
           A == Asked(list, bid)
<1>1. InLoop /\ Award(left) /\ bid[Current].bidAmount >= left /\ stage' = "done" /\ isSold' = TRUE
  BY DEF TakeRest
<1>2. /\ k \in 0..(Len(bid) - 1) /\ k + 1 \in 1..Len(bid)
      /\ Current = list[k + 1] /\ bid[Current].bidAmount \in Nat
      /\ bidInput' = [n \in 1..(k + 1) |->
           [id |-> list[n], amount |-> IF n = k + 1 THEN left ELSE bid[list[n]].bidAmount]]
  BY <1>1, NextAward
<1>3. /\ stage = "loop" /\ soldAmount = A[k] /\ soldAmount < output /\ soldAmount \in Nat
      /\ left = output - soldAmount /\ output \in Nat \ {0} /\ SortsOK
  BY <1>1 DEF InLoop, LoopInv, WholeAwards
<1>4. /\ bid' = bid /\ list' = list /\ output' = output
      /\ soldAmount' = soldAmount + left /\ left' = left - left
  BY <1>1 DEF Award
<1>5. k \in 0..Len(bid) /\ k < Len(bid) /\ A[k] < output
  BY <1>2, <1>3 DEF SortsOK
<1>6. A[k + 1] = A[k] + bid[Current].bidAmount
  BY <1>2, <1>3, <1>5, AllocationAt
<1>7. A[k + 1] >= output
  BY <1>1, <1>2, <1>3, <1>6
<1>8. /\ Allocate(list, bid, output) = [n \in 1..(k + 1) |->
           [id |-> list[n], amount |-> IF n = k + 1 THEN output - A[k] ELSE bid[list[n]].bidAmount]]
      /\ Allocated(list, bid, output) = output
      /\ TakesAll(list, bid, output)
  BY <1>3, <1>5, <1>7, AllocationAt
<1>9. SortsOK'
  BY <1>1, <1>3, <1>4 DEF SortsOK, InPlace, ByPrice, ByPriority, ByTime
<1>10. bidInput' = Allocate(list, bid, output)
  BY <1>2, <1>3, <1>8
<1>11. soldAmount' = output /\ left' = 0
  BY <1>3, <1>4
<1>12. (bidInput = Allocate(list, bid, output))' /\ (soldAmount = Allocated(list, bid, output))'
  BY <1>4, <1>8, <1>10, <1>11
<1>13. (isSold = TakesAll(list, bid, output))'
  BY <1>1, <1>4, <1>8 DEF TakesAll
<1>14. (left = output - soldAmount)' /\ (output \in Nat \ {0} /\ soldAmount \in Nat)'
  <2>1. left' = output' - soldAmount'
    BY <1>3, <1>4, <1>11
  <2>2. output' \in Nat \ {0} /\ soldAmount' \in Nat
    BY <1>3, <1>4, <1>11
  <2> QED BY <2>1, <2>2
<1> QED BY <1>1, <1>9, <1>12, <1>13, <1>14 DEF LoopInv

LEMMA LoopEndKeeps == ASSUME LoopInv, LoopEnds PROVE LoopInv'
<1> DEFINE k == Len(bidInput)
           A == Asked(list, bid)
<1>1. /\ stage = "loop" /\ stage' = "done" /\ bid' = bid /\ list' = list /\ output' = output
      /\ left' = left /\ soldAmount' = soldAmount /\ bidInput' = bidInput /\ isSold' = isSold
  BY DEF LoopEnds
<1>2. /\ k = Len(bid) /\ k \in 0..Len(bid)
      /\ bidInput = [n \in 1..k |-> [id |-> list[n], amount |-> bid[list[n]].bidAmount]]
      /\ soldAmount = A[k] /\ soldAmount < output /\ isSold = FALSE /\ SortsOK /\ output \in Nat \ {0}
  <2>1. Len(list) = Len(bid)
    BY DEF LoopInv, SortsOK
  <2> QED BY <1>1, <2>1 DEF LoopEnds, LoopInv, WholeAwards
<1>3. /\ Allocate(list, bid, output) = [n \in 1..k |-> [id |-> list[n], amount |-> bid[list[n]].bidAmount]]
      /\ Allocated(list, bid, output) = A[k]
      /\ ~TakesAll(list, bid, output)
  BY <1>2, AllocationAt
<1>4. SortsOK'
  BY <1>1, <1>2 DEF SortsOK, InPlace, ByPrice, ByPriority, ByTime
<1>5. (bidInput = Allocate(list, bid, output))' /\ (soldAmount = Allocated(list, bid, output))'
  BY <1>1, <1>2, <1>3
<1>6. (isSold = TakesAll(list, bid, output))'
  BY <1>1, <1>2, <1>3 DEF TakesAll
<1> QED BY <1>1, <1>4, <1>5, <1>6 DEF LoopInv

LEMMA LoopStep == LoopInv /\ [LoopNext]_loopVars => LoopInv'
<1> SUFFICES ASSUME LoopInv, [LoopNext]_loopVars PROVE LoopInv'
  OBVIOUS
<1>1. CASE LoopNext
  BY <1>1, SortsKeep, TakeWholeKeeps, TakeRestKeeps, LoopEndKeeps DEF LoopNext
<1>2. CASE UNCHANGED loopVars
  BY <1>2 DEF loopVars, LoopInv, SortsOK, WholeAwards, InPlace, ByPrice, ByPriority, ByTime
<1> QED BY <1>1, <1>2

LEMMA LoopInvariant == LoopSpec => []LoopInv
  BY LoopStarts, LoopStep, PTL DEF LoopSpec

\* The sorts leave a ranking in which ties keep the order of the query, and the loop
\* hands out along it what BidAllocation says in one formula
\* (producerAppAuction.go:90-104, 156-170), for any list of bids and any amount.
THEOREM LoopComputesAllocation == LoopSpec => []LoopAllocates
<1>1. LoopInv => LoopAllocates
  <2> SUFFICES ASSUME LoopInv PROVE LoopAllocates
    OBVIOUS
  <2>1. SortsRankBids
    BY Ranked DEF LoopInv, SortsRankBids
  <2> QED BY <2>1 DEF LoopInv, LoopAllocates
<1> QED BY <1>1, LoopInvariant, PTL


\* The n-th bid of the list gets the n-th award, if there is one.
LEMMA AwardsByPlace ==
  ASSUME LoopInv, stage = "done"
  PROVE  /\ Len(bidInput) \in 0..Len(bid) /\ DOMAIN bidInput = 1..Len(bidInput)
         /\ \A x \in 1..Len(bid) : \E n \in 1..Len(bid) : list[n] = x
         /\ \A n \in 1..Len(bidInput) :
              /\ bidInput[n].id = list[n] /\ bidInput[n].amount \in 1..bid[list[n]].bidAmount
              /\ n < Len(bidInput) => bidInput[n].amount = bid[list[n]].bidAmount
         /\ \A n \in 1..Len(bid) :
              AwardOf(list[n]) = IF n <= Len(bidInput) THEN bidInput[n].amount ELSE 0
<1> DEFINE offer == Allocate(list, bid, output)
<1>1. /\ IsFiniteSet(DOMAIN bid) /\ DOMAIN bid = 1..Len(bid) /\ Cardinality(DOMAIN bid) = Len(bid)
      /\ list \in Rankings(DOMAIN bid, bid)
  BY Ranked DEF LoopInv
<1>2. Len(bid) \in Nat /\ list \in [1..Len(bid) -> 1..Len(bid)] /\ Len(list) = Len(bid)
  BY DEF LoopInv, SortsOK
<1>3. \A x, y \in 1..Len(bid) : x < y => list[x] # list[y]
  BY <1>1, <1>2, RankingFacts
<1>4. OffersInOrder(bidInput, list, DOMAIN bid, bid)
  <2>1. \A b \in DOMAIN bid : bid[b].bidAmount \in Nat \ {0}
    BY <1>1, BidKeys DEF LoopInv
  <2>2. bidInput = offer /\ output \in Nat \ {0}
    BY DEF LoopInv
  <2>3. OffersInOrder(offer, list, DOMAIN bid, bid)
    BY <1>1, <2>1, <2>2, AllocationIsFair
  <2> HIDE DEF offer
  <2> QED BY <2>2, <2>3
<1>5. /\ Len(bidInput) \in 0..Len(bid) /\ DOMAIN bidInput = 1..Len(bidInput)
      /\ \A n \in 1..Len(bidInput) :
           /\ bidInput[n].id = list[n] /\ bidInput[n].amount \in 1..bid[list[n]].bidAmount
           /\ n < Len(bidInput) => bidInput[n].amount = bid[list[n]].bidAmount
  <2>1. ASSUME NEW n \in 1..Len(bidInput)
        PROVE  /\ bidInput[n].id = list[n] /\ bidInput[n].amount \in 1..bid[list[n]].bidAmount
               /\ n < Len(bidInput) => bidInput[n].amount = bid[list[n]].bidAmount
    <3>1. /\ bidInput[n] = [id |-> list[n], amount |-> bidInput[n].amount]
          /\ bidInput[n].amount \in 1..bid[bidInput[n].id].bidAmount
          /\ n < Len(bidInput) => bidInput[n].amount = bid[bidInput[n].id].bidAmount
      BY <1>4 DEF OffersInOrder
    <3>2. bidInput[n].id = list[n]
      BY <3>1
    <3> QED BY <3>1, <3>2
  <2> QED BY <1>2, <1>4, <2>1 DEF OffersInOrder
<1>6. ASSUME NEW x \in 1..Len(bid) PROVE \E n \in 1..Len(bid) : list[n] = x
  <2>1. list \in Injection(1..Len(bid), 1..Len(bid))
    BY <1>2, <1>3 DEF Injection, IsInjective
  <2>2. list \in Surjection(1..Len(bid), 1..Len(bid))
    BY <1>1, <2>1, FS_Injection
  <2> QED BY <2>2 DEF Surjection
<1>7. ASSUME NEW n \in 1..Len(bid)
      PROVE  AwardOf(list[n]) = IF n <= Len(bidInput) THEN bidInput[n].amount ELSE 0
  <2>1. \A m \in DOMAIN bidInput : bidInput[m].id = list[n] => m = n
    <3>1. ASSUME NEW m \in DOMAIN bidInput, bidInput[m].id = list[n] PROVE m = n
      <4>1. m \in 1..Len(bid) /\ list[m] = list[n]
        BY <1>2, <1>5, <3>1
      <4> QED BY <1>3, <4>1
    <3> QED BY <3>1
  <2>2. CASE n <= Len(bidInput)
    <3>1. n \in DOMAIN bidInput /\ bidInput[n].id = list[n]
      BY <1>5, <2>2
    <3> QED BY <2>1, <2>2, <3>1 DEF AwardOf
  <2>3. CASE ~(n <= Len(bidInput))
    <3>1. ~\E m \in DOMAIN bidInput : bidInput[m].id = list[n]
      BY <1>5, <2>1, <2>3
    <3> QED BY <2>3, <3>1 DEF AwardOf
  <2> QED BY <2>2, <2>3
<1> QED BY <1>5, <1>6, <1>7

LEMMA BestFirst == LoopInv => HighestBidsFirst
<1> SUFFICES ASSUME LoopInv, stage = "done" PROVE HighestBidsFirst
  BY DEF HighestBidsFirst
<1> DEFINE K == Len(bidInput)
<1>1. /\ K \in 0..Len(bid) /\ DOMAIN bidInput = 1..K
      /\ \A x \in 1..Len(bid) : \E n \in 1..Len(bid) : list[n] = x
      /\ \A n \in 1..K :
           /\ bidInput[n].id = list[n] /\ bidInput[n].amount \in 1..bid[list[n]].bidAmount
           /\ n < K => bidInput[n].amount = bid[list[n]].bidAmount
      /\ \A n \in 1..Len(bid) : AwardOf(list[n]) = IF n <= K THEN bidInput[n].amount ELSE 0
  BY AwardsByPlace
<1> HIDE DEF K
<1>k. K \in Nat /\ K <= Len(bid)
  BY <1>1 DEF LoopInv, SortsOK
<1>a. ASSUME NEW n \in 1..K
      PROVE  /\ n \in 1..Len(bid) /\ bidInput[n].id = list[n]
             /\ bidInput[n].amount \in 1..bid[list[n]].bidAmount
             /\ AwardOf(list[n]) = bidInput[n].amount
             /\ n < K => AwardOf(list[n]) = bid[list[n]].bidAmount
  <2>1. n \in 1..Len(bid) /\ n <= K
    BY <1>k DEF LoopInv, SortsOK
  <2> QED BY <1>1, <2>1
<1>2. /\ DOMAIN bid = 1..Len(bid) /\ Len(bid) \in Nat /\ list \in [1..Len(bid) -> 1..Len(bid)]
      /\ SortsOK
  BY DEF LoopInv, SortsOK
<1>3. \A x, y \in 1..Len(bid) : x < y => list[x] # list[y] /\ ~Precedes(bid[list[y]], bid[list[x]])
  <2>1. /\ IsFiniteSet(DOMAIN bid) /\ Cardinality(DOMAIN bid) = Len(bid)
        /\ list \in Rankings(DOMAIN bid, bid)
    BY <1>2, Ranked
  <2> QED BY <1>2, <2>1, RankingFacts
<1>4. ASSUME NEW x \in 1..Len(bid), NEW y \in 1..Len(bid),
             Precedes(bid[x], bid[y]), AwardOf(y) > 0
      PROVE  AwardOf(x) = bid[x].bidAmount
  <2>1. PICK n \in 1..Len(bid) : list[n] = y
    BY <1>1
  <2>2. PICK m \in 1..Len(bid) : list[m] = x
    BY <1>1
  <2>3. n \in 1..K
    <3>1. AwardOf(list[n]) = IF n <= K THEN bidInput[n].amount ELSE 0
      BY <1>1
    <3>2. n <= K
      BY <1>4, <2>1, <3>1
    <3> QED BY <1>k, <3>2
  <2>4. m # n
    <3>1. ~Precedes(bid[x], bid[x])
      BY <1>2, BidKeys DEF Precedes
    <3> QED BY <1>4, <2>1, <2>2, <3>1
  <2>5. ~(n < m)
    BY <1>3, <1>4, <2>1, <2>2
  <2>6. m < n /\ m \in 1..K /\ m < K
    BY <1>k, <1>2, <2>3, <2>4, <2>5
  <2> QED BY <1>a, <2>2, <2>6
<1>5. ASSUME NEW x \in 1..Len(bid) PROVE AwardOf(x) <= bid[x].bidAmount
  <2>1. PICK n \in 1..Len(bid) : list[n] = x
    BY <1>1
  <2>2. bid[x].bidAmount \in Nat
    BY <1>2, BidKeys
  <2>3. CASE n <= K
    <3>1. n \in 1..K
      BY <1>k, <2>3
    <3> QED BY <1>a, <2>1, <2>2, <3>1
  <2>4. CASE ~(n <= K)
    BY <1>1, <1>2, <2>1, <2>2, <2>4
  <2> QED BY <2>3, <2>4
<1>6. ASSUME NEW m \in DOMAIN bidInput, NEW n \in DOMAIN bidInput, m # n
      PROVE  bidInput[m].id # bidInput[n].id
  <2>1. m \in 1..Len(bid) /\ n \in 1..Len(bid) /\ bidInput[m].id = list[m] /\ bidInput[n].id = list[n]
    <3>1. m \in 1..K /\ n \in 1..K
      BY <1>1
    <3> QED BY <1>a, <3>1
  <2> QED BY <1>3, <1>2, <1>6, <2>1
<1>7. ASSUME left > 0, NEW x \in 1..Len(bid) PROVE AwardOf(x) = bid[x].bidAmount
  <2> DEFINE A == Asked(list, bid)
             N == Len(bid)
  <2>1. output \in Nat \ {0} /\ left = output - soldAmount /\ soldAmount = MinOf(A[N], output)
        /\ bidInput = Allocate(list, bid, output)
    BY <1>2 DEF LoopInv, Allocated
  <2>2. A[N] < output
    <3>1. A[N] \in Nat
      <4>1. Sums(A, N, [n \in 1..N |-> bid[list[n]].bidAmount])
        BY <1>2, AskedAre
      <4> QED BY <1>2, <4>1 DEF Sums
    <3> HIDE DEF A, N
    <3> QED BY <1>7, <2>1, <3>1 DEF MinOf
  <2>3. bidInput = [n \in 1..N |-> [id |-> list[n], amount |-> bid[list[n]].bidAmount]]
    <3>1. N \in 0..Len(bid)
      BY <1>2
    <3> QED BY <1>2, <2>1, <2>2, <3>1, AllocationAt
  <2>4. K = N
    BY <1>2, <2>3 DEF K
  <2>5. PICK n \in 1..Len(bid) : list[n] = x
    BY <1>1
  <2>6. bidInput[n].amount = bid[x].bidAmount
    BY <2>3, <2>5
  <2> QED BY <1>1, <1>2, <2>4, <2>5, <2>6
<1>8. left = output - soldAmount
  BY DEF LoopInv
<1> QED BY <1>2, <1>4, <1>5, <1>6, <1>7, <1>8 DEF HighestBidsFirst

\* No bid gets anything while a better one is short of what it asked for, none gets
\* more than that, and energy is left only when all have it
\* (producerAppAuction.go:86-115, 150-173), for any list of bids and any amount.
THEOREM LoopServesBestFirst == LoopSpec => []HighestBidsFirst
  BY BestFirst, LoopInvariant, PTL


-----------------------------------------------------------------------------
(* The block listener with its checkpoint, for any chain and any number of    *)
(* failures.                                                                  *)

\* Blocks and transactions have numbers.
ChainOK ==
  /\ \A b \in DOMAIN chain : b \in Nat /\ chain[b] \in Seq(Kind) /\ Len(chain[b]) <= MaxTxs

\* The first valid transaction that the checkpoint does not count as done.
NextPlace(p) ==
  /\ p \in ValidPlaces /\ ~Checkpointed(p)
  /\ \A q \in ValidPlaces : Before(q, p) => Checkpointed(q)

ListenerTypes ==
  /\ ChainOK
  /\ checkpoint \in [block : Nat, tx : Nat]
  /\ phase \in {"down", "await", "process", "mark"}
  /\ store \in Seq([key : StateKeys, isDelete : BOOLEAN, tx : ValidPlaces])

\* The store has all that the transaction at place p wrote.
StoredAt(p) == \A x \in DOMAIN TxAt(p).writes : InStore(Entries(p)[x])

\* A process that works on a block has to do what the checkpoint leaves of it; one
\* that has to mark a transaction has stored it.
AtWork ==
  /\ phase # "down" => at = checkpoint.block
  /\ phase \in {"process", "mark"} => at \in DOMAIN chain /\ toDo = ToProcess
  /\ phase = "mark" => toDo # {} /\ StoredAt(PlaceNow(FirstToDo))

ListenerInv == ListenerTypes /\ AtWork /\ StoreFollowsLedger

LEMMA ChainsOK == ASSUME chain \in Chains PROVE ChainOK
<1>1. PICK n \in 0..MaxBlocks : chain \in [0..(n - 1) -> BlocksUpTo(MaxTxs)]
  BY DEF Chains
<1>2. ASSUME NEW b \in DOMAIN chain
      PROVE  b \in Nat /\ chain[b] \in Seq(Kind) /\ Len(chain[b]) <= MaxTxs
  <2>1. b \in 0..(n - 1) /\ chain[b] \in BlocksUpTo(MaxTxs)
    BY <1>1, <1>2
  <2>2. PICK k \in 0..MaxTxs : chain[b] \in [1..k -> Kinds]
    BY <2>1 DEF BlocksUpTo
  <2>3. k \in Nat /\ Kinds \subseteq Kind /\ MaxTxs \in Nat /\ n \in Nat
    BY ChainAssumption
  <2>4. chain[b] \in [1..k -> Kind]
    BY <2>2, <2>3
  <2> HIDE DEF Kind
  <2>5. chain[b] \in Seq(Kind) /\ Len(chain[b]) = k
    BY <2>3, <2>4
  <2> QED BY <2>1, <2>2, <2>3, <2>5
<1> QED BY <1>2 DEF ChainOK

\* The places of a chain.
LEMMA PlaceFacts ==
  ASSUME ChainOK
  PROVE  /\ \A p \in ValidPlaces :
              /\ p = [block |-> p.block, index |-> p.index]
              /\ p.block \in DOMAIN chain /\ p.block \in Nat /\ p.index \in DOMAIN chain[p.block]
              /\ p.index \in Nat \ {0} /\ TxAt(p) \in Kind /\ TxAt(p).valid
         /\ \A b \in DOMAIN chain : \A x \in 1..Len(chain[b]) :
              chain[b][x].valid => [block |-> b, index |-> x] \in ValidPlaces
<1>1. ASSUME NEW p \in ValidPlaces
      PROVE  /\ p = [block |-> p.block, index |-> p.index]
             /\ p.block \in DOMAIN chain /\ p.block \in Nat /\ p.index \in DOMAIN chain[p.block]
             /\ p.index \in Nat \ {0} /\ TxAt(p) \in Kind /\ TxAt(p).valid
  <2>1. p \in Places /\ p.index \in DOMAIN chain[p.block] /\ TxAt(p).valid
    BY DEF ValidPlaces, TxPlaces
  <2>2. PICK b \in DOMAIN chain, x \in 1..MaxTxs : p = [block |-> b, index |-> x]
    BY <2>1 DEF Places
  <2>3. p.block = b /\ p.index = x
    BY <2>2
  <2>4. b \in Nat /\ chain[b] \in Seq(Kind)
    BY DEF ChainOK
  <2> HIDE DEF Kind
  <2>5. chain[b][x] \in Kind
    BY <2>1, <2>3, <2>4
  <2> QED BY <2>1, <2>2, <2>3, <2>4, <2>5 DEF TxAt
<1>2. ASSUME NEW b \in DOMAIN chain, NEW x \in 1..Len(chain[b]), chain[b][x].valid
      PROVE  [block |-> b, index |-> x] \in ValidPlaces
  <2>1. chain[b] \in Seq(Kind) /\ Len(chain[b]) <= MaxTxs
    BY DEF ChainOK
  <2>2. x \in DOMAIN chain[b] /\ x \in 1..MaxTxs
    BY <2>1, ChainAssumption
  <2> QED BY <1>2, <2>2 DEF ValidPlaces, TxPlaces, Places, TxAt
<1> QED BY <1>1, <1>2


LEMMA EntryFacts ==
  ASSUME ChainOK, NEW p \in ValidPlaces
  PROVE  /\ Entries(p) \in Seq([key : StateKeys, isDelete : BOOLEAN, tx : ValidPlaces])
         /\ DOMAIN Entries(p) = DOMAIN TxAt(p).writes
         /\ \A x \in DOMAIN Entries(p) : Entries(p)[x].tx = p
<1>1. TxAt(p).writes \in Seq([key : StateKeys, isDelete : BOOLEAN])
  <2>1. TxAt(p) \in Kind
    BY PlaceFacts
  <2> QED BY <2>1 DEF Kind
<1> DEFINE w == TxAt(p).writes
<1>2. Entries(p) = [x \in 1..Len(w) |-> Entry(p, w[x])]
  BY <1>1 DEF Entries
<1>3. \A x \in 1..Len(w) :
        Entry(p, w[x]) \in [key : StateKeys, isDelete : BOOLEAN, tx : ValidPlaces] /\ Entry(p, w[x]).tx = p
  <2>1. ASSUME NEW x \in 1..Len(w) PROVE w[x] \in [key : StateKeys, isDelete : BOOLEAN]
    <3> DEFINE W == [key : StateKeys, isDelete : BOOLEAN]
    <3>1. w \in Seq(W)
      BY <1>1
    <3> HIDE DEF w, W
    <3>2. w[x] \in W
      BY <2>1, <3>1
    <3> QED BY <3>2 DEF W
  <2> HIDE DEF w
  <2> QED BY <2>1 DEF Entry
<1> HIDE DEF w
<1>4. DOMAIN w = 1..Len(w) /\ Len(w) \in Nat
  BY <1>1 DEF w
<1>5. /\ Entries(p) \in Seq([key : StateKeys, isDelete : BOOLEAN, tx : ValidPlaces])
      /\ DOMAIN Entries(p) = DOMAIN w
      /\ \A x \in DOMAIN Entries(p) : Entries(p)[x].tx = p
  BY <1>2, <1>3, <1>4
<1> QED BY <1>5 DEF w

\* Of what the checkpoint leaves of a block, the first is the next place.
LEMMA FirstIsNext ==
  ASSUME ListenerTypes, AtWork, phase \in {"process", "mark"}, toDo # {}
  PROVE  /\ FirstToDo \in toDo /\ \A x \in toDo : FirstToDo <= x
         /\ FirstToDo \in Nat /\ at = checkpoint.block /\ at \in Nat
         /\ NextPlace(PlaceNow(FirstToDo))
<1>1. /\ at = checkpoint.block /\ at \in DOMAIN chain /\ toDo = ToProcess /\ ChainOK
      /\ checkpoint.tx \in Nat /\ checkpoint.block \in Nat
  BY DEF AtWork, ListenerTypes
<1>2. chain[at] \in Seq(Kind)
  BY <1>1 DEF ChainOK
<1>3. \A x : x \in toDo <=> x \in (checkpoint.tx + 1)..Len(chain[at]) /\ chain[at][x].valid
  BY <1>1 DEF ToProcess, NewTransactions
<1>4. toDo \in SUBSET Nat
  BY <1>1, <1>2, <1>3
<1>5. FirstToDo \in toDo /\ \A x \in toDo : FirstToDo <= x
  BY <1>4, LeastOf DEF FirstToDo, Min
<1> DEFINE p == PlaceNow(FirstToDo)
<1>6. p.block = at /\ p.index = FirstToDo /\ p = [block |-> at, index |-> FirstToDo]
  BY DEF PlaceNow
<1>7. FirstToDo \in 1..Len(chain[at]) /\ chain[at][FirstToDo].valid /\ FirstToDo > checkpoint.tx
      /\ FirstToDo \in Nat
  <2>1. Len(chain[at]) \in Nat
    BY <1>2
  <2> QED BY <1>1, <1>3, <1>5, <2>1
<1>8. p \in ValidPlaces
  BY <1>1, <1>6, <1>7, PlaceFacts
<1>9. ~Checkpointed(p)
  BY <1>1, <1>6, <1>7 DEF Checkpointed
<1>10. ASSUME NEW q \in ValidPlaces, Before(q, p) PROVE Checkpointed(q)
  <2>1. /\ q.block \in Nat /\ q.index \in DOMAIN chain[q.block] /\ q.index \in Nat \ {0} /\ TxAt(q).valid
    BY <1>1, PlaceFacts
  <2>2. CASE q.block < at
    BY <1>1, <2>2 DEF Checkpointed
  <2>3. CASE q.block = at /\ q.index < FirstToDo
    <3>1. q.index \in 1..Len(chain[at]) /\ chain[at][q.index].valid
      BY <1>2, <2>1, <2>3 DEF TxAt
    <3>2. q.index \notin toDo
      BY <1>5, <1>7, <2>1, <2>3
    <3>3. q.index <= checkpoint.tx
      BY <1>1, <1>3, <2>1, <3>1, <3>2
    <3> QED BY <1>1, <2>3, <3>3 DEF Checkpointed
  <2> QED BY <1>6, <1>10, <2>2, <2>3 DEF Before
<1> HIDE DEF p
<1>11. NextPlace(p)
  BY <1>8, <1>9, <1>10 DEF NextPlace
<1> QED BY <1>1, <1>5, <1>7, <1>11 DEF p

\* Entries of the next place may be appended.
LEMMA StoreGrows ==
  ASSUME ListenerTypes, StoreFollowsLedger, NEW p, NextPlace(p),
         NEW s \in Seq([key : StateKeys, isDelete : BOOLEAN, tx : ValidPlaces]),
         \A x \in DOMAIN s : s[x].tx = p,
         store' = store \o s, checkpoint' = checkpoint, chain' = chain
  PROVE  /\ StoreFollowsLedger'
         /\ store' \in Seq([key : StateKeys, isDelete : BOOLEAN, tx : ValidPlaces'])
         /\ \A e : InStore(e) \/ (\E x \in DOMAIN s : s[x] = e) => \E y \in DOMAIN store' : store'[y] = e
<1> DEFINE E == [key : StateKeys, isDelete : BOOLEAN, tx : ValidPlaces]
           m == Len(store)
<1>1. store \in Seq(E) /\ s \in Seq(E) /\ m \in Nat /\ Len(s) \in Nat
  BY DEF ListenerTypes
<1>2. ValidPlaces' = ValidPlaces
  BY DEF ValidPlaces, TxPlaces, Places, TxAt
<1> DEFINE Add(x) == m + x
<1>3. /\ store' \in Seq(E) /\ Len(store') = m + Len(s)
      /\ \A x \in 1..m : store'[x] = store[x]
      /\ \A x \in 1..Len(s) : store'[m + x] = s[x]
  <2> HIDE DEF E
  <2> QED BY <1>1
<1>4. DOMAIN store = 1..m /\ DOMAIN store' = 1..(m + Len(s)) /\ DOMAIN s = 1..Len(s)
  BY <1>1, <1>3
<1>5. \A x \in DOMAIN store' : \/ x \in 1..m /\ store'[x] = store[x]
                               \/ ~(x <= m) /\ x \in Nat /\ store'[x].tx = p
  <2>1. ASSUME NEW x \in DOMAIN store', ~(x \in 1..m) PROVE ~(x <= m) /\ x \in Nat /\ store'[x].tx = p
    <3>1. x - m \in 1..Len(s) /\ x = m + (x - m)
      BY <1>1, <1>4, <2>1
    <3>2. store'[x] = s[x - m]
      BY <1>3, <3>1
    <3> QED BY <1>1, <1>4, <2>1, <3>1, <3>2
  <2> QED BY <1>3, <2>1
<1>6. ASSUME NEW e, InStore(e) \/ (\E x \in DOMAIN s : s[x] = e)
      PROVE  \E y \in DOMAIN store' : store'[y] = e
  <2>1. CASE InStore(e)
    BY <1>1, <1>3, <1>4, <2>1 DEF InStore
  <2>2. CASE \E x \in DOMAIN s : s[x] = e
    <3>1. PICK x \in 1..Len(s) : s[x] = e
      BY <1>4, <2>2
    <3>2. m + x \in DOMAIN store' /\ store'[m + x] = e
      BY <1>1, <1>3, <1>4, <3>1
    <3> QED BY <3>2 DEF InStore
  <2> QED BY <1>6, <2>1, <2>2
<1>7. \A q : Checkpointed(q)' <=> Checkpointed(q)
  BY DEF Checkpointed
<1>8. \A q \in ValidPlaces : Checkpointed(q) =>
        \A x \in DOMAIN TxAt(q).writes : \E y \in DOMAIN store' : store'[y] = Entries(q)[x]
  BY <1>6 DEF StoreFollowsLedger
<1>9. \A q : TxAt(q)' = TxAt(q) /\ Entries(q)' = Entries(q)
  BY DEF TxAt, Entries, Entry
<1>10. (\A q \in ValidPlaces : Checkpointed(q) => \A x \in DOMAIN TxAt(q).writes : InStore(Entries(q)[x]))'
  BY <1>2, <1>7, <1>8, <1>9 DEF InStore
<1>11. ASSUME NEW x \in DOMAIN store', ~Checkpointed(store'[x].tx),
              NEW q \in ValidPlaces, Before(q, store'[x].tx)
       PROVE  Checkpointed(q)
  <2>1. CASE x \in 1..m /\ store'[x] = store[x]
    BY <1>4, <1>11, <2>1 DEF StoreFollowsLedger
  <2>2. CASE store'[x].tx = p
    BY <1>11, <2>2 DEF NextPlace
  <2> QED BY <1>5, <2>1, <2>2
<1>12. ASSUME NEW x \in DOMAIN store', NEW y \in DOMAIN store', x < y
       PROVE  ~Before(store'[y].tx, store'[x].tx)
  <2>p. \A q \in ValidPlaces : q.block \in Nat /\ q.index \in Nat
    BY PlaceFacts DEF ListenerTypes
  <2>1. CASE y \in 1..m /\ store'[y] = store[y]
    <3>1. x \in 1..m /\ store'[x] = store[x]
      BY <1>1, <1>5, <1>12, <2>1
    <3> QED BY <1>4, <1>12, <2>1, <3>1 DEF StoreFollowsLedger
  <2>2. CASE store'[y].tx = p
    <3>1. CASE x \in 1..m /\ store'[x] = store[x]
      <4>1. store[x] \in E
        <5> HIDE DEF E
        <5> QED BY <1>1, <3>1
      <4>2. store[x].tx \in ValidPlaces
        BY <4>1
      <4>3. ~Checkpointed(store[x].tx) => ~Before(p, store[x].tx)
        BY <1>4, <3>1 DEF StoreFollowsLedger, NextPlace
      <4>4. Checkpointed(store[x].tx) => ~Before(p, store[x].tx)
        BY <2>p, <4>2 DEF Checkpointed, Before, NextPlace, ListenerTypes
      <4> QED BY <2>2, <3>1, <4>3, <4>4
    <3>2. CASE store'[x].tx = p
      BY <2>p, <2>2, <3>2 DEF Before, NextPlace
    <3> QED BY <1>5, <3>1, <3>2
  <2> QED BY <1>5, <2>1, <2>2
<1>13. (\A x \in DOMAIN store : ~Checkpointed(store[x].tx) =>
          \A q \in ValidPlaces : Before(q, store[x].tx) => Checkpointed(q))'
  BY <1>2, <1>7, <1>11 DEF Before
<1>14. (\A x, y \in DOMAIN store : x < y => ~Before(store[y].tx, store[x].tx))'
  BY <1>12 DEF Before
<1>15. StoreFollowsLedger'
  BY <1>10, <1>13, <1>14 DEF StoreFollowsLedger
<1> QED BY <1>2, <1>3, <1>6, <1>15


LEMMA ListenerStarts == ListenerInit => ListenerInv
<1> SUFFICES ASSUME ListenerInit PROVE ListenerInv
  OBVIOUS
<1>1. ChainOK
  BY ChainsOK DEF ListenerInit
<1>2. store = <<>> /\ checkpoint = [block |-> 0, tx |-> 0] /\ phase = "down"
  BY DEF ListenerInit, NoneDone
<1>3. \A p \in ValidPlaces : ~Checkpointed(p)
  BY <1>1, <1>2, PlaceFacts DEF Checkpointed
<1> QED BY <1>1, <1>2, <1>3 DEF ListenerInv, ListenerTypes, AtWork, StoreFollowsLedger

\* The process starts, gets a block, or ends: the store and the checkpoint stay.
LEMMA ListenerMoves ==
  ASSUME ListenerInv, StartEvents \/ Receive \/ ListenerFails PROVE ListenerInv'
<1>1. chain' = chain /\ store' = store /\ checkpoint' = checkpoint
  BY DEF StartEvents, Receive, ListenerFails, ListenerDown
<1>2. ListenerTypes'
  <2>1. phase' \in {"down", "await", "process", "mark"}
    BY DEF StartEvents, Receive, ListenerFails, ListenerDown
  <2>2. ValidPlaces' = ValidPlaces
    BY <1>1 DEF ValidPlaces, TxPlaces, Places, TxAt
  <2> QED BY <1>1, <2>1, <2>2 DEF ListenerInv, ListenerTypes, ChainOK
<1>3. AtWork'
  <2>1. CASE StartEvents
    BY <1>1, <2>1 DEF AtWork, StartEvents
  <2>2. CASE Receive
    BY <1>1, <2>2 DEF ListenerInv, AtWork, Receive, ToProcess, NewTransactions
  <2>3. CASE ListenerFails
    BY <1>1, <2>3 DEF AtWork, ListenerFails, ListenerDown
  <2> QED BY <2>1, <2>2, <2>3
<1>4. StoreFollowsLedger'
  BY <1>1 DEF ListenerInv, StoreFollowsLedger, ValidPlaces, TxPlaces, Places, TxAt, Checkpointed,
     InStore, Entries, Entry, Before
<1> QED BY <1>2, <1>3, <1>4 DEF ListenerInv

LEMMA StoreKeeps == ASSUME ListenerInv, Store PROVE ListenerInv'
<1> DEFINE p == PlaceNow(FirstToDo)
<1>1. /\ phase = "process" /\ toDo # {} /\ store' = store \o Entries(p) /\ phase' = "mark"
      /\ chain' = chain /\ checkpoint' = checkpoint /\ at' = at /\ toDo' = toDo
  BY DEF Store
<1>2. NextPlace(p)
  BY <1>1, FirstIsNext DEF ListenerInv
<1>3. /\ Entries(p) \in Seq([key : StateKeys, isDelete : BOOLEAN, tx : ValidPlaces])
      /\ DOMAIN Entries(p) = DOMAIN TxAt(p).writes
      /\ \A x \in DOMAIN Entries(p) : Entries(p)[x].tx = p
  <2> HIDE DEF p
  <2> QED BY <1>2, EntryFacts DEF ListenerInv, ListenerTypes, NextPlace
<1>4. /\ StoreFollowsLedger'
      /\ store' \in Seq([key : StateKeys, isDelete : BOOLEAN, tx : ValidPlaces'])
      /\ \A e : InStore(e) \/ (\E x \in DOMAIN Entries(p) : Entries(p)[x] = e)
                  => \E y \in DOMAIN store' : store'[y] = e
  <2> HIDE DEF p
  <2> QED BY <1>1, <1>2, <1>3, StoreGrows DEF ListenerInv
<1>5. ListenerTypes'
  BY <1>1, <1>4 DEF ListenerInv, ListenerTypes, ChainOK
<1>6. PlaceNow(FirstToDo)' = p /\ Entries(p)' = Entries(p) /\ TxAt(p)' = TxAt(p)
  BY <1>1 DEF PlaceNow, FirstToDo, Entries, Entry, TxAt
<1>7. AtWork'
  <2>1. at' = checkpoint'.block /\ at' \in DOMAIN chain' /\ toDo' = ToProcess' /\ toDo' # {}
    BY <1>1 DEF ListenerInv, AtWork, ToProcess, NewTransactions
  <2>2. \A x \in DOMAIN TxAt(p).writes : \E y \in DOMAIN store' : store'[y] = Entries(p)[x]
    BY <1>3, <1>4
  <2> PICK q : q = p
    OBVIOUS
  <2>3. StoredAt(q)'
    <3>1. \A x \in DOMAIN TxAt(q).writes : \E y \in DOMAIN store' : store'[y] = Entries(q)[x]
      BY <2>2
    <3>2. TxAt(q)' = TxAt(q) /\ Entries(q)' = Entries(q)
      BY <1>1 DEF TxAt, Entries, Entry
    <3> QED BY <3>1, <3>2 DEF StoredAt, InStore
  <2>4. PlaceNow(FirstToDo)' = q
    BY <1>6
  <2> HIDE DEF p
  <2>5. StoredAt(PlaceNow(FirstToDo))'
    BY <2>3, <2>4
  <2> QED BY <1>1, <2>1, <2>5 DEF AtWork
<1> QED BY <1>4, <1>5, <1>7 DEF ListenerInv

LEMMA TornStoreKeeps == ASSUME ListenerInv, TornStore PROVE ListenerInv'
<1> DEFINE p == PlaceNow(FirstToDo)
           E == [key : StateKeys, isDelete : BOOLEAN, tx : ValidPlaces]
<1>1. /\ phase = "process" /\ toDo # {} /\ phase' = "down"
      /\ chain' = chain /\ checkpoint' = checkpoint
  BY DEF TornStore, ListenerDown
<1>2. NextPlace(p)
  BY <1>1, FirstIsNext DEF ListenerInv
<1>3. PICK n \in 1..(Len(Entries(p)) - 1) : store' = store \o SubSeq(Entries(p), 1, n)
  BY DEF TornStore
<1> DEFINE s == SubSeq(Entries(p), 1, n)
<1>4. Entries(p) \in Seq(E) /\ \A x \in DOMAIN Entries(p) : Entries(p)[x].tx = p
  <2> HIDE DEF p
  <2> QED BY <1>2, EntryFacts DEF ListenerInv, ListenerTypes, NextPlace
<1>5. s \in Seq(E) /\ \A x \in DOMAIN s : s[x].tx = p
  <2> DEFINE w == Entries(p)
  <2> HIDE DEF E, p, w
  <2>1. w \in Seq(E) /\ n \in 1..(Len(w) - 1) /\ \A x \in 1..Len(w) : w[x].tx = p
    BY <1>3, <1>4 DEF w
  <2>2. /\ SubSeq(w, 1, n) \in Seq(E) /\ Len(SubSeq(w, 1, n)) = n
        /\ \A x \in 1..n : SubSeq(w, 1, n)[x] = w[x]
    BY <2>1
  <2>3. \A x \in DOMAIN SubSeq(w, 1, n) : SubSeq(w, 1, n)[x].tx = p
    BY <2>1, <2>2
  <2> QED BY <2>2, <2>3 DEF w
<1>6. /\ StoreFollowsLedger'
      /\ store' \in Seq([key : StateKeys, isDelete : BOOLEAN, tx : ValidPlaces'])
  <2> HIDE DEF p, s
  <2>1. store' = store \o s
    BY <1>3 DEF s
  <2> QED BY <1>1, <1>2, <1>5, <2>1, StoreGrows DEF ListenerInv, E
<1>7. ListenerTypes'
  BY <1>1, <1>6 DEF ListenerInv, ListenerTypes, ChainOK
<1>8. AtWork'
  BY <1>1 DEF AtWork
<1> QED BY <1>6, <1>7, <1>8 DEF ListenerInv

\* The checkpoint may move over places whose transactions are stored.
LEMMA CheckpointMoves ==
  ASSUME ListenerInv, chain' = chain, store' = store,
         \A q \in ValidPlaces : Checkpointed(q) => Checkpointed(q)',
         \A q \in ValidPlaces : Checkpointed(q)' => Checkpointed(q) \/ StoredAt(q)
  PROVE  StoreFollowsLedger'
<1>1. ValidPlaces' = ValidPlaces
  BY DEF ValidPlaces, TxPlaces, Places, TxAt
<1>2. \A q : TxAt(q)' = TxAt(q) /\ Entries(q)' = Entries(q)
  BY DEF TxAt, Entries, Entry
<1>3. \A q \in ValidPlaces : Checkpointed(q) => StoredAt(q)
  BY DEF ListenerInv, StoreFollowsLedger, StoredAt
<1>4. ASSUME NEW q \in ValidPlaces, Checkpointed(q)'
      PROVE  \A x \in DOMAIN TxAt(q).writes : \E y \in DOMAIN store : store[y] = Entries(q)[x]
  BY <1>3, <1>4 DEF StoredAt, InStore
<1>5. (\A q \in ValidPlaces : Checkpointed(q) => \A x \in DOMAIN TxAt(q).writes : InStore(Entries(q)[x]))'
  BY <1>1, <1>2, <1>4 DEF InStore
<1>6. ASSUME NEW x \in DOMAIN store, ~Checkpointed(store[x].tx)',
             NEW q \in ValidPlaces, Before(q, store[x].tx)
      PROVE  Checkpointed(q)'
  <2>1. PICK t : t = store[x].tx
    OBVIOUS
  <2>2. t \in ValidPlaces
    <3> DEFINE E == [key : StateKeys, isDelete : BOOLEAN, tx : ValidPlaces]
    <3>1. store \in Seq(E)
      BY DEF ListenerInv, ListenerTypes
    <3> HIDE DEF E
    <3>2. store[x] \in E
      BY <1>6, <3>1
    <3> QED BY <2>1, <3>2 DEF E
  <2>3. ~Checkpointed(t)'
    BY <1>6, <2>1 DEF Checkpointed
  <2>4. ~Checkpointed(t)
    BY <2>2, <2>3
  <2>5. Checkpointed(q)
    BY <1>6, <2>1, <2>4 DEF ListenerInv, StoreFollowsLedger
  <2> QED BY <2>5
<1>7. (\A x \in DOMAIN store : ~Checkpointed(store[x].tx) =>
          \A q \in ValidPlaces : Before(q, store[x].tx) => Checkpointed(q))'
  BY <1>1, <1>6 DEF Before, Checkpointed
<1>8. (\A x, y \in DOMAIN store : x < y => ~Before(store[y].tx, store[x].tx))'
  BY DEF ListenerInv, StoreFollowsLedger, Before
<1> QED BY <1>5, <1>7, <1>8 DEF StoreFollowsLedger

LEMMA CheckpointTransactionKeeps == ASSUME ListenerInv, CheckpointTransaction PROVE ListenerInv'
<1> DEFINE f == FirstToDo
<1>1. /\ phase = "mark" /\ checkpoint' = [block |-> at, tx |-> f] /\ toDo' = toDo \ {f}
      /\ phase' = "process" /\ chain' = chain /\ store' = store /\ at' = at
  BY DEF CheckpointTransaction
<1>2. /\ f \in toDo /\ (\A x \in toDo : f <= x) /\ f \in Nat /\ at = checkpoint.block /\ at \in Nat
      /\ NextPlace(PlaceNow(f))
  BY <1>1, FirstIsNext DEF ListenerInv, AtWork
<1>3. StoredAt(PlaceNow(f)) /\ at \in DOMAIN chain /\ toDo = ToProcess
  BY <1>1 DEF ListenerInv, AtWork
<1> HIDE DEF f
<1>4. ChainOK /\ checkpoint.tx \in Nat /\ chain[at] \in Seq(Kind)
  BY <1>3 DEF ListenerInv, ListenerTypes, ChainOK
<1>5. \A x : x \in toDo <=> x \in (checkpoint.tx + 1)..Len(chain[at]) /\ chain[at][x].valid
  BY <1>3 DEF ToProcess, NewTransactions
<1>6. Len(chain[at]) \in Nat
  BY <1>4
<1>7. \A q \in ValidPlaces : q.block \in Nat /\ q.index \in Nat
                             /\ q = [block |-> q.block, index |-> q.index]
  BY <1>4, PlaceFacts
<1>8. \A q : Checkpointed(q)' <=> (q.block < at \/ (q.block = at /\ q.index <= f))
  BY <1>1 DEF Checkpointed
<1>9. checkpoint.tx < f
  BY <1>2, <1>4, <1>5, <1>6
<1>10. ASSUME NEW q \in ValidPlaces, Checkpointed(q) PROVE Checkpointed(q)'
  BY <1>2, <1>4, <1>7, <1>8, <1>9, <1>10 DEF Checkpointed
<1>11. ASSUME NEW q \in ValidPlaces, Checkpointed(q)' PROVE Checkpointed(q) \/ StoredAt(q)
  <2>1. CASE q.block < at \/ q.index < f
    <3>1. Before(q, PlaceNow(f))
      BY <1>2, <1>7, <1>8, <1>11, <2>1 DEF Before, PlaceNow
    <3> QED BY <1>2, <3>1 DEF NextPlace
  <2>2. CASE q.block = at /\ q.index = f
    BY <1>3, <1>7, <2>2 DEF PlaceNow
  <2> QED BY <1>2, <1>7, <1>8, <1>11, <2>1, <2>2
<1>12. StoreFollowsLedger'
  BY <1>1, <1>10, <1>11, CheckpointMoves
<1>13. ListenerTypes'
  <2>1. ValidPlaces' = ValidPlaces
    BY <1>1 DEF ValidPlaces, TxPlaces, Places, TxAt
  <2>2. checkpoint' \in [block : Nat, tx : Nat]
    BY <1>1, <1>2
  <2> QED BY <1>1, <2>1, <2>2 DEF ListenerInv, ListenerTypes, ChainOK
<1>14. toDo' = ToProcess'
  <2>1. ToProcess' = {x \in (f + 1)..Len(chain[at]) : chain[at][x].valid}
    BY <1>1 DEF ToProcess, NewTransactions
  <2>2. \A x : x \in toDo \ {f} <=> x \in (f + 1)..Len(chain[at]) /\ chain[at][x].valid
    BY <1>2, <1>4, <1>5, <1>6, <1>9
  <2> QED BY <1>1, <2>1, <2>2
<1>15. AtWork'
  BY <1>1, <1>3, <1>14 DEF AtWork
<1> QED BY <1>12, <1>13, <1>15 DEF ListenerInv

LEMMA CheckpointBlockKeeps == ASSUME ListenerInv, CheckpointBlock PROVE ListenerInv'
<1>1. /\ phase = "process" /\ toDo = {} /\ checkpoint' = [block |-> at + 1, tx |-> 0]
      /\ at' = at + 1 /\ phase' = "await" /\ chain' = chain /\ store' = store
  BY DEF CheckpointBlock, NoneDone
<1>2. ChainOK /\ at = checkpoint.block /\ at \in DOMAIN chain /\ toDo = ToProcess
      /\ checkpoint.tx \in Nat /\ at \in Nat
  BY <1>1 DEF ListenerInv, ListenerTypes, AtWork
<1>3. chain[at] \in Seq(Kind)
  BY <1>2 DEF ChainOK
<1>4. \A q : Checkpointed(q)' <=> (q.block < at + 1 \/ (q.block = at + 1 /\ q.index <= 0))
  BY <1>1 DEF Checkpointed
<1>5. ASSUME NEW q \in ValidPlaces, Checkpointed(q) PROVE Checkpointed(q)'
  <2>1. q.block \in Nat
    BY <1>2, PlaceFacts
  <2> QED BY <1>2, <1>4, <1>5, <2>1 DEF Checkpointed
<1>6. ASSUME NEW q \in ValidPlaces, Checkpointed(q)' PROVE Checkpointed(q)
  <2>1. q.block \in Nat /\ q.index \in DOMAIN chain[q.block] /\ q.index \in Nat \ {0} /\ TxAt(q).valid
    BY <1>2, PlaceFacts
  <2>2. q.block <= at
    BY <1>2, <1>4, <1>6, <2>1
  <2>3. CASE q.block = at
    <3>1. q.index \in 1..Len(chain[at]) /\ chain[at][q.index].valid
      BY <1>3, <2>1, <2>3 DEF TxAt
    <3>2. q.index \notin (checkpoint.tx + 1)..Len(chain[at])
      BY <1>1, <1>2, <3>1 DEF ToProcess, NewTransactions
    <3>3. Len(chain[at]) \in Nat
      BY <1>3
    <3>4. q.index <= checkpoint.tx
      BY <1>2, <2>1, <3>1, <3>2, <3>3
    <3> QED BY <1>2, <2>3, <3>4 DEF Checkpointed
  <2>4. CASE q.block < at
    BY <1>2, <2>4 DEF Checkpointed
  <2> QED BY <1>2, <2>1, <2>2, <2>3, <2>4
<1>7. StoreFollowsLedger'
  BY <1>1, <1>5, <1>6, CheckpointMoves
<1>8. ListenerTypes'
  <2>1. ValidPlaces' = ValidPlaces
    BY <1>1 DEF ValidPlaces, TxPlaces, Places, TxAt
  <2>2. checkpoint' \in [block : Nat, tx : Nat]
    BY <1>1, <1>2
  <2> QED BY <1>1, <2>1, <2>2 DEF ListenerInv, ListenerTypes, ChainOK
<1>9. AtWork'
  BY <1>1 DEF AtWork
<1> QED BY <1>7, <1>8, <1>9 DEF ListenerInv

LEMMA ListenerStutters == ASSUME ListenerInv, UNCHANGED listenerVars PROVE ListenerInv'
<1> USE DEF listenerVars
<1>1. ValidPlaces' = ValidPlaces
  BY DEF ValidPlaces, TxPlaces, Places, TxAt
<1>2. ListenerTypes'
  BY <1>1 DEF ListenerInv, ListenerTypes, ChainOK
<1>3. StoreFollowsLedger'
  BY DEF ListenerInv, StoreFollowsLedger, ValidPlaces, TxPlaces, Places, TxAt, Checkpointed,
     InStore, Entries, Entry, Before
<1>4. AtWork'
  BY DEF ListenerInv, AtWork, ToProcess, NewTransactions, StoredAt, PlaceNow, FirstToDo, TxAt,
     Entries, Entry, InStore
<1> QED BY <1>2, <1>3, <1>4 DEF ListenerInv

LEMMA ListenerStep == ListenerInv /\ [ListenerNext]_listenerVars => ListenerInv'
  BY ListenerMoves, StoreKeeps, TornStoreKeeps, CheckpointTransactionKeeps, CheckpointBlockKeeps,
     ListenerStutters DEF ListenerNext, Listening

\* Wherever the process dies, within an append too, and however often it is started
\* again, the store has all writes of the transactions that the checkpoint counts as
\* done, in the ledger's order, and beyond them only those of the next one
\* (application-typescript/src/listen.ts), for any chain and any number of failures.
THEOREM ListenerMissesNothing == ListenerSpec => []StoreFollowsLedger
<1>1. ListenerInv => StoreFollowsLedger
  BY DEF ListenerInv
<1> QED BY <1>1, ListenerStarts, ListenerStep, PTL DEF ListenerSpec


-----------------------------------------------------------------------------
(* The log of the legacy listener, for any chain and any number of restarts.  *)

\* The transaction of a write.
TxOf(w) == [block |-> w.block, index |-> w.index]
FirstWriteAt(p) == [block |-> p.block, index |-> p.index, write |-> 1]
InLog(p) == \E x \in DOMAIN log : log[x] = p

PendingTypes ==
  /\ ChainOK
  /\ nextBlock \in Nat
  /\ pending \subseteq DOMAIN chain
  /\ log \in Seq({p \in ValidPlaces : TxAt(p).writes # <<>>})

\* Of the block under way the first writes are done, and their transactions logged.
BeginningIsDone ==
  /\ done \subseteq WritesOf(nextBlock)
  /\ done # {} => nextBlock \in DOMAIN chain
  /\ \A w \in done : InLog(TxOf(w))
  /\ \A w \in done : \A v \in WritesOf(nextBlock) : Precede(v, w) => v \in done

\* A block follows the blocks before it, and when a transaction is logged the ones
\* before it in its block are.
LogInOrder ==
  /\ \A x \in DOMAIN log : log[x].block <= nextBlock
  /\ \A x, y \in DOMAIN log : x < y => log[x].block <= log[y].block
  /\ \A x \in DOMAIN log : \A p \in ValidPlaces :
       TxAt(p).writes # <<>> /\ p.block = log[x].block /\ p.index < log[x].index
         => \E m \in 1..(x - 1) : log[m] = p

LogHasTheDone == \A p \in ValidPlaces : p.block < nextBlock /\ TxAt(p).writes # <<>> => InLog(p)

PendingInv == PendingTypes /\ BeginningIsDone /\ LogInOrder /\ LogHasTheDone

\* The writes of a block.
LEMMA WriteFacts ==
  ASSUME ChainOK, NEW b \in DOMAIN chain
  PROVE  /\ \A w \in WritesOf(b) :
              /\ w.block = b /\ w.index \in Nat /\ w.write \in Nat \ {0}
              /\ w = [block |-> b, index |-> w.index, write |-> w.write]
              /\ TxOf(w) \in ValidPlaces /\ TxAt(TxOf(w)).writes # <<>>
         /\ \A p \in ValidPlaces :
              p.block = b /\ TxAt(p).writes # <<>> => FirstWriteAt(p) \in WritesOf(b)
<1>1. ASSUME NEW p \in ValidPlaces
      PROVE  TxAt(p).writes \in Seq([key : StateKeys, isDelete : BOOLEAN])
  <2>1. TxAt(p) \in Kind
    BY <1>1, PlaceFacts
  <2> QED BY <2>1 DEF Kind
<1>2. ASSUME NEW w \in WritesOf(b)
      PROVE  /\ w.block = b /\ w.index \in Nat /\ w.write \in Nat \ {0}
             /\ w = [block |-> b, index |-> w.index, write |-> w.write]
             /\ TxOf(w) \in ValidPlaces /\ TxAt(TxOf(w)).writes # <<>>
  <2>1. PICK x \in {n \in DOMAIN chain[b] : chain[b][n].valid} :
          w \in [block : {b}, index : {x}, write : DOMAIN chain[b][x].writes]
    BY <1>2 DEF WritesOf
  <2>2. /\ w.block = b /\ w.index = x /\ w.write \in DOMAIN chain[b][x].writes
        /\ w = [block |-> b, index |-> w.index, write |-> w.write]
        /\ TxOf(w) = [block |-> b, index |-> x]
    BY <2>1 DEF TxOf
  <2>3. x \in 1..Len(chain[b])
    BY <2>1 DEF ChainOK
  <2>4. TxOf(w) \in ValidPlaces
    BY <2>1, <2>2, <2>3, PlaceFacts
  <2>5. x \in Nat
    BY <2>3 DEF ChainOK
  <2>6. TxAt(TxOf(w)).writes = chain[b][x].writes
    BY <2>2 DEF TxAt
  <2>7. chain[b][x].writes \in Seq([key : StateKeys, isDelete : BOOLEAN])
    BY <1>1, <2>4, <2>6
  <2>8. w.write \in Nat \ {0} /\ chain[b][x].writes # <<>>
    BY <2>2, <2>7
  <2> QED BY <2>2, <2>4, <2>5, <2>6, <2>8
<1>3. ASSUME NEW p \in ValidPlaces, p.block = b, TxAt(p).writes # <<>>
      PROVE  FirstWriteAt(p) \in WritesOf(b)
  <2>1. p.index \in DOMAIN chain[b] /\ chain[b][p.index].valid
    BY <1>3, PlaceFacts DEF TxAt
  <2>2. 1 \in DOMAIN chain[b][p.index].writes
    BY <1>1, <1>3 DEF TxAt
  <2>3. FirstWriteAt(p) \in [block : {b}, index : {p.index}, write : DOMAIN chain[b][p.index].writes]
    BY <1>3, <2>2 DEF FirstWriteAt
  <2> QED BY <2>1, <2>3 DEF WritesOf
<1> QED BY <1>2, <1>3

\* The writes left have a first one.
LEMMA NextWriteFacts ==
  ASSUME ChainOK, nextBlock \in DOMAIN chain, done # WritesOf(nextBlock),
         done \subseteq WritesOf(nextBlock)
  PROVE  /\ NextWrite \in WritesOf(nextBlock) /\ NextWrite \notin done
         /\ \A v \in WritesOf(nextBlock) : Precede(v, NextWrite) => v \in done
<1> DEFINE Left == WritesOf(nextBlock) \ done
           I == {v.index : v \in Left}
<1>1. /\ \A v \in Left : v.index \in Nat /\ v.write \in Nat
                         /\ v = [block |-> nextBlock, index |-> v.index, write |-> v.write]
      /\ Left # {}
  BY WriteFacts
<1> HIDE DEF Left
<1>2. PICK a \in I : \A x \in I : a <= x
  <2>1. I \in SUBSET Nat /\ I # {}
    BY <1>1
  <2> QED BY <2>1, LeastOf
<1> DEFINE W == {v.write : v \in {u \in Left : u.index = a}}
<1>3. PICK c \in W : \A x \in W : c <= x
  <2>1. W \in SUBSET Nat /\ W # {}
    BY <1>1, <1>2
  <2> QED BY <2>1, LeastOf
<1>4. PICK w \in Left : w.index = a /\ w.write = c
  BY <1>3
<1>5. ASSUME NEW v \in Left PROVE v = w \/ Precede(w, v)
  <2>1. v.index \in Nat /\ a <= v.index /\ a \in Nat /\ c \in Nat
    BY <1>1, <1>2, <1>4
  <2>2. CASE v.index = a
    <3>1. c <= v.write /\ v.write \in Nat
      BY <1>1, <1>3, <2>2
    <3>2. CASE v.write = c
      BY <1>1, <1>4, <2>2, <3>2
    <3> QED BY <1>4, <2>1, <2>2, <3>1, <3>2 DEF Precede
  <2> QED BY <1>4, <2>1, <2>2 DEF Precede
<1>6. NextWrite \in Left /\ \A v \in Left : v = NextWrite \/ Precede(NextWrite, v)
  BY <1>4, <1>5 DEF NextWrite, Left
<1>7. ASSUME NEW v \in Left PROVE ~Precede(v, NextWrite)
  BY <1>1, <1>6 DEF Precede
<1> QED BY <1>6, <1>7 DEF Left

LEMMA PendingStarts == PendingInit => PendingInv
<1> SUFFICES ASSUME PendingInit PROVE PendingInv
  OBVIOUS
<1>1. ChainOK
  BY ChainsOK DEF PendingInit
<1>2. log = <<>> /\ done = {} /\ nextBlock = 0 /\ pending = {}
  BY DEF PendingInit
<1>3. LogHasTheDone
  BY <1>1, <1>2, PlaceFacts DEF LogHasTheDone
<1> QED BY <1>1, <1>2, <1>3 DEF PendingInv, PendingTypes, BeginningIsDone, LogInOrder

\* Whatever leaves the log and the block alone, and forgets what is done or keeps it.
LEMMA LogStays ==
  ASSUME PendingInv, chain' = chain, nextBlock' = nextBlock, log' = log,
         done' = done \/ done' = {}, pending' \subseteq DOMAIN chain
  PROVE  PendingInv'
<1>1. ValidPlaces' = ValidPlaces /\ (\A p : TxAt(p)' = TxAt(p) /\ InLog(p)' = InLog(p))
      /\ (\A b : WritesOf(b)' = WritesOf(b))
  BY DEF ValidPlaces, TxPlaces, Places, TxAt, InLog, WritesOf
<1>2. PendingTypes'
  BY <1>1 DEF PendingInv, PendingTypes, ChainOK
<1>3. BeginningIsDone'
  BY <1>1 DEF PendingInv, BeginningIsDone, WritesOf, InLog, TxOf, Precede
<1>4. LogInOrder'
  BY <1>1 DEF PendingInv, LogInOrder
<1>5. LogHasTheDone'
  BY <1>1 DEF PendingInv, LogHasTheDone
<1> QED BY <1>2, <1>3, <1>4, <1>5 DEF PendingInv

LEMMA ProcessWriteKeeps == ASSUME PendingInv, ProcessWrite PROVE PendingInv'
<1> DEFINE P == {p \in ValidPlaces : TxAt(p).writes # <<>>}
<1>1. /\ nextBlock \in pending /\ done # WritesOf(nextBlock) /\ log' = log \o LogLines(NextWrite)
      /\ done' = done \cup {NextWrite} /\ chain' = chain /\ nextBlock' = nextBlock
      /\ pending' = pending
  BY DEF ProcessWrite, PendingNow
<1>2. /\ ChainOK /\ nextBlock \in DOMAIN chain /\ done \subseteq WritesOf(nextBlock)
      /\ nextBlock \in Nat /\ log \in Seq(P) /\ Len(log) \in Nat
  BY <1>1 DEF PendingInv, PendingTypes, BeginningIsDone
<1>3. PICK w : w = NextWrite
  OBVIOUS
<1>4. /\ w \in WritesOf(nextBlock) /\ w \notin done
      /\ \A v \in WritesOf(nextBlock) : Precede(v, w) => v \in done
  BY <1>1, <1>2, <1>3, NextWriteFacts
<1>5. PICK p : p = TxOf(w)
  OBVIOUS
<1>6. /\ w.block = nextBlock /\ w.index \in Nat /\ w.write \in Nat \ {0}
      /\ p \in P /\ p.block = nextBlock /\ p.index = w.index
  BY <1>2, <1>4, <1>5, WriteFacts DEF TxOf
<1>7. ValidPlaces' = ValidPlaces /\ (\A q : TxAt(q)' = TxAt(q)) /\ (\A b : WritesOf(b)' = WritesOf(b))
  BY <1>1 DEF ValidPlaces, TxPlaces, Places, TxAt, WritesOf
<1>8. \A v \in done : InLog(TxOf(v))
  BY DEF PendingInv, BeginningIsDone
\* The transactions before this one are in the log.
<1>9. ASSUME NEW q \in P, q.block = nextBlock,
             q.index < w.index \/ (q.index = w.index /\ w.write # 1)
      PROVE  \E x \in DOMAIN log : log[x] = q
  <2>1. FirstWriteAt(q) \in WritesOf(nextBlock)
    BY <1>2, <1>9, WriteFacts
  <2>2. Precede(FirstWriteAt(q), w)
    BY <1>6, <1>9 DEF Precede, FirstWriteAt
  <2>3. InLog(TxOf(FirstWriteAt(q)))
    BY <1>4, <1>8, <2>1, <2>2
  <2>4. q = [block |-> q.block, index |-> q.index]
    BY <1>2, PlaceFacts
  <2>5. TxOf(FirstWriteAt(q)) = q
    BY <2>4 DEF TxOf, FirstWriteAt
  <2> QED BY <2>3, <2>5 DEF InLog
<1>10. /\ \A x \in DOMAIN log : log[x] \in P /\ log[x].block <= nextBlock
       /\ \A q \in P : q.block \in Nat /\ q.index \in Nat
  <2>1. \A q \in P : q.block \in Nat /\ q.index \in Nat
    BY <1>2, PlaceFacts
  <2>2. \A x \in DOMAIN log : log[x] \in P
    <3> HIDE DEF P
    <3> QED BY <1>2
  <2> QED BY <2>1, <2>2 DEF PendingInv, LogInOrder
<1>11. /\ log' \in Seq(P)
       /\ \A x \in DOMAIN log : x \in DOMAIN log' /\ log'[x] = log[x]
       /\ \A x \in DOMAIN log' : \/ x \in DOMAIN log
                                 \/ x = Len(log) + 1 /\ w.write = 1 /\ log'[x] = p
       /\ p.index = w.index /\ w.write = 1 => \E x \in DOMAIN log' : log'[x] = p
  <2>1. CASE w.write = 1
    <3>1. log' = log \o <<p>>
      BY <1>1, <1>3, <1>5, <2>1 DEF LogLines, TxOf
    <3> HIDE DEF P
    <3>2. /\ log' \in Seq(P) /\ Len(log') = Len(log) + 1
          /\ \A x \in 1..Len(log) : log'[x] = log[x]
          /\ log'[Len(log) + 1] = p
      BY <1>2, <1>6, <3>1
    <3>3. DOMAIN log' = 1..(Len(log) + 1) /\ DOMAIN log = 1..Len(log)
      BY <1>2, <3>2
    <3> QED BY <1>2, <2>1, <3>2, <3>3
  <2>2. CASE w.write # 1
    <3> HIDE DEF P
    <3>1. log' = log
      BY <1>1, <1>2, <1>3, <2>2 DEF LogLines
    <3> QED BY <1>2, <2>2, <3>1
  <2> QED BY <2>1, <2>2
<1>12. PendingTypes'
  <2>1. {q \in ValidPlaces : TxAt(q).writes # <<>>}' = P
    BY <1>7
  <2> HIDE DEF P
  <2> QED BY <1>1, <1>11, <2>1 DEF PendingInv, PendingTypes, ChainOK
<1> HIDE DEF P
<1>13. BeginningIsDone'
  <2>1. \E x \in DOMAIN log' : log'[x] = p
    <3>1. CASE w.write = 1
      BY <1>6, <1>11, <3>1
    <3>2. CASE w.write # 1
      BY <1>6, <1>9, <1>11, <3>2
    <3> QED BY <3>1, <3>2
  <2>2. ASSUME NEW v \in done' PROVE \E x \in DOMAIN log' : log'[x] = TxOf(v)
    BY <1>1, <1>3, <1>5, <1>8, <1>11, <2>1, <2>2 DEF InLog
  <2>3. done' \subseteq WritesOf(nextBlock)
    BY <1>1, <1>2, <1>3, <1>4
  <2>4. \A v \in done' : \A u \in WritesOf(nextBlock) : Precede(u, v) => u \in done'
    BY <1>1, <1>3, <1>4 DEF PendingInv, BeginningIsDone
  <2>5. WritesOf(nextBlock)' = WritesOf(nextBlock)
    BY <1>1 DEF WritesOf
  <2>6. (\A v \in done : InLog(TxOf(v)))'
    BY <2>2 DEF InLog, TxOf
  <2>7. (\A v \in done : \A u \in WritesOf(nextBlock) : Precede(u, v) => u \in done)'
    BY <2>4, <2>5 DEF Precede
  <2> QED BY <1>1, <1>2, <2>3, <2>5, <2>6, <2>7 DEF BeginningIsDone
<1>14. LogInOrder'
  <2>1. \A x \in DOMAIN log' : log'[x].block <= nextBlock
    BY <1>2, <1>6, <1>10, <1>11
  <2>2. ASSUME NEW x \in DOMAIN log', NEW y \in DOMAIN log', x < y
        PROVE  log'[x].block <= log'[y].block
    <3>0. DOMAIN log = 1..Len(log) /\ x \in Nat /\ y \in Nat
      BY <1>2, <1>11
    <3>1. CASE y \in DOMAIN log
      <4>1. x \in DOMAIN log
        BY <1>2, <1>11, <2>2, <3>0, <3>1
      <4> QED BY <1>11, <2>2, <3>1, <4>1 DEF PendingInv, LogInOrder
    <3>2. CASE y \notin DOMAIN log
      BY <1>6, <1>11, <2>1, <3>2
    <3> QED BY <3>1, <3>2
  <2>3. ASSUME NEW x \in DOMAIN log', NEW q \in P, q.block = log'[x].block, q.index < log'[x].index
        PROVE  \E m \in 1..(x - 1) : log'[m] = q
    <3>0. DOMAIN log = 1..Len(log)
      BY <1>2
    <3>1. CASE x \in DOMAIN log
      <4>1. \E m \in 1..(x - 1) : log[m] = q
        BY <1>11, <2>3, <3>1 DEF PendingInv, LogInOrder, P
      <4> QED BY <1>2, <1>11, <3>0, <3>1, <4>1
    <3>2. CASE x = Len(log) + 1 /\ log'[x] = p
      <4>1. PICK m \in DOMAIN log : log[m] = q
        BY <1>6, <1>9, <2>3, <3>2
      <4>2. m \in 1..(x - 1) /\ log'[m] = q
        BY <1>2, <1>11, <3>0, <3>2, <4>1
      <4> QED BY <4>2
    <3> QED BY <1>11, <3>1, <3>2
  <2>4. (\A x \in DOMAIN log : \A q \in ValidPlaces :
            TxAt(q).writes # <<>> /\ q.block = log[x].block /\ q.index < log[x].index
              => \E m \in 1..(x - 1) : log[m] = q)'
    BY <1>7, <2>3 DEF P
  <2> QED BY <1>1, <2>1, <2>2, <2>4 DEF LogInOrder
<1>15. LogHasTheDone'
  <2>1. \A q \in ValidPlaces : q.block < nextBlock /\ TxAt(q).writes # <<>>
          => \E x \in DOMAIN log' : log'[x] = q
    BY <1>11 DEF PendingInv, LogHasTheDone, InLog
  <2> QED BY <1>1, <1>7, <2>1 DEF LogHasTheDone, InLog
<1> QED BY <1>12, <1>13, <1>14, <1>15 DEF PendingInv

LEMMA BlockDoneKeeps == ASSUME PendingInv, BlockDone PROVE PendingInv'
<1>1. /\ nextBlock \in pending /\ done = WritesOf(nextBlock) /\ done' = {} /\ chain' = chain
      /\ log' = log /\ nextBlock' = nextBlock + 1 /\ pending' = pending \ {nextBlock}
  BY DEF BlockDone, PendingNow
<1>2. ChainOK /\ nextBlock \in DOMAIN chain /\ nextBlock \in Nat
  BY <1>1 DEF PendingInv, PendingTypes
<1>3. ValidPlaces' = ValidPlaces /\ (\A q : TxAt(q)' = TxAt(q) /\ InLog(q)' = InLog(q))
  BY <1>1 DEF ValidPlaces, TxPlaces, Places, TxAt, InLog
<1>4. PendingTypes'
  BY <1>1, <1>2, <1>3 DEF PendingInv, PendingTypes, ChainOK
<1>5. BeginningIsDone'
  BY <1>1 DEF BeginningIsDone
<1>6. ASSUME NEW q \in ValidPlaces, q.block < nextBlock + 1, TxAt(q).writes # <<>>
      PROVE  InLog(q)
  <2>1. q = [block |-> q.block, index |-> q.index] /\ q.block \in Nat
    BY <1>2, PlaceFacts
  <2>2. CASE q.block = nextBlock
    <3>1. FirstWriteAt(q) \in done
      BY <1>1, <1>2, <1>6, <2>2, WriteFacts
    <3>2. TxOf(FirstWriteAt(q)) = q
      BY <2>1 DEF TxOf, FirstWriteAt
    <3> QED BY <3>1, <3>2 DEF PendingInv, BeginningIsDone
  <2>3. CASE q.block < nextBlock
    BY <1>6, <2>3 DEF PendingInv, LogHasTheDone
  <2> QED BY <1>2, <1>6, <2>1, <2>2, <2>3
<1>7. LogHasTheDone'
  BY <1>1, <1>3, <1>6 DEF LogHasTheDone, InLog
<1>8. LogInOrder'
  <2>1. \A x \in DOMAIN log : log[x].block \in Nat
    <3> DEFINE P == {p \in ValidPlaces : TxAt(p).writes # <<>>}
    <3>1. log \in Seq(P)
      BY DEF PendingInv, PendingTypes
    <3>2. \A x \in DOMAIN log : log[x] \in P
      <4> HIDE DEF P
      <4> QED BY <3>1
    <3> QED BY <1>2, <3>2, PlaceFacts
  <2>2. \A x \in DOMAIN log : log[x].block <= nextBlock + 1
    BY <1>2, <2>1 DEF PendingInv, LogInOrder
  <2> QED BY <1>1, <1>3, <2>2 DEF PendingInv, LogInOrder
<1> QED BY <1>4, <1>5, <1>7, <1>8 DEF PendingInv

LEMMA PendingStep == PendingInv /\ [PendingNext]_pendingVars => PendingInv'
<1> SUFFICES ASSUME PendingInv, [PendingNext]_pendingVars PROVE PendingInv'
  OBVIOUS
<1>1. CASE StartListener \/ AddPending \/ StopListener \/ Answered \/ UNCHANGED pendingVars
  BY <1>1, LogStays DEF StartListener, AddPending, StopListener, Answered, pendingVars,
     PendingInv, PendingTypes
<1> QED BY <1>1, ProcessWriteKeeps, BlockDoneKeeps DEF PendingNext, PendingSteps

LEMMA PendingFollows == PendingInv => LogFollowsLedger
<1> SUFFICES ASSUME PendingInv PROVE LogFollowsLedger
  OBVIOUS
<1> DEFINE P == {p \in ValidPlaces : TxAt(p).writes # <<>>}
<1>1. \A x \in DOMAIN log : log[x] \in P
  <2>1. log \in Seq(P)
    BY DEF PendingInv, PendingTypes
  <2> HIDE DEF P
  <2> QED BY <2>1
<1>2. \A p \in ValidPlaces : p.block \in Nat
  BY PlaceFacts DEF PendingInv, PendingTypes
<1>3. \A p \in ValidPlaces : p.block < nextBlock /\ TxAt(p).writes # <<>> => Logged(p) # {}
  BY DEF PendingInv, LogHasTheDone, InLog, Logged
<1>4. ASSUME NEW x \in DOMAIN log, NEW y \in DOMAIN log, x < y
      PROVE  /\ log[x].block <= log[y].block
             /\ Before(log[y], log[x]) => \E m \in 1..(x - 1) : log[m] = log[y]
  <2>1. log[x].block <= log[y].block
    BY <1>4 DEF PendingInv, LogInOrder
  <2>2. ASSUME Before(log[y], log[x]) PROVE \E m \in 1..(x - 1) : log[m] = log[y]
    <3>1. log[y].block = log[x].block /\ log[y].index < log[x].index
      BY <1>1, <1>2, <2>1, <2>2 DEF Before
    <3> QED BY <1>1, <3>1 DEF PendingInv, LogInOrder
  <2> QED BY <2>1, <2>2
<1> QED BY <1>3, <1>4 DEF LogFollowsLedger

\* The log of the legacy listener misses no writing transaction of a block that
\* nextblock.txt counts as done, and repeats only the beginning of a block under way
\* when the process died (blockProcessing.js:85-127), for any chain and any number of
\* restarts.
THEOREM LegacyLogMissesNothing == PendingSpec => []LogFollowsLedger
  BY PendingStarts, PendingStep, PendingFollows, PTL DEF PendingSpec


-----------------------------------------------------------------------------
(* The operator's price of the hour, for any hours, table, latency and faults. *)

\* The simulation ends before the table of two days does, and the price the ledger
\* starts with ranks before those of the table (simulation.go:39-43 starts at six and
\* ends a day later).
TableReaches ==
  /\ PlaceAt(EndTime + 1) < 2 * HoursPerDay
  /\ InitPrice <= PriceList(0, StartHour)

\* A punctual operator has done its first update before the first full hour.
UpdatesFit == Latency # 0 /\ 2 * Latency <= FirstFullHour

\* The place of the next update in the price list.
NextPrice(s) == PriceList(s.day, s.hour)

Locals ==
  [pc : {"begin", "update", "updating", "wait", "done"}, day : 0..1,
   hour : 0..(HoursPerDay - 1), ts : Nat, due : Nat, fires : 0..2]

Working(s) == s.pc \in {"begin", "update", "updating"}

\* An update is about an hour that has begun when its timer fired; a timer fires when
\* the hour of the next update has.
ClockOK(s, t) ==
  /\ s.ts <= t
  /\ s.pc = "begin" => s.ts = 0 /\ s.fires = 0
  /\ Working(s) => NextPrice(s) <= PlaceAt(s.ts)
  /\ s.fires = 0 /\ Working(s) => NextPrice(s) = StartHour + 1
  /\ s.fires = 0 /\ ~Working(s) => s.due = FirstFullHour /\ NextPrice(s) = StartHour + 2
  /\ s.fires = 1 /\ Working(s) => NextPrice(s) = StartHour + 2
  /\ s.fires = 2 /\ Working(s) => NextPrice(s) < PlaceAt(s.due)
  /\ s.pc = "wait" => NextPrice(s) <= PlaceAt(s.due)

\* While nothing has been late: where a goroutine is, and how far the ticker is
\* behind the hours.
PromptOK(s, t) ==
  /\ Working(s) => t <= s.ts + Latency
  /\ s.fires = 0 /\ Working(s) => s.ts <= Latency
  /\ s.fires = 1 /\ Working(s) => s.ts = FirstFullHour
  /\ s.fires = 2 /\ Working(s) =>
       s.due = s.ts + HourLen /\ s.ts > Latency /\ PlaceAt(s.ts - Latency - 1) < NextPrice(s)
  /\ s.pc = "wait" => t <= s.due
  /\ s.pc = "done" => EndTime <= s.due
  /\ s.fires # 0 /\ ~Working(s) => s.due > Latency /\ PlaceAt(s.due - Latency - 1) < NextPrice(s)

\* The hours of the clock.
LEMMA PlaceAtFacts ==
  /\ \A t \in Nat : PlaceAt(t) \in Nat /\ PlaceAt(t) >= StartHour + 1
                    /\ PlaceAt(t + HourLen) = PlaceAt(t) + 1
  /\ \A t, u \in Nat : t <= u => PlaceAt(t) <= PlaceAt(u)
  /\ FirstFullHour \in Nat /\ FirstFullHour <= HourLen
  /\ \A t \in Nat : t < FirstFullHour => PlaceAt(t) = StartHour + 1
  /\ PlaceAt(FirstFullHour) = StartHour + 2
<1>1. /\ HourLen \in Nat \ {0} /\ HoursPerDay \in Nat \ {0}
      /\ StartHour \in 0..(HoursPerDay - 1) /\ StartPast \in 0..(HourLen - 1)
  BY OperatorAssumption
<1> DEFINE D(t) == (StartPast + t) \div HourLen
<1>2. ASSUME NEW t \in Nat
      PROVE  D(t) \in Nat /\ HourLen * D(t) <= StartPast + t /\ StartPast + t < HourLen * D(t) + HourLen
  BY <1>1
<1>3. ASSUME NEW t \in Nat, NEW q \in Nat, HourLen * q <= StartPast + t, StartPast + t < HourLen * q + HourLen
      PROVE  D(t) = q
  BY <1>1, <1>3
<1>4. ASSUME NEW t \in Nat PROVE PlaceAt(t) = D(t) + StartHour + 1
  BY <1>1, <1>2 DEF PlaceAt, PriceList
<1> HIDE DEF D
<1>5. ASSUME NEW t \in Nat PROVE D(t + HourLen) = D(t) + 1
  <2>1. HourLen * (D(t) + 1) = HourLen * D(t) + HourLen
    BY <1>1, <1>2
  <2> QED BY <1>1, <1>2, <1>3, <2>1
<1>6. ASSUME NEW t \in Nat, NEW u \in Nat, t <= u PROVE D(t) <= D(u)
  <2> SUFFICES ASSUME D(u) < D(t) PROVE FALSE
    BY <1>2
  <2>1. D(u) + 1 <= D(t)
    BY <1>2
  <2>2. HourLen * (D(u) + 1) <= HourLen * D(t)
    <3>1. \A h, x, z \in Nat : h * x <= h * (x + z)
      <4>1. \A h, x, z \in Nat : h * (x + z) = h * x + h * z /\ h * x \in Nat /\ h * z \in Nat
        OBVIOUS
      <4> QED BY <4>1
    <3>2. D(t) = (D(u) + 1) + (D(t) - (D(u) + 1)) /\ D(t) - (D(u) + 1) \in Nat /\ D(u) + 1 \in Nat
      BY <1>2, <2>1
    <3> QED BY <1>1, <3>1, <3>2
  <2>3. HourLen * (D(u) + 1) = HourLen * D(u) + HourLen
    BY <1>1, <1>2
  <2> DEFINE a == HourLen * D(u)
             b == HourLen * D(t)
  <2>4. a + HourLen <= b /\ b <= StartPast + t /\ StartPast + u < a + HourLen /\ a \in Nat /\ b \in Nat
    BY <1>1, <1>2, <2>2, <2>3
  <2> HIDE DEF a, b
  <2> QED BY <1>1, <1>6, <2>4
<1>7. FirstFullHour \in Nat /\ FirstFullHour <= HourLen /\ StartPast + FirstFullHour = HourLen
  BY <1>1 DEF FirstFullHour
<1>8. ASSUME NEW t \in Nat, t < FirstFullHour PROVE D(t) = 0
  <2>1. HourLen * 0 = 0 /\ StartPast + t < HourLen
    BY <1>1, <1>7, <1>8
  <2> QED BY <1>1, <1>3, <2>1
<1>9. D(FirstFullHour) = 1
  <2>1. HourLen * 1 = HourLen /\ HourLen < HourLen + HourLen
    BY <1>1
  <2> QED BY <1>1, <1>3, <1>7, <2>1
<1>10. ASSUME NEW t \in Nat
       PROVE  PlaceAt(t) \in Nat /\ PlaceAt(t) >= StartHour + 1 /\ PlaceAt(t + HourLen) = PlaceAt(t) + 1
  <2>1. t + HourLen \in Nat
    BY <1>1
  <2> QED BY <1>1, <1>2, <1>4, <1>5, <2>1
<1>11. \A t, u \in Nat : t <= u => PlaceAt(t) <= PlaceAt(u)
  BY <1>1, <1>2, <1>4, <1>6
<1>12. \A t \in Nat : t < FirstFullHour => PlaceAt(t) = StartHour + 1
  BY <1>1, <1>4, <1>8
<1>13. PlaceAt(FirstFullHour) = StartHour + 2
  BY <1>1, <1>4, <1>7, <1>9
<1> QED BY <1>7, <1>10, <1>11, <1>12, <1>13

\* What Updated, Fire and the other steps make of the locals at time t.
AfterUpdate(s, t) ==
  [NextHour(s) EXCEPT
     !.pc = "wait",
     !.due = IF s.fires = 0 THEN FirstFullHour
             ELSE IF s.fires = 1 THEN t + HourLen ELSE @]

AfterFire(s, t) ==
  [s EXCEPT
     !.pc = "update", !.ts = t, !.fires = Min({@ + 1, 2}),
     !.due = IF s.fires = 0 THEN 0
             ELSE @ + HourLen * (((t - s.due) \div HourLen) + 1)]

OtherStep(s, t, r) ==
  \/ s.pc = "begin" /\ r = [s EXCEPT !.pc = "update", !.ts = t]
  \/ s.pc = "update" /\ r = [s EXCEPT !.pc = "updating"]
  \/ s.pc = "updating" /\ r = [s EXCEPT !.pc = "update"]
  \/ s.pc = "wait" /\ t >= EndTime /\ r = [s EXCEPT !.pc = "done"]

\* An update is done: the next one is about the next hour.
LEMMA UpdatedLocals ==
  ASSUME TableReaches, NEW t \in 0..(EndTime + 1), NEW s \in Locals, s.pc = "updating",
         ClockOK(s, t), NEW r, r = AfterUpdate(s, t)
  PROVE  /\ r \in Locals /\ r.pc = "wait" /\ r.fires = s.fires /\ ClockOK(r, t)
         /\ NextPrice(r) = NextPrice(s) + 1
         /\ UpdatesFit /\ PromptOK(s, t) => PromptOK(r, t)
<1>1. /\ HourLen \in Nat \ {0} /\ HoursPerDay \in Nat \ {0} /\ StartHour \in Nat /\ Latency \in Nat
      /\ EndTime \in Nat
  BY OperatorAssumption, GatewayAssumption
<1>2. /\ s.day \in 0..1 /\ s.hour \in 0..(HoursPerDay - 1) /\ s.ts \in Nat /\ s.due \in Nat
      /\ s.fires \in 0..2 /\ t \in Nat
  BY <1>1 DEF Locals
<1>3. Working(s) /\ s.ts <= t /\ NextPrice(s) <= PlaceAt(s.ts)
  BY DEF Working, ClockOK
<1>4. NextPrice(s) < 2 * HoursPerDay /\ NextPrice(s) \in Nat
  <2>1. PlaceAt(s.ts) <= PlaceAt(EndTime + 1) /\ PlaceAt(s.ts) \in Nat /\ PlaceAt(EndTime + 1) \in Nat
    <3>1. s.ts \in Nat /\ EndTime + 1 \in Nat /\ s.ts <= EndTime + 1
      BY <1>1, <1>2, <1>3
    <3> QED BY <3>1, PlaceAtFacts
  <2>2. NextPrice(s) \in Nat
    BY <1>1, <1>2 DEF NextPrice, PriceList
  <2> QED BY <1>1, <1>3, <2>1, <2>2 DEF TableReaches
<1>5. ~(s.day = 1 /\ s.hour = HoursPerDay - 1)
  BY <1>1, <1>4 DEF NextPrice, PriceList
<1> DEFINE h == NextHour(s)
<1>6. /\ h \in Locals /\ h.ts = s.ts /\ h.due = s.due /\ h.fires = s.fires
      /\ \/ h.day = s.day /\ h.hour = s.hour + 1
         \/ s.day = 0 /\ s.hour = HoursPerDay - 1 /\ h.day = 1 /\ h.hour = 0
  <2>1. CASE s.hour > HoursPerDay - 2
    <3>1. h = [s EXCEPT !.day = 1, !.hour = 0]
      BY <2>1 DEF NextHour
    <3>2. s.hour = HoursPerDay - 1 /\ s.day = 0
      BY <1>1, <1>2, <1>5, <2>1
    <3>3. 1 \in 0..1 /\ 0 \in 0..(HoursPerDay - 1)
      BY <1>1
    <3> HIDE DEF h
    <3> QED BY <3>1, <3>2, <3>3 DEF Locals
  <2>2. CASE ~(s.hour > HoursPerDay - 2)
    <3>1. h = [s EXCEPT !.hour = s.hour + 1]
      BY <2>2 DEF NextHour
    <3>2. s.hour + 1 \in 0..(HoursPerDay - 1)
      BY <1>1, <1>2, <2>2
    <3> HIDE DEF h
    <3> QED BY <3>1, <3>2 DEF Locals
  <2> QED BY <2>1, <2>2
<1>7. FirstFullHour \in Nat /\ t + HourLen \in Nat
  BY <1>1, <1>2, PlaceAtFacts
<1> HIDE DEF h
<1>8. /\ r \in Locals /\ r.pc = "wait" /\ r.ts = s.ts /\ r.fires = s.fires
      /\ r.day = h.day /\ r.hour = h.hour
      /\ s.fires = 0 => r.due = FirstFullHour
      /\ s.fires = 1 => r.due = t + HourLen
      /\ s.fires = 2 => r.due = s.due
  <2>1. r = [h EXCEPT !.pc = "wait",
                      !.due = IF s.fires = 0 THEN FirstFullHour
                              ELSE IF s.fires = 1 THEN t + HourLen ELSE @]
    BY DEF h, AfterUpdate
  <2> DEFINE d == IF s.fires = 0 THEN FirstFullHour
                  ELSE IF s.fires = 1 THEN t + HourLen ELSE s.due
  <2>2. d \in Nat
    BY <1>2, <1>7
  <2>3. /\ s.fires = 0 => d = FirstFullHour
        /\ s.fires = 1 => d = t + HourLen
        /\ s.fires = 2 => d = s.due
    OBVIOUS
  <2>4. r = [h EXCEPT !.pc = "wait", !.due = d]
    BY <1>6, <2>1
  <2> HIDE DEF d
  <2>5. /\ r \in Locals /\ r.pc = "wait" /\ r.ts = h.ts /\ r.fires = h.fires
        /\ r.day = h.day /\ r.hour = h.hour /\ r.due = d
    BY <1>6, <2>2, <2>4 DEF Locals
  <2> QED BY <1>6, <2>3, <2>5
<1>9. NextPrice(r) = NextPrice(s) + 1
  <2>1. CASE h.day = s.day /\ h.hour = s.hour + 1
    <3>1. s.day * HoursPerDay \in Nat
      BY <1>1, <1>2
    <3> QED BY <1>2, <1>8, <2>1, <3>1 DEF NextPrice, PriceList
  <2>2. CASE s.day = 0 /\ s.hour = HoursPerDay - 1 /\ h.day = 1 /\ h.hour = 0
    BY <1>1, <1>8, <2>2 DEF NextPrice, PriceList
  <2> QED BY <1>6, <2>1, <2>2
<1>10. ~Working(r) /\ r.due \in Nat /\ r.pc # "begin" /\ r.pc # "done"
  BY <1>8 DEF Working, Locals
<1>11. NextPrice(r) <= PlaceAt(r.due)
  <2>1. CASE s.fires = 0
    <3>1. NextPrice(s) = StartHour + 1
      BY <1>3, <2>1 DEF ClockOK
    <3>2. PlaceAt(FirstFullHour) = StartHour + 2
      BY PlaceAtFacts
    <3> QED BY <1>1, <1>8, <1>9, <2>1, <3>1, <3>2
  <2>2. CASE s.fires = 1
    <3>1. PlaceAt(s.ts) <= PlaceAt(t) /\ PlaceAt(t + HourLen) = PlaceAt(t) + 1
          /\ PlaceAt(s.ts) \in Nat /\ PlaceAt(t) \in Nat
      BY <1>2, <1>3, PlaceAtFacts
    <3> QED BY <1>3, <1>4, <1>8, <1>9, <2>2, <3>1
  <2>3. CASE s.fires = 2
    <3>1. NextPrice(s) < PlaceAt(s.due) /\ PlaceAt(s.due) \in Nat
      BY <1>2, <1>3, <2>3, PlaceAtFacts DEF ClockOK
    <3> QED BY <1>4, <1>8, <1>9, <2>3, <3>1
  <2> QED BY <1>2, <2>1, <2>2, <2>3
<1>12. ClockOK(r, t)
  BY <1>1, <1>2, <1>3, <1>8, <1>9, <1>10, <1>11 DEF ClockOK
<1>13. ASSUME UpdatesFit, PromptOK(s, t) PROVE PromptOK(r, t)
  <2>1. /\ Latency # 0 /\ Latency + Latency <= FirstFullHour /\ t <= s.ts + Latency
        /\ FirstFullHour <= HourLen /\ FirstFullHour \in Nat
    BY <1>1, <1>3, <1>13, PlaceAtFacts DEF UpdatesFit, PromptOK
  <2>2. t <= r.due
    <3>1. CASE s.fires = 0
      BY <1>1, <1>2, <1>3, <1>8, <1>13, <2>1, <3>1 DEF PromptOK
    <3>2. CASE s.fires = 1
      BY <1>1, <1>2, <1>8, <3>2
    <3>3. CASE s.fires = 2
      BY <1>1, <1>2, <1>3, <1>8, <1>13, <2>1, <3>3 DEF PromptOK
    <3> QED BY <1>2, <3>1, <3>2, <3>3
  <2>3. ASSUME s.fires = 1 PROVE r.due > Latency /\ PlaceAt(r.due - Latency - 1) < NextPrice(r)
    <3>1. t <= FirstFullHour + Latency /\ r.due = t + HourLen /\ NextPrice(s) = StartHour + 2
          /\ s.ts = FirstFullHour
      BY <1>3, <1>8, <1>13, <2>1, <2>3 DEF PromptOK, ClockOK
    <3> DEFINE u == t - Latency - 1
               last == FirstFullHour - 1
    <3>2. r.due > Latency /\ u \in Nat /\ last \in Nat /\ u <= last /\ last < FirstFullHour
          /\ r.due - Latency - 1 = u + HourLen
      BY <1>1, <1>2, <1>3, <2>1, <3>1
    <3> HIDE DEF u, last
    <3>3. PlaceAt(u + HourLen) = PlaceAt(u) + 1 /\ PlaceAt(u) = StartHour + 1
      <4>1. u < FirstFullHour
        BY <2>1, <3>2
      <4> QED BY <3>2, <4>1, PlaceAtFacts
    <3> QED BY <1>1, <1>9, <3>1, <3>2, <3>3
  <2>4. ASSUME s.fires = 2 PROVE r.due > Latency /\ PlaceAt(r.due - Latency - 1) < NextPrice(r)
    <3>1. s.due = s.ts + HourLen /\ s.ts > Latency /\ PlaceAt(s.ts - Latency - 1) < NextPrice(s)
      BY <1>3, <1>13, <2>4 DEF PromptOK
    <3> DEFINE u == s.ts - Latency - 1
    <3>2. u \in Nat /\ r.due - Latency - 1 = u + HourLen /\ r.due > Latency
      BY <1>1, <1>2, <1>8, <2>4, <3>1
    <3>3. PlaceAt(u) < NextPrice(s)
      BY <3>1
    <3> HIDE DEF u
    <3>4. PlaceAt(u + HourLen) = PlaceAt(u) + 1 /\ PlaceAt(u) \in Nat
      BY <3>2, PlaceAtFacts
    <3> QED BY <1>4, <1>9, <3>2, <3>3, <3>4
  <2> QED BY <1>2, <1>8, <1>10, <2>2, <2>3, <2>4 DEF PromptOK
<1> QED BY <1>8, <1>9, <1>12, <1>13

\* A timer or the ticker fires.
LEMMA FireLocals ==
  ASSUME NEW t \in 0..(EndTime + 1), NEW s \in Locals, s.pc = "wait", s.due <= t,
         ClockOK(s, t), NEW r, r = AfterFire(s, t)
  PROVE  /\ r \in Locals /\ r.pc = "update" /\ r.fires # 0 /\ ClockOK(r, t)
         /\ NextPrice(r) = NextPrice(s)
         /\ UpdatesFit /\ PromptOK(s, t) => PromptOK(r, t)
<1>1. /\ HourLen \in Nat \ {0} /\ HoursPerDay \in Nat \ {0} /\ StartHour \in Nat /\ Latency \in Nat
      /\ EndTime \in Nat
  BY OperatorAssumption, GatewayAssumption
<1>2. /\ s.day \in 0..1 /\ s.hour \in 0..(HoursPerDay - 1) /\ s.ts \in Nat /\ s.due \in Nat
      /\ s.fires \in 0..2 /\ t \in Nat /\ ~Working(s) /\ NextPrice(s) \in Nat
  BY <1>1 DEF Locals, Working, NextPrice, PriceList
<1> DEFINE m == (t - s.due) \div HourLen
           g == HourLen * (m + 1)
<1>3. m \in Nat /\ g \in Nat /\ g >= HourLen /\ (s.due = t => g = HourLen)
  <2>1. t - s.due \in Nat
    BY <1>2
  <2>2. m \in Nat
    BY <1>1, <2>1
  <2>3. HourLen * (m + 1) = HourLen * m + HourLen /\ HourLen * m \in Nat
    BY <1>1, <2>2
  <2>4. ASSUME s.due = t PROVE m = 0
    BY <1>1, <1>2, <2>4
  <2> QED BY <1>1, <2>2, <2>3, <2>4
<1>4. Min({s.fires + 1, 2}) = IF s.fires = 0 THEN 1 ELSE 2
  <2>1. Min({1, 2}) = 1 /\ Min({2, 2}) = 2 /\ Min({3, 2}) = 2
    BY DEF Min
  <2>2. CASE s.fires = 0
    BY <2>1, <2>2
  <2>3. CASE s.fires = 1
    BY <2>1, <2>3
  <2>4. CASE s.fires = 2
    BY <2>1, <2>4
  <2> QED BY <1>2, <2>2, <2>3, <2>4
<1> HIDE DEF g
<1>5. /\ r \in Locals /\ r.pc = "update" /\ r.ts = t /\ r.day = s.day /\ r.hour = s.hour
      /\ s.fires = 0 => r.fires = 1
      /\ s.fires # 0 => r.fires = 2 /\ r.due = s.due + g
  <2>1. r = [s EXCEPT !.pc = "update", !.ts = t, !.fires = IF s.fires = 0 THEN 1 ELSE 2,
                      !.due = IF s.fires = 0 THEN 0 ELSE @ + g]
    BY <1>4 DEF g, AfterFire
  <2> DEFINE d == IF s.fires = 0 THEN 0 ELSE s.due + g
             f == IF s.fires = 0 THEN 1 ELSE 2
  <2>2. d \in Nat /\ f \in 0..2 /\ (s.fires = 0 => f = 1) /\ (s.fires # 0 => f = 2 /\ d = s.due + g)
    BY <1>2, <1>3
  <2>3. r = [s EXCEPT !.pc = "update", !.ts = t, !.fires = f, !.due = d]
    BY <2>1
  <2> HIDE DEF d, f
  <2>4. /\ r \in Locals /\ r.pc = "update" /\ r.ts = t /\ r.day = s.day /\ r.hour = s.hour
        /\ r.fires = f /\ r.due = d
    BY <1>2, <2>2, <2>3 DEF Locals
  <2> QED BY <2>2, <2>4
<1>6. NextPrice(r) = NextPrice(s) /\ Working(r)
  BY <1>5 DEF NextPrice, Working
<1>7. NextPrice(s) <= PlaceAt(t)
  <2>1. PlaceAt(s.due) <= PlaceAt(t) /\ PlaceAt(s.due) \in Nat /\ PlaceAt(t) \in Nat
    BY <1>2, PlaceAtFacts
  <2> QED BY <1>2, <2>1 DEF ClockOK
<1>8. ASSUME s.fires # 0 PROVE NextPrice(r) < PlaceAt(r.due)
  <2>1. s.due + HourLen \in Nat /\ r.due \in Nat /\ s.due + HourLen <= r.due
    BY <1>1, <1>2, <1>3, <1>5, <1>8
  <2>2. PlaceAt(s.due + HourLen) <= PlaceAt(r.due) /\ PlaceAt(r.due) \in Nat
    BY <2>1, PlaceAtFacts
  <2>3. PlaceAt(s.due + HourLen) = PlaceAt(s.due) + 1 /\ PlaceAt(s.due) \in Nat
    BY <1>2, PlaceAtFacts
  <2>4. NextPrice(s) <= PlaceAt(s.due)
    BY DEF ClockOK
  <2> QED BY <1>2, <1>6, <2>2, <2>3, <2>4
<1>9. ClockOK(r, t)
  <2>1. s.fires = 0 => NextPrice(s) = StartHour + 2
    BY <1>2 DEF ClockOK
  <2> QED BY <1>2, <1>5, <1>6, <1>7, <1>8, <2>1 DEF ClockOK
<1>10. ASSUME UpdatesFit, PromptOK(s, t) PROVE PromptOK(r, t)
  <2>1. t = s.due
    BY <1>2, <1>10 DEF PromptOK
  <2>2. s.fires = 0 => r.ts = FirstFullHour
    BY <1>2, <1>5, <2>1 DEF ClockOK
  <2>3. s.fires # 0 => r.due = r.ts + HourLen /\ r.ts > Latency /\ PlaceAt(r.ts - Latency - 1) < NextPrice(r)
    BY <1>2, <1>3, <1>5, <1>6, <1>10, <2>1 DEF PromptOK
  <2>4. t <= r.ts + Latency
    BY <1>1, <1>2, <1>5
  <2> QED BY <1>2, <1>5, <1>6, <2>2, <2>3, <2>4 DEF PromptOK
<1> QED BY <1>5, <1>6, <1>9, <1>10

\* The other steps of a goroutine.
LEMMA OtherLocals ==
  ASSUME NEW t \in 0..(EndTime + 1), NEW s \in Locals, ClockOK(s, t), NEW r, OtherStep(s, t, r)
  PROVE  /\ r \in Locals /\ ClockOK(r, t) /\ NextPrice(r) = NextPrice(s) /\ r.fires = s.fires
         /\ PromptOK(s, t) => PromptOK(r, t)
         /\ Working(r) <=> Working(s)
<1>1. /\ HourLen \in Nat \ {0} /\ HoursPerDay \in Nat \ {0} /\ StartHour \in Nat /\ Latency \in Nat
      /\ EndTime \in Nat
  BY OperatorAssumption, GatewayAssumption
<1>2. /\ s.ts \in Nat /\ s.due \in Nat /\ s.fires \in 0..2 /\ t \in Nat /\ NextPrice(s) \in Nat
  BY <1>1 DEF Locals, NextPrice, PriceList
<1>3. CASE s.pc = "begin" /\ r = [s EXCEPT !.pc = "update", !.ts = t]
  <2>1. /\ r \in Locals /\ r.pc = "update" /\ r.ts = t /\ r.day = s.day /\ r.hour = s.hour
        /\ r.fires = s.fires /\ r.due = s.due
    BY <1>2, <1>3 DEF Locals
  <2>2. NextPrice(r) = NextPrice(s) /\ Working(r) /\ Working(s)
    BY <1>3, <2>1 DEF NextPrice, Working
  <2>3. s.ts = 0 /\ s.fires = 0 /\ NextPrice(s) = StartHour + 1
    BY <1>3, <2>2 DEF ClockOK
  <2>4. PlaceAt(t) >= StartHour + 1
    BY <1>2, PlaceAtFacts
  <2>5. ClockOK(r, t)
    BY <1>2, <2>1, <2>2, <2>3, <2>4 DEF ClockOK
  <2>6. PromptOK(s, t) => PromptOK(r, t)
    BY <1>1, <1>2, <2>1, <2>2, <2>3 DEF PromptOK
  <2> QED BY <2>1, <2>2, <2>5, <2>6
<1>4. ASSUME NEW q \in {"update", "updating", "done"}, r = [s EXCEPT !.pc = q]
      PROVE  /\ r \in Locals /\ r.pc = q /\ r.ts = s.ts /\ r.day = s.day /\ r.hour = s.hour
             /\ r.fires = s.fires /\ r.due = s.due /\ NextPrice(r) = NextPrice(s)
  <2>1. /\ r \in Locals /\ r.pc = q /\ r.ts = s.ts /\ r.day = s.day /\ r.hour = s.hour
        /\ r.fires = s.fires /\ r.due = s.due
    BY <1>4 DEF Locals
  <2> QED BY <2>1 DEF NextPrice
<1>5. CASE s.pc = "update" /\ r = [s EXCEPT !.pc = "updating"]
  BY <1>4, <1>5 DEF ClockOK, PromptOK, Working
<1>6. CASE s.pc = "updating" /\ r = [s EXCEPT !.pc = "update"]
  BY <1>4, <1>6 DEF ClockOK, PromptOK, Working
<1>7. CASE s.pc = "wait" /\ t >= EndTime /\ r = [s EXCEPT !.pc = "done"]
  <2>1. ClockOK(r, t) /\ (Working(r) <=> Working(s))
    BY <1>4, <1>7 DEF ClockOK, Working
  <2>2. PromptOK(s, t) => PromptOK(r, t)
    BY <1>1, <1>2, <1>4, <1>7 DEF PromptOK, Working
  <2> QED BY <1>4, <1>7, <2>1, <2>2
<1> QED BY <1>3, <1>5, <1>6, <1>7 DEF OtherStep

\* The clock goes on.
LEMMA TickLocals ==
  ASSUME NEW t \in Nat, NEW s \in Locals, ClockOK(s, t)
  PROVE  /\ ClockOK(s, t + 1)
         /\ /\ PromptOK(s, t)
            /\ Working(s) => t - s.ts < Latency
            /\ s.pc = "wait" => t < s.due
            => PromptOK(s, t + 1)
<1>1. s.ts \in Nat /\ s.due \in Nat /\ Latency \in Nat
  BY OperatorAssumption DEF Locals
<1>2. ClockOK(s, t + 1)
  BY <1>1 DEF ClockOK
<1>3. ASSUME PromptOK(s, t), Working(s) => t - s.ts < Latency, s.pc = "wait" => t < s.due
      PROVE  PromptOK(s, t + 1)
  BY <1>1, <1>3 DEF PromptOK
<1> QED BY <1>2, <1>3

\* What it means for the ledger that nothing has been late.
LEMMA PromptPrice ==
  ASSUME UpdatesFit, NEW t \in 0..(EndTime + 1), NEW s \in Locals, ClockOK(s, t), PromptOK(s, t),
         NEW p \in Nat, ~Working(s) \/ s.fires # 0 => NextPrice(s) <= p + 1, t > 2 * Latency
  PROVE  p >= PlaceAt(t - 2 * Latency - 1)
<1>1. /\ StartHour \in Nat /\ Latency \in Nat \ {0} /\ EndTime \in Nat /\ HourLen \in Nat
      /\ FirstFullHour \in Nat /\ 2 * Latency <= FirstFullHour
      /\ HoursPerDay \in Nat \ {0}
  BY OperatorAssumption, GatewayAssumption, PlaceAtFacts DEF UpdatesFit
<1>2. /\ s.ts \in Nat /\ s.due \in Nat /\ s.fires \in 0..2 /\ t \in Nat /\ NextPrice(s) \in Nat
  BY <1>1 DEF Locals, NextPrice, PriceList
<1> DEFINE u == t - 2 * Latency - 1
<1>3. u \in Nat
  BY <1>1, <1>2
<1>4. ASSUME NEW v \in Nat, u <= v, PlaceAt(v) <= p PROVE p >= PlaceAt(u)
  <2>1. PlaceAt(u) <= PlaceAt(v) /\ PlaceAt(u) \in Nat /\ PlaceAt(v) \in Nat
    BY <1>3, <1>4, PlaceAtFacts
  <2> QED BY <1>4, <2>1
<1>5. ASSUME u < FirstFullHour, p >= StartHour + 1 PROVE p >= PlaceAt(u)
  BY <1>3, <1>5, PlaceAtFacts
<1>6. CASE Working(s)
  <2>1. t <= s.ts + Latency
    BY <1>6 DEF PromptOK
  <2>2. s.fires # 0
    BY <1>1, <1>2, <1>6, <2>1 DEF PromptOK
  <2>3. CASE s.fires = 1
    <3>1. s.ts = FirstFullHour /\ NextPrice(s) = StartHour + 2
      BY <1>6, <2>3 DEF PromptOK, ClockOK
    <3> QED BY <1>1, <1>2, <1>5, <2>1, <2>2, <3>1
  <2>4. CASE s.fires = 2
    <3> DEFINE v == s.ts - Latency - 1
    <3>1. s.ts > Latency /\ PlaceAt(v) < NextPrice(s)
      BY <1>6, <2>4 DEF PromptOK
    <3>2. v \in Nat /\ u <= v /\ PlaceAt(v) \in Nat
      BY <1>1, <1>2, <2>1, <3>1, PlaceAtFacts
    <3> HIDE DEF v, u
    <3>3. PlaceAt(v) <= p
      BY <1>2, <2>2, <3>1, <3>2
    <3> QED BY <1>4, <3>2, <3>3 DEF u
  <2> QED BY <1>2, <2>2, <2>3, <2>4
<1>7. CASE ~Working(s)
  <2>1. t <= s.due + 1
    <3>1. s.pc = "wait" \/ s.pc = "done"
      BY <1>7 DEF Working, Locals
    <3> QED BY <1>1, <1>2, <3>1 DEF PromptOK
  <2>2. CASE s.fires = 0
    <3>1. s.due = FirstFullHour /\ NextPrice(s) = StartHour + 2
      BY <1>7, <2>2 DEF ClockOK
    <3> QED BY <1>1, <1>2, <1>5, <1>7, <2>1, <3>1
  <2>3. CASE s.fires # 0
    <3> DEFINE v == s.due - Latency - 1
    <3>1. s.due > Latency /\ PlaceAt(v) < NextPrice(s)
      BY <1>7, <2>3 DEF PromptOK
    <3>2. v \in Nat /\ u <= v
      BY <1>1, <1>2, <2>1, <3>1
    <3> HIDE DEF v, u
    <3>3. PlaceAt(v) \in Nat
      BY <3>2, PlaceAtFacts
    <3>4. PlaceAt(v) <= p
      BY <1>2, <1>7, <3>1, <3>3
    <3> QED BY <1>4, <3>2, <3>4 DEF u
  <2> QED BY <2>2, <2>3
<1> QED BY <1>6, <1>7

\* A goroutine, the price it has put on the ledger, and what its call returned.
PriceOK(s, p, t, k) ==
  /\ p <= NextPrice(s)
  /\ p = InitPrice \/ p \in 1..PlaceAt(t)
  /\ k = "ok" => s.pc = "updating" /\ p >= NextPrice(s)
  /\ ~Working(s) \/ s.fires # 0 => NextPrice(s) <= p + 1

Answers == [kind : {"none", "ok", "error"}, msg : {"", "error"}]

Updates ==
  [client : Operated, req : [op : {"UpdateUnitPrice"}, cat : Operated, price : Nat],
   reads : SUBSET Keys, writes : UNION {[{cat} -> Cost] : cat \in Operated}, msg : {""},
   stale : BOOLEAN, awaited : BOOLEAN]

\* An update under way: it is of an hour that has begun, an old one that can still
\* commit does not go back, and the one waited for is the last.
UpdateOK(tx, s, p, t, k) ==
  /\ tx.reads = {tx.client} /\ DOMAIN tx.writes = {tx.client}
  /\ tx.writes[tx.client] \in Cost /\ tx.writes[tx.client].price = tx.req.price
  /\ tx.req.price \in 1..PlaceAt(t) /\ tx.req.price <= NextPrice(s)
  /\ ~tx.stale => p <= tx.req.price
  /\ tx.awaited => s.pc = "updating" /\ tx.req.price = NextPrice(s) /\ k = "none"

OperatorTypes ==
  /\ now \in 0..(EndTime + 1)
  /\ operate \in [Operated -> Locals]
  /\ reply \in [Clients -> Answers]
  /\ \A c \in Operated : ws[c] \in Cost
  /\ pool \subseteq Updates

GoroutinesOK ==
  \A c \in Operated :
    /\ ClockOK(operate[c], now)
    /\ PriceOK(operate[c], ws[c].price, now, reply[c].kind)
    /\ UpdatesFit /\ punctual => PromptOK(operate[c], now)

UpdatesOK ==
  /\ \A tx \in pool :
       UpdateOK(tx, operate[tx.client], ws[tx.client].price, now, reply[tx.client].kind)
  /\ \A x, y \in pool : x.awaited /\ y.awaited /\ x.client = y.client => x = y

OperatorInv == OperatorTypes /\ GoroutinesOK /\ UpdatesOK

LEMMA OperatorStarts == TableReaches /\ OperatorInit => OperatorInv
<1> SUFFICES ASSUME TableReaches, OperatorInit PROVE OperatorInv
  OBVIOUS
<1>1. /\ HoursPerDay \in Nat \ {0} /\ StartHour \in 0..(HoursPerDay - 1) /\ Latency \in Nat
      /\ EndTime \in Nat /\ Operated \subseteq Categories /\ Operated \subseteq Clients
      /\ InitPrice \in Nat
  BY OperatorAssumption, GatewayAssumption, ContractAssumption
<1>2. /\ now = 0 /\ pool = {} /\ reply = [c \in Clients |-> NoReply]
      /\ operate = [cat \in Operated |-> Start]
      /\ ws = Apply(EmptyState, InitLedger(EmptyState).writes)
  BY DEF OperatorInit, GatewayInit
<1>3. \A c \in Operated : ws[c] = [cat |-> c, price |-> InitPrice]
  BY <1>1, <1>2 DEF Apply, InitLedger, Result, Keys
<1>4. Start \in Locals /\ NextPrice(Start) = StartHour + 1 /\ Start.pc = "begin" /\ Start.ts = 0
      /\ Start.fires = 0 /\ Working(Start)
  BY <1>1 DEF Start, Locals, NextPrice, PriceList, Working
<1>5. NoReply \in Answers /\ NoReply.kind = "none"
  BY DEF NoReply, Answers
<1>6. OperatorTypes
  <2>1. ASSUME NEW c \in Operated PROVE ws[c] \in Cost
    <3>1. ws[c] = [cat |-> c, price |-> InitPrice] /\ c \in Categories
      BY <1>1, <1>3
    <3> QED BY <1>1, <3>1 DEF Cost
  <2> QED BY <1>1, <1>2, <1>4, <1>5, <2>1 DEF OperatorTypes
<1>7. PlaceAt(0) >= StartHour + 1
  BY PlaceAtFacts
<1>8. ClockOK(Start, 0)
  BY <1>1, <1>4, <1>7 DEF ClockOK
<1>9. PromptOK(Start, 0)
  BY <1>1, <1>4 DEF PromptOK
<1>10. PriceOK(Start, InitPrice, 0, "none")
  BY <1>1, <1>4 DEF PriceOK, TableReaches, PriceList
<1>11. GoroutinesOK
  <2> SUFFICES ASSUME NEW c \in Operated
               PROVE  /\ ClockOK(operate[c], now)
                      /\ PriceOK(operate[c], ws[c].price, now, reply[c].kind)
                      /\ UpdatesFit /\ punctual => PromptOK(operate[c], now)
    BY DEF GoroutinesOK
  <2>1. operate[c] = Start /\ now = 0
    BY <1>2
  <2>2. ws[c].price = InitPrice
    <3>1. ws[c] = [cat |-> c, price |-> InitPrice]
      BY <1>3
    <3> QED BY <1>1, <3>1
  <2>3. reply[c].kind = "none"
    BY <1>1, <1>2, <1>5
  <2> QED BY <1>8, <1>9, <1>10, <2>1, <2>2, <2>3
<1> QED BY <1>2, <1>6, <1>11 DEF OperatorInv, UpdatesOK

LEMMA NextPriceNat == ASSUME NEW s \in Locals PROVE NextPrice(s) \in Nat
<1>1. s.day \in Nat /\ s.hour \in Nat /\ HoursPerDay \in Nat
  BY OperatorAssumption DEF Locals
<1> QED BY <1>1 DEF NextPrice, PriceList

\* A step of a goroutine, which may send one update.
LEMMA GoroutineStep ==
  ASSUME OperatorInv, NEW c \in Operated, NEW r \in Locals, NEW U \in SUBSET Updates,
         operate' = [operate EXCEPT ![c] = r], now' = now, ws' = ws, pool' = pool \cup U,
         punctual' => punctual, reply' \in [Clients -> Answers],
         \A d \in Operated \ {c} : reply'[d] = reply[d],
         ClockOK(r, now), NextPrice(operate[c]) <= NextPrice(r),
         PriceOK(r, ws[c].price, now, reply'[c].kind),
         UpdatesFit /\ PromptOK(operate[c], now) => PromptOK(r, now),
         \A tx \in pool : tx.client = c => ~tx.awaited,
         \A tx \in U : tx.client = c /\ UpdateOK(tx, r, ws[c].price, now, reply'[c].kind),
         \A x, y \in U : x = y
  PROVE  OperatorInv'
<1>1. operate \in [Operated -> Locals] /\ pool \subseteq Updates /\ HoursPerDay \in Nat
  BY OperatorAssumption DEF OperatorInv, OperatorTypes
<1>2. operate'[c] = r /\ \A d \in Operated : d # c => operate'[d] = operate[d]
  BY <1>1
<1>3. OperatorTypes'
  BY <1>1 DEF OperatorInv, OperatorTypes
<1>4. GoroutinesOK'
  <2> SUFFICES ASSUME NEW d \in Operated
               PROVE  /\ ClockOK(operate'[d], now')
                      /\ PriceOK(operate'[d], ws'[d].price, now', reply'[d].kind)
                      /\ UpdatesFit /\ punctual' => PromptOK(operate'[d], now')
    BY DEF GoroutinesOK, ClockOK, PriceOK, PromptOK
  <2>1. CASE d = c
    BY <1>2, <2>1 DEF OperatorInv, GoroutinesOK
  <2>2. CASE d # c
    BY <1>2, <2>2 DEF OperatorInv, GoroutinesOK
  <2> QED BY <2>1, <2>2
<1>5. ASSUME NEW tx \in pool'
      PROVE  UpdateOK(tx, operate'[tx.client], ws'[tx.client].price, now', reply'[tx.client].kind)
  <2>0. tx.client \in Operated
    BY <1>1, <1>5 DEF Updates
  <2>1. CASE tx \in U
    BY <1>2, <2>1
  <2>2. CASE tx \in pool /\ tx.client # c
    <3>1. operate'[tx.client] = operate[tx.client] /\ reply'[tx.client] = reply[tx.client]
      BY <1>2, <2>0, <2>2
    <3> QED BY <2>2, <3>1 DEF OperatorInv, UpdatesOK
  <2>3. CASE tx \in pool /\ tx.client = c
    <3>1. ~tx.awaited /\ UpdateOK(tx, operate[c], ws[c].price, now, reply[c].kind)
      BY <2>3 DEF OperatorInv, UpdatesOK
    <3>2. tx.req.price \in Nat /\ NextPrice(operate[c]) \in Nat /\ NextPrice(r) \in Nat
      <4>1. tx \in Updates /\ operate[c] \in Locals
        BY <1>1, <2>3
      <4>2. tx.req.price \in Nat
        BY <4>1 DEF Updates
      <4> QED BY <4>1, <4>2, NextPriceNat
    <3>3. tx.req.price <= NextPrice(r)
      BY <3>1, <3>2 DEF UpdateOK
    <3>4. UpdateOK(tx, r, ws[c].price, now, reply'[c].kind)
      BY <3>1, <3>3 DEF UpdateOK
    <3> QED BY <1>2, <2>3, <3>4
  <2> QED BY <1>5, <2>1, <2>2, <2>3
<1>6. ASSUME NEW x \in pool', NEW y \in pool', x.awaited, y.awaited, x.client = y.client PROVE x = y
  BY <1>6 DEF OperatorInv, UpdatesOK
<1>7. UpdatesOK'
  BY <1>5, <1>6 DEF UpdatesOK, UpdateOK
<1> QED BY <1>3, <1>4, <1>7 DEF OperatorInv

\* No update of a goroutine is waited for before it makes one, or when its call has
\* returned.
LEMMA QuietStep ==
  ASSUME OperatorInv, NEW c \in Operated,
         operate[c].pc # "updating" \/ reply[c].kind # "none"
  PROVE  \A tx \in pool : tx.client = c => ~tx.awaited
  BY DEF OperatorInv, UpdatesOK, UpdateOK

\* A goroutine's step that makes no call.
LEMMA PlainStep ==
  ASSUME OperatorInv, NEW c \in Operated, NEW r \in Locals,
         operate' = [operate EXCEPT ![c] = r], now' = now, ws' = ws, pool' = pool,
         punctual' => punctual, operate[c].pc # "updating" \/ reply[c].kind # "none",
         reply' = reply \/ reply' = [reply EXCEPT ![c] = NoReply],
         ClockOK(r, now), NextPrice(operate[c]) <= NextPrice(r),
         PriceOK(r, ws[c].price, now, reply'[c].kind),
         UpdatesFit /\ PromptOK(operate[c], now) => PromptOK(r, now)
  PROVE  OperatorInv'
<1>1. reply \in [Clients -> Answers] /\ Operated \subseteq Clients /\ NoReply \in Answers
  BY OperatorAssumption DEF OperatorInv, OperatorTypes, NoReply, Answers
<1>2. reply' \in [Clients -> Answers] /\ \A d \in Operated \ {c} : reply'[d] = reply[d]
  BY <1>1
<1>3. \A tx \in pool : tx.client = c => ~tx.awaited
  BY QuietStep
<1>4. pool' = pool \cup {} /\ {} \in SUBSET Updates
  OBVIOUS
<1> QED BY <1>2, <1>3, <1>4, GoroutineStep

\* What the invariant says of one goroutine.
LEMMA GoroutineFacts ==
  ASSUME OperatorInv, NEW c \in Operated
  PROVE  /\ operate[c] \in Locals /\ ClockOK(operate[c], now) /\ now \in 0..(EndTime + 1) /\ now \in Nat
         /\ PriceOK(operate[c], ws[c].price, now, reply[c].kind)
         /\ ws[c] \in Cost /\ ws[c].price \in Nat /\ NextPrice(operate[c]) \in Nat
         /\ reply \in [Clients -> Answers] /\ c \in Clients /\ c \in Categories
         /\ [reply EXCEPT ![c] = NoReply][c].kind = "none"
         /\ UpdatesFit /\ punctual => PromptOK(operate[c], now)
<1>1. /\ operate[c] \in Locals /\ now \in 0..(EndTime + 1) /\ EndTime \in Nat /\ ws[c] \in Cost
      /\ reply \in [Clients -> Answers] /\ c \in Clients /\ c \in Categories
  BY OperatorAssumption, GatewayAssumption DEF OperatorInv, OperatorTypes
<1>2. NextPrice(operate[c]) \in Nat
  BY <1>1, NextPriceNat
<1>3. ws[c].price \in Nat
  BY <1>1 DEF Cost
<1>4. [reply EXCEPT ![c] = NoReply][c].kind = "none"
  BY <1>1 DEF NoReply
<1> QED BY <1>1, <1>2, <1>3, <1>4 DEF OperatorInv, GoroutinesOK

LEMMA OtherSteps ==
  ASSUME OperatorInv, NEW c \in Operated, Begin(c) \/ UpdateFailed(c) \/ EndTimer(c),
         punctual' => punctual
  PROVE  OperatorInv'
<1> PICK s : s = operate[c]
  OBVIOUS
<1>1. /\ s \in Locals /\ ClockOK(s, now) /\ now \in 0..(EndTime + 1) /\ NextPrice(s) \in Nat
      /\ PriceOK(s, ws[c].price, now, reply[c].kind)
      /\ [reply EXCEPT ![c] = NoReply][c].kind = "none"
  BY GoroutineFacts
<1>2. PICK r : /\ operate' = [operate EXCEPT ![c] = r] /\ now' = now /\ ws' = ws /\ pool' = pool
               /\ reply' = reply \/ reply' = [reply EXCEPT ![c] = NoReply]
               /\ s.pc = "updating" => reply' = [reply EXCEPT ![c] = NoReply]
               /\ s.pc # "updating" \/ reply[c].kind # "none"
               /\ OtherStep(s, now, r)
  BY DEF OtherStep, Begin, UpdateFailed, EndTimer, Is, Goes, Again, TakeReply, gatewayVars
<1>3. /\ r \in Locals /\ ClockOK(r, now) /\ NextPrice(r) = NextPrice(s) /\ r.fires = s.fires
      /\ PromptOK(s, now) => PromptOK(r, now)
      /\ Working(r) <=> Working(s)
  BY <1>1, <1>2, OtherLocals
<1>4. reply'[c].kind # "ok"
  BY <1>1, <1>2 DEF PriceOK
<1>5. PriceOK(r, ws[c].price, now, reply'[c].kind)
  BY <1>1, <1>3, <1>4 DEF PriceOK
<1>6. NextPrice(s) <= NextPrice(r)
  BY <1>1, <1>3
<1> QED BY <1>2, <1>3, <1>5, <1>6, PlainStep

LEMMA UpdatedStep ==
  ASSUME TableReaches, OperatorInv, NEW c \in Operated, Updated(c), punctual' => punctual
  PROVE  OperatorInv'
<1> PICK s : s = operate[c]
  OBVIOUS
<1>1. /\ s \in Locals /\ ClockOK(s, now) /\ now \in 0..(EndTime + 1) /\ NextPrice(s) \in Nat
      /\ PriceOK(s, ws[c].price, now, reply[c].kind) /\ ws[c].price \in Nat
      /\ [reply EXCEPT ![c] = NoReply][c].kind = "none"
  BY GoroutineFacts
<1>2. PICK r : r = AfterUpdate(s, now)
  OBVIOUS
<1>3. /\ s.pc = "updating" /\ reply[c].kind = "ok" /\ reply' = [reply EXCEPT ![c] = NoReply]
      /\ now' = now /\ ws' = ws /\ pool' = pool /\ operate' = [operate EXCEPT ![c] = r]
  BY <1>2 DEF Updated, Is, Goes, TakeReply, AfterUpdate
<1>4. /\ r \in Locals /\ r.pc = "wait" /\ ClockOK(r, now) /\ NextPrice(r) = NextPrice(s) + 1
      /\ UpdatesFit /\ PromptOK(s, now) => PromptOK(r, now)
  BY <1>1, <1>2, <1>3, UpdatedLocals
<1>5. PriceOK(r, ws[c].price, now, reply'[c].kind)
  BY <1>1, <1>3, <1>4 DEF PriceOK
<1>6. NextPrice(s) <= NextPrice(r) /\ reply[c].kind # "none"
  BY <1>1, <1>3, <1>4
<1> QED BY <1>3, <1>4, <1>5, <1>6, PlainStep

LEMMA FireStep ==
  ASSUME OperatorInv, NEW c \in Operated, Fire(c), punctual' => punctual
  PROVE  OperatorInv'
<1> PICK s : s = operate[c]
  OBVIOUS
<1>1. /\ s \in Locals /\ ClockOK(s, now) /\ now \in 0..(EndTime + 1) /\ NextPrice(s) \in Nat
      /\ PriceOK(s, ws[c].price, now, reply[c].kind)
  BY GoroutineFacts
<1>2. PICK r : r = AfterFire(s, now)
  OBVIOUS
<1>3. /\ s.pc = "wait" /\ s.due <= now /\ reply' = reply
      /\ now' = now /\ ws' = ws /\ pool' = pool /\ operate' = [operate EXCEPT ![c] = r]
  BY <1>2 DEF Fire, Is, Goes, gatewayVars, AfterFire
<1>4. /\ r \in Locals /\ r.pc = "update" /\ ClockOK(r, now) /\ NextPrice(r) = NextPrice(s)
      /\ UpdatesFit /\ PromptOK(s, now) => PromptOK(r, now)
  BY <1>1, <1>2, <1>3, FireLocals
<1>5. ~Working(s) /\ reply[c].kind # "ok"
  BY <1>1, <1>3 DEF Working, PriceOK
<1>6. PriceOK(r, ws[c].price, now, reply'[c].kind)
  BY <1>1, <1>3, <1>4, <1>5 DEF PriceOK
<1>7. NextPrice(s) <= NextPrice(r)
  BY <1>1, <1>4
<1> QED BY <1>3, <1>4, <1>6, <1>7, PlainStep

\* A call of a function that writes is put under way.
LEMMA SubmitWrites ==
  ASSUME NEW c, NEW req, NEW m, NEW R, NEW W, Execute(ws, req) = Result(m, R, W), Submit(c, req)
  PROVE  /\ reply' = [reply EXCEPT ![c] = NoReply]
         /\ pool' = pool \cup {[client |-> c, req |-> req, reads |-> R, writes |-> W, msg |-> m,
                                stale |-> FALSE, awaited |-> TRUE]}
<1>1. /\ ~Result(m, R, W).err
      /\ Result(m, R, W).reads = R /\ Result(m, R, W).writes = W /\ Result(m, R, W).msg = m
  BY DEF Result
<1> HIDE DEF Result
<1> QED BY <1>1 DEF Submit

LEMMA UpdateStep ==
  ASSUME OperatorInv, NEW c \in Operated, Update(c), punctual' => punctual
  PROVE  OperatorInv'
<1> PICK s : s = operate[c]
  OBVIOUS
<1>1. /\ s \in Locals /\ ClockOK(s, now) /\ now \in 0..(EndTime + 1) /\ now \in Nat
      /\ NextPrice(s) \in Nat /\ PriceOK(s, ws[c].price, now, reply[c].kind)
      /\ ws[c] \in Cost /\ ws[c].price \in Nat
      /\ reply \in [Clients -> Answers] /\ c \in Clients /\ c \in Categories
      /\ [reply EXCEPT ![c] = NoReply][c].kind = "none"
  BY GoroutineFacts
<1> PICK r : r = [s EXCEPT !.pc = "updating"]
  OBVIOUS
<1> DEFINE req == [op |-> "UpdateUnitPrice", cat |-> c, price |-> NextPrice(s)]
<1>2. /\ s.pc = "update" /\ Submit(c, req) /\ now' = now /\ ws' = ws
      /\ operate' = [operate EXCEPT ![c] = r] /\ OtherStep(s, now, r)
  BY DEF Update, Is, Goes, Submit, NextPrice, OtherStep
<1>3. /\ r \in Locals /\ ClockOK(r, now) /\ NextPrice(r) = NextPrice(s) /\ r.fires = s.fires
      /\ PromptOK(s, now) => PromptOK(r, now)
      /\ Working(r) <=> Working(s)
  BY <1>1, <1>2, OtherLocals
<1>4. r.pc = "updating" /\ Working(s) /\ reply[c].kind # "ok"
  BY <1>1, <1>2 DEF Working, PriceOK, Locals
<1>5. NextPrice(s) \in 1..PlaceAt(now)
  <2>1. NextPrice(s) <= PlaceAt(s.ts) /\ s.ts <= now /\ s.ts \in Nat
    BY <1>1, <1>4 DEF ClockOK, Locals
  <2>2. PlaceAt(s.ts) <= PlaceAt(now) /\ PlaceAt(s.ts) \in Nat /\ PlaceAt(now) \in Nat
    BY <1>1, <2>1, PlaceAtFacts
  <2>3. s.day * HoursPerDay \in Nat /\ s.hour \in Nat
    BY <1>1, OperatorAssumption DEF Locals
  <2>4. NextPrice(s) >= 1
    BY <2>3 DEF NextPrice, PriceList
  <2> QED BY <1>1, <2>1, <2>2, <2>4
<1> DEFINE tx == [client |-> c, req |-> req, reads |-> {c},
                  writes |-> [k \in {c} |-> [ws[c] EXCEPT !.price = NextPrice(s)]],
                  msg |-> "", stale |-> FALSE, awaited |-> TRUE]
<1>6. ws[c] # Absent
  BY <1>1, ContractAssumption
<1>7. Execute(ws, req) = Result("", {c}, [k \in {c} |-> [ws[c] EXCEPT !.price = NextPrice(s)]])
  BY <1>6 DEF Execute, UpdateUnitPrice, EnergyExists
<1>8. pool' = pool \cup {tx} /\ reply' = [reply EXCEPT ![c] = NoReply]
  BY <1>2, <1>7, SubmitWrites
<1>9. tx \in Updates
  <2> DEFINE w == [k \in {c} |-> [ws[c] EXCEPT !.price = NextPrice(s)]]
  <2>1. [ws[c] EXCEPT !.price = NextPrice(s)] \in Cost
    BY <1>1 DEF Cost
  <2>2. w \in [{c} -> Cost]
    BY <2>1
  <2>3. w \in UNION {[{cat} -> Cost] : cat \in Operated}
    BY <2>2
  <2>4. {c} \in SUBSET Keys
    BY <1>1 DEF Keys
  <2>5. req \in [op : {"UpdateUnitPrice"}, cat : Operated, price : Nat]
    BY <1>1
  <2> HIDE DEF w, req
  <2>6. [client |-> c, req |-> req, reads |-> {c}, writes |-> w, msg |-> "", stale |-> FALSE,
         awaited |-> TRUE] \in Updates
    BY <2>3, <2>4, <2>5 DEF Updates
  <2> QED BY <2>6 DEF w
<1>10. UpdateOK(tx, r, ws[c].price, now, "none")
  <2> DEFINE w == [k \in {c} |-> [ws[c] EXCEPT !.price = NextPrice(s)]]
  <2>1. w[c] \in Cost /\ w[c].price = NextPrice(s) /\ DOMAIN w = {c}
    BY <1>1 DEF Cost
  <2>2. ws[c].price <= NextPrice(s)
    BY <1>1 DEF PriceOK
  <2>3. /\ tx.client = c /\ tx.reads = {c} /\ tx.writes = w /\ tx.req.price = NextPrice(s)
    OBVIOUS
  <2> HIDE DEF w, tx
  <2> QED BY <1>1, <1>3, <1>4, <1>5, <2>1, <2>2, <2>3 DEF UpdateOK
<1>11. tx.client = c
  OBVIOUS
<1> HIDE DEF tx
<1>12. reply' \in [Clients -> Answers] /\ (\A d \in Operated \ {c} : reply'[d] = reply[d])
       /\ reply'[c].kind = "none"
  <2>1. NoReply \in Answers /\ NoReply.kind = "none" /\ Operated \subseteq Clients
    BY OperatorAssumption DEF NoReply, Answers
  <2>2. reply \in [Clients -> Answers] /\ reply' = [reply EXCEPT ![c] = NoReply]
    BY <1>1, <1>8
  <2> QED BY <2>1, <2>2
<1>13. PriceOK(r, ws[c].price, now, reply'[c].kind)
  BY <1>1, <1>3, <1>12 DEF PriceOK
<1>14. \A x \in pool : x.client = c => ~x.awaited
  BY <1>2, QuietStep
<1>15. NextPrice(s) <= NextPrice(r) /\ {tx} \in SUBSET Updates
  BY <1>1, <1>3, <1>9
<1>16. PICK U : U = {tx}
  OBVIOUS
<1>17. \A x \in U : x.client = c /\ UpdateOK(x, r, ws[c].price, now, reply'[c].kind)
  BY <1>10, <1>11, <1>12, <1>16
<1>18. U \in SUBSET Updates /\ pool' = pool \cup U /\ \A x, y \in U : x = y
  BY <1>8, <1>15, <1>16
<1> QED BY <1>2, <1>3, <1>12, <1>13, <1>14, <1>15, <1>17, <1>18, GoroutineStep

LEMMA OperateStep ==
  ASSUME TableReaches, OperatorInv, Operate, punctual' => punctual
  PROVE  OperatorInv' /\ ws' = ws
<1>1. PICK c \in Operated : Begin(c) \/ Update(c) \/ UpdateFailed(c) \/ Updated(c) \/ Fire(c) \/ EndTimer(c)
  BY DEF Operate
<1>2. ws' = ws
  BY <1>1 DEF Begin, Update, UpdateFailed, Updated, Fire, EndTimer, Submit, TakeReply, gatewayVars
<1> QED BY <1>1, <1>2, OtherSteps, UpdateStep, UpdatedStep, FireStep

\* A step of the network: what is under way afterwards was under way before.
CopyOf(x, y) ==
  /\ x.client = y.client /\ x.req = y.req /\ x.reads = y.reads /\ x.writes = y.writes
  /\ x.awaited => y.awaited
  /\ y.stale => x.stale

LEMMA NetworkStep ==
  ASSUME OperatorInv, operate' = operate, now' = now, punctual' => punctual,
         reply' \in [Clients -> Answers],
         \A c \in Operated : ws'[c] \in Cost /\ PriceOK(operate[c], ws'[c].price, now, reply'[c].kind),
         pool' \subseteq Updates,
         \A x \in pool' : \E y \in pool :
            /\ CopyOf(x, y)
            /\ x.awaited => reply'[x.client].kind = "none"
            /\ ~x.stale => ws'[x.client].price <= x.req.price,
         \A x, y \in pool' : x.awaited /\ y.awaited /\ x.client = y.client => x = y
  PROVE  OperatorInv'
<1>1. OperatorTypes'
  BY DEF OperatorInv, OperatorTypes
<1>2. GoroutinesOK'
  <2> SUFFICES ASSUME NEW d \in Operated
               PROVE  /\ ClockOK(operate'[d], now')
                      /\ PriceOK(operate'[d], ws'[d].price, now', reply'[d].kind)
                      /\ UpdatesFit /\ punctual' => PromptOK(operate'[d], now')
    BY DEF GoroutinesOK, ClockOK, PriceOK, PromptOK
  <2> QED BY DEF OperatorInv, GoroutinesOK
<1>3. ASSUME NEW x \in pool'
      PROVE  UpdateOK(x, operate'[x.client], ws'[x.client].price, now', reply'[x.client].kind)
  <2>1. PICK y \in pool : /\ CopyOf(x, y)
                          /\ x.awaited => reply'[x.client].kind = "none"
                          /\ ~x.stale => ws'[x.client].price <= x.req.price
    BY <1>3
  <2>2. UpdateOK(y, operate[y.client], ws[y.client].price, now, reply[y.client].kind)
    BY DEF OperatorInv, UpdatesOK
  <2> QED BY <2>1, <2>2 DEF UpdateOK, CopyOf
<1>4. UpdatesOK'
  BY <1>3 DEF UpdatesOK, UpdateOK
<1> QED BY <1>1, <1>2, <1>4 DEF OperatorInv

\* What the invariant says of an update under way.
LEMMA UpdateFacts ==
  ASSUME OperatorInv, NEW tx \in pool
  PROVE  /\ tx \in Updates /\ tx.client \in Operated /\ tx.req.price \in Nat
         /\ tx.stale \in BOOLEAN /\ tx.awaited \in BOOLEAN
         /\ UpdateOK(tx, operate[tx.client], ws[tx.client].price, now, reply[tx.client].kind)
<1>1. tx \in Updates
  BY DEF OperatorInv, OperatorTypes
<1>2. tx.client \in Operated /\ tx.req.price \in Nat /\ tx.stale \in BOOLEAN /\ tx.awaited \in BOOLEAN
  BY <1>1 DEF Updates
<1> QED BY <1>1, <1>2 DEF OperatorInv, UpdatesOK

LEMMA CommitStep ==
  ASSUME OperatorInv, NEW tx \in pool, Commit(tx), operate' = operate, punctual' => punctual
  PROVE  /\ OperatorInv'
         /\ \A c \in Operated : ws'[c].price >= ws[c].price
<1> PICK c : c = tx.client
  OBVIOUS
<1> PICK q : q = tx.req.price
  OBVIOUS
<1>1. /\ ~tx.stale /\ ws' = Apply(ws, tx.writes) /\ pool' = Remaining(tx) /\ now' = now
      /\ reply' = IF tx.awaited THEN [reply EXCEPT ![c] = Succeeded(tx.msg)] ELSE reply
  BY DEF Commit, Answer
<1>2. /\ tx \in Updates /\ c \in Operated /\ q \in Nat
      /\ UpdateOK(tx, operate[c], ws[c].price, now, reply[c].kind)
  BY UpdateFacts
<1>3. Succeeded(tx.msg) \in Answers /\ Succeeded(tx.msg).kind = "ok" /\ Operated \subseteq Clients
      /\ Operated \subseteq Keys
  <2>1. tx.msg = ""
    BY <1>2 DEF Updates
  <2> QED BY <2>1, OperatorAssumption DEF Succeeded, Answers, Keys
<1>4. /\ reply' \in [Clients -> Answers]
      /\ \A d \in Operated \ {c} : reply'[d] = reply[d]
      /\ reply'[c].kind = IF tx.awaited THEN "ok" ELSE reply[c].kind
  <2>1. reply \in [Clients -> Answers]
    BY DEF OperatorInv, OperatorTypes
  <2>2. CASE tx.awaited
    BY <1>1, <1>2, <1>3, <2>1, <2>2
  <2>3. CASE ~tx.awaited
    BY <1>1, <2>1, <2>3
  <2> QED BY <2>2, <2>3
<1>5. /\ \A d \in Operated \ {c} : ws'[d] = ws[d]
      /\ ws'[c] \in Cost /\ ws'[c].price = q
  <2>1. DOMAIN tx.writes = {c} /\ tx.writes[c] \in Cost /\ tx.writes[c].price = q
    BY <1>2 DEF UpdateOK
  <2>2. \A k \in Keys : ws'[k] = IF k \in {c} THEN tx.writes[k] ELSE ws[k]
    BY <1>1, <2>1 DEF Apply
  <2> QED BY <1>2, <1>3, <2>1, <2>2
<1>6. ASSUME NEW d \in Operated
      PROVE  /\ ws[d] \in Cost /\ ws[d].price \in Nat /\ NextPrice(operate[d]) \in Nat
             /\ PriceOK(operate[d], ws[d].price, now, reply[d].kind)
  BY GoroutineFacts
<1>7. ws[c].price <= q /\ q <= NextPrice(operate[c]) /\ q \in 1..PlaceAt(now)
      /\ (tx.awaited => operate[c].pc = "updating" /\ q = NextPrice(operate[c]))
  BY <1>1, <1>2 DEF UpdateOK
<1>8. ASSUME NEW d \in Operated
      PROVE  /\ ws'[d] \in Cost /\ PriceOK(operate[d], ws'[d].price, now, reply'[d].kind)
             /\ ws'[d].price >= ws[d].price
  <2>1. CASE d # c
    BY <1>4, <1>5, <1>6, <2>1
  <2>2. CASE d = c
    <3>1. ws[c].price \in Nat /\ NextPrice(operate[c]) \in Nat
          /\ PriceOK(operate[c], ws[c].price, now, reply[c].kind)
      BY <1>2, <1>6
    <3>2. reply'[c].kind = "ok" => operate[c].pc = "updating" /\ q >= NextPrice(operate[c])
      BY <1>2, <1>4, <1>7, <3>1 DEF PriceOK
    <3>3. ~Working(operate[c]) \/ operate[c].fires # 0 => NextPrice(operate[c]) <= q + 1
      BY <1>2, <1>7, <3>1 DEF PriceOK
    <3>4. PriceOK(operate[c], q, now, reply'[c].kind)
      BY <1>7, <3>2, <3>3 DEF PriceOK
    <3> QED BY <1>2, <1>5, <1>7, <2>2, <3>1, <3>4
  <2> QED BY <2>1, <2>2
<1> DEFINE Left(y) == [y EXCEPT !.stale = @ \/ y.reads \cap DOMAIN tx.writes # {}]
<1>9. ASSUME NEW y \in pool \ {tx}
      PROVE  /\ Left(y) \in Updates /\ CopyOf(Left(y), y) /\ Left(y).awaited = y.awaited
             /\ y.client = c => Left(y).stale
  <2>1. y \in Updates /\ y.reads = {y.client} /\ y.stale \in BOOLEAN /\ DOMAIN tx.writes = {c}
    BY <1>2, UpdateFacts DEF UpdateOK
  <2> DEFINE b == y.stale \/ y.reads \cap DOMAIN tx.writes # {}
  <2>2. b \in BOOLEAN /\ (y.stale => b) /\ (y.client = c => b)
    BY <2>1
  <2> HIDE DEF b
  <2>3. /\ [y EXCEPT !.stale = b] \in Updates /\ [y EXCEPT !.stale = b].client = y.client
        /\ [y EXCEPT !.stale = b].req = y.req /\ [y EXCEPT !.stale = b].reads = y.reads
        /\ [y EXCEPT !.stale = b].writes = y.writes /\ [y EXCEPT !.stale = b].awaited = y.awaited
        /\ [y EXCEPT !.stale = b].stale = b
    BY <2>1, <2>2 DEF Updates
  <2>4. Left(y) = [y EXCEPT !.stale = b]
    BY DEF b
  <2> HIDE DEF Left
  <2> QED BY <2>2, <2>3, <2>4 DEF CopyOf
<1>10. pool' = {Left(y) : y \in pool \ {tx}}
  BY <1>1 DEF Remaining
<1> HIDE DEF Left
<1>11. ASSUME NEW x \in pool'
       PROVE  x \in Updates /\ \E y \in pool :
            /\ CopyOf(x, y)
            /\ x.awaited => reply'[x.client].kind = "none"
            /\ ~x.stale => ws'[x.client].price <= x.req.price
  <2>1. PICK y \in pool \ {tx} : x = Left(y)
    BY <1>10
  <2>2. /\ x \in Updates /\ CopyOf(x, y) /\ x.awaited = y.awaited /\ (y.client = c => x.stale)
    BY <1>9, <2>1
  <2>3. x.client = y.client /\ x.req = y.req /\ (~x.stale => ~y.stale)
    BY <2>2 DEF CopyOf
  <2>4. /\ y.client \in Operated
        /\ UpdateOK(y, operate[y.client], ws[y.client].price, now, reply[y.client].kind)
    BY <2>1, UpdateFacts
  <2>5. ~x.stale => ws'[x.client].price <= x.req.price
    BY <1>5, <2>2, <2>3, <2>4 DEF UpdateOK
  <2>6. x.awaited => reply'[x.client].kind = "none"
    <3>1. x.awaited => reply[x.client].kind = "none"
      BY <2>2, <2>3, <2>4 DEF UpdateOK
    <3>2. x.awaited /\ tx.awaited => x.client # c
      BY <2>1, <2>2, <2>3 DEF OperatorInv, UpdatesOK
    <3> QED BY <1>4, <2>3, <2>4, <3>1, <3>2
  <2> QED BY <2>1, <2>2, <2>5, <2>6
<1>12. ASSUME NEW x \in pool', NEW y \in pool', x.awaited, y.awaited, x.client = y.client PROVE x = y
  <2>1. PICK v \in pool \ {tx}, w \in pool \ {tx} : x = Left(v) /\ y = Left(w)
    BY <1>10
  <2>2. v.awaited /\ w.awaited /\ v.client = w.client
    BY <1>9, <1>12, <2>1 DEF CopyOf
  <2>3. v = w
    BY <2>2 DEF OperatorInv, UpdatesOK
  <2> QED BY <2>1, <2>3
<1>13. OperatorInv'
  BY <1>1, <1>4, <1>8, <1>11, <1>12, NetworkStep
<1> QED BY <1>8, <1>13

\* The steps of the network that leave the ledger alone: an update fails for the
\* client, is lost, or both.
LEMMA FailedStep ==
  ASSUME OperatorInv, NEW old \in pool, operate' = operate, now' = now, ws' = ws,
         punctual' => punctual,
         reply' = IF old.awaited THEN [reply EXCEPT ![old.client] = Failed] ELSE reply,
         \A x \in pool' : \/ x \in pool \ {old}
                          \/ x \in Updates /\ CopyOf(x, old) /\ ~x.awaited
  PROVE  OperatorInv'
<1> PICK c : c = old.client
  OBVIOUS
<1>1. /\ reply \in [Clients -> Answers] /\ Failed \in Answers /\ Failed.kind = "error"
      /\ Operated \subseteq Clients /\ c \in Operated
  BY OperatorAssumption, UpdateFacts DEF OperatorInv, OperatorTypes, Failed, Answers
<1>2. /\ reply' \in [Clients -> Answers]
      /\ \A d \in Operated : \/ d # c /\ reply'[d] = reply[d]
                             \/ old.awaited /\ reply'[d].kind = "error"
                             \/ ~old.awaited /\ reply'[d] = reply[d]
  <2>1. CASE old.awaited
    BY <1>1, <2>1
  <2>2. CASE ~old.awaited
    BY <1>1, <2>2
  <2> QED BY <2>1, <2>2
<1>3. ASSUME NEW d \in Operated
      PROVE  ws'[d] \in Cost /\ PriceOK(operate[d], ws'[d].price, now, reply'[d].kind)
  <2>1. ws[d] \in Cost /\ PriceOK(operate[d], ws[d].price, now, reply[d].kind)
    BY GoroutineFacts
  <2>2. reply'[d].kind = reply[d].kind \/ reply'[d].kind = "error"
    BY <1>2
  <2>3. PriceOK(operate[d], ws[d].price, now, "error")
    BY <2>1 DEF PriceOK
  <2> QED BY <2>1, <2>2, <2>3
<1>4. ASSUME NEW x \in pool', x \in pool \ {old}
      PROVE  x \in Updates /\ \E y \in pool :
            /\ CopyOf(x, y)
            /\ x.awaited => reply'[x.client].kind = "none"
            /\ ~x.stale => ws'[x.client].price <= x.req.price
  <2>1. /\ x \in Updates /\ x.client \in Operated
        /\ UpdateOK(x, operate[x.client], ws[x.client].price, now, reply[x.client].kind)
    BY <1>4, UpdateFacts
  <2>2. x.awaited => reply[x.client].kind = "none" /\ (old.awaited => x.client # c)
    BY <1>4, <2>1 DEF UpdateOK, OperatorInv, UpdatesOK
  <2>3. x.awaited => reply'[x.client].kind = "none"
    BY <1>2, <2>1, <2>2
  <2>4. CopyOf(x, x) /\ (~x.stale => ws'[x.client].price <= x.req.price)
    BY <2>1 DEF CopyOf, UpdateOK
  <2> QED BY <1>4, <2>1, <2>3, <2>4
<1>5. ASSUME NEW x \in pool', x \in Updates, CopyOf(x, old), ~x.awaited
      PROVE  \E y \in pool :
            /\ CopyOf(x, y)
            /\ x.awaited => reply'[x.client].kind = "none"
            /\ ~x.stale => ws'[x.client].price <= x.req.price
  <2>1. UpdateOK(old, operate[old.client], ws[old.client].price, now, reply[old.client].kind)
    BY UpdateFacts
  <2>2. ~x.stale => ws'[x.client].price <= x.req.price
    BY <1>5, <2>1 DEF CopyOf, UpdateOK
  <2> QED BY <1>5, <2>2
<1>6. ASSUME NEW x \in pool', NEW y \in pool', x.awaited, y.awaited, x.client = y.client
      PROVE  x = y
  <2>1. x \in pool /\ y \in pool
    BY <1>6
  <2> QED BY <1>6, <2>1 DEF OperatorInv, UpdatesOK
<1>7. pool' \subseteq Updates
  BY <1>4, <1>5
<1>8. \A x \in pool' : \E y \in pool :
            /\ CopyOf(x, y)
            /\ x.awaited => reply'[x.client].kind = "none"
            /\ ~x.stale => ws'[x.client].price <= x.req.price
  BY <1>4, <1>5
<1> QED BY <1>2, <1>3, <1>6, <1>7, <1>8, NetworkStep

LEMMA LostStep ==
  ASSUME OperatorInv, NEW tx \in pool, Invalidate(tx) \/ GiveUp(tx) \/ Drop(tx),
         operate' = operate, punctual' => punctual
  PROVE  OperatorInv' /\ ws' = ws
<1>1. /\ now' = now /\ ws' = ws
      /\ reply' = IF tx.awaited THEN [reply EXCEPT ![tx.client] = Failed] ELSE reply
  BY DEF Invalidate, GiveUp, Drop, Answer
<1>2. CASE Invalidate(tx) \/ Drop(tx)
  <2>1. \A x \in pool' : x \in pool \ {tx}
    BY <1>2 DEF Invalidate, Drop
  <2> QED BY <1>1, <2>1, FailedStep
<1>3. CASE GiveUp(tx)
  <2> PICK u : u = [tx EXCEPT !.awaited = FALSE]
    OBVIOUS
  <2>1. tx \in Updates
    BY UpdateFacts
  <2>2. u \in Updates /\ ~u.awaited /\ CopyOf(u, tx)
    BY <2>1 DEF Updates, CopyOf
  <2>3. \A x \in pool' : x \in pool \ {tx} \/ (x \in Updates /\ CopyOf(x, tx) /\ ~x.awaited)
    BY <1>3, <2>2 DEF GiveUp
  <2> QED BY <1>1, <2>3, FailedStep
<1> QED BY <1>1, <1>2, <1>3

LEMMA TickStep ==
  ASSUME OperatorInv, ClockTick, operate' = operate, punctual' => punctual /\ InTime
  PROVE  OperatorInv' /\ ws' = ws
<1>1. /\ now \in Nat /\ EndTime \in Nat /\ now <= EndTime /\ now' = now + 1
      /\ ws' = ws /\ pool' = pool /\ reply' = reply
  BY GatewayAssumption DEF OperatorInv, OperatorTypes, ClockTick
<1>2. now + 1 \in 0..(EndTime + 1)
  BY <1>1
<1>3. OperatorTypes'
  BY <1>1, <1>2 DEF OperatorInv, OperatorTypes
<1>4. PlaceAt(now) <= PlaceAt(now + 1) /\ PlaceAt(now) \in Nat /\ PlaceAt(now + 1) \in Nat
  BY <1>1, PlaceAtFacts
<1>5. ASSUME NEW c \in Operated
      PROVE  /\ ClockOK(operate[c], now + 1)
             /\ PriceOK(operate[c], ws[c].price, now + 1, reply[c].kind)
             /\ UpdatesFit /\ punctual' => PromptOK(operate[c], now + 1)
  <2>1. /\ operate[c] \in Locals /\ ClockOK(operate[c], now) /\ ws[c].price \in Nat
        /\ PriceOK(operate[c], ws[c].price, now, reply[c].kind)
        /\ UpdatesFit /\ punctual => PromptOK(operate[c], now)
    BY GoroutineFacts
  <2>2. ClockOK(operate[c], now + 1)
    BY <1>1, <2>1, TickLocals
  <2>3. PriceOK(operate[c], ws[c].price, now + 1, reply[c].kind)
    BY <1>4, <2>1 DEF PriceOK
  <2>4. ASSUME UpdatesFit, punctual' PROVE PromptOK(operate[c], now + 1)
    <3>1. PromptOK(operate[c], now) /\ InTime
      BY <2>1, <2>4
    <3>2. /\ Working(operate[c]) => now - operate[c].ts < Latency
          /\ operate[c].pc = "wait" => now < operate[c].due
      BY <3>1 DEF InTime, Working
    <3> QED BY <1>1, <2>1, <3>1, <3>2, TickLocals
  <2> QED BY <2>2, <2>3, <2>4
<1>6. GoroutinesOK'
  <2> SUFFICES ASSUME NEW d \in Operated
               PROVE  /\ ClockOK(operate'[d], now')
                      /\ PriceOK(operate'[d], ws'[d].price, now', reply'[d].kind)
                      /\ UpdatesFit /\ punctual' => PromptOK(operate'[d], now')
    BY DEF GoroutinesOK, ClockOK, PriceOK, PromptOK
  <2> QED BY <1>1, <1>5
<1>7. ASSUME NEW x \in pool
      PROVE  UpdateOK(x, operate[x.client], ws[x.client].price, now + 1, reply[x.client].kind)
  <2>1. /\ UpdateOK(x, operate[x.client], ws[x.client].price, now, reply[x.client].kind)
        /\ x.req.price \in Nat
    BY UpdateFacts
  <2> QED BY <1>4, <2>1 DEF UpdateOK
<1>8. ASSUME NEW x \in pool'
      PROVE  UpdateOK(x, operate'[x.client], ws'[x.client].price, now', reply'[x.client].kind)
  BY <1>1, <1>7, <1>8
<1>9. UpdatesOK'
  <2>1. \A x, y \in pool' : x.awaited /\ y.awaited /\ x.client = y.client => x = y
    BY <1>1 DEF OperatorInv, UpdatesOK
  <2> QED BY <1>8, <2>1 DEF UpdatesOK, UpdateOK
<1> QED BY <1>1, <1>3, <1>6, <1>9 DEF OperatorInv

LEMMA OperatorMoves ==
  ASSUME TableReaches, OperatorInv, [OperatorNext]_operatorVars
  PROVE  /\ OperatorInv'
         /\ ws' = ws \/ \A c \in Operated : ws'[c].price >= ws[c].price
<1>1. CASE Operate /\ punctual' = (punctual /\ (now' > now => InTime))
  BY <1>1, OperateStep
<1>2. CASE GatewayNext /\ operate' = operate /\ punctual' = (punctual /\ (now' > now => InTime))
  <2>1. ASSUME NEW tx \in pool, Commit(tx)
        PROVE  OperatorInv' /\ \A c \in Operated : ws'[c].price >= ws[c].price
    BY <1>2, <2>1, CommitStep
  <2>2. ASSUME NEW tx \in pool, Invalidate(tx) \/ GiveUp(tx) \/ Drop(tx)
        PROVE  OperatorInv' /\ ws' = ws
    BY <1>2, <2>2, LostStep
  <2>3. CASE ClockTick
    <3>1. now' > now
      BY <2>3 DEF ClockTick, OperatorInv, OperatorTypes
    <3> QED BY <1>2, <2>3, <3>1, TickStep
  <2> QED BY <1>2, <2>1, <2>2, <2>3 DEF GatewayNext
<1>3. CASE UNCHANGED operatorVars
  <2>1. /\ now' = now /\ ws' = ws /\ pool' = pool /\ reply' = reply /\ operate' = operate
        /\ punctual' = punctual
    BY <1>3 DEF operatorVars, gatewayVars
  <2>2. OperatorTypes'
    BY <2>1 DEF OperatorInv, OperatorTypes
  <2>3. GoroutinesOK'
    <3> SUFFICES ASSUME NEW d \in Operated
                 PROVE  /\ ClockOK(operate'[d], now')
                        /\ PriceOK(operate'[d], ws'[d].price, now', reply'[d].kind)
                        /\ UpdatesFit /\ punctual' => PromptOK(operate'[d], now')
      BY DEF GoroutinesOK, ClockOK, PriceOK, PromptOK
    <3> QED BY <2>1 DEF OperatorInv, GoroutinesOK
  <2>4. UpdatesOK'
    BY <2>1 DEF OperatorInv, UpdatesOK, UpdateOK
  <2> QED BY <2>1, <2>2, <2>3, <2>4 DEF OperatorInv
<1> QED BY <1>1, <1>2, <1>3 DEF OperatorNext

LEMMA OperatorInvHolds == ASSUME TableReaches PROVE OperatorSpec => []OperatorInv
<1>1. OperatorInit => OperatorInv
  BY OperatorStarts
<1>2. OperatorInv /\ [OperatorNext]_operatorVars => OperatorInv'
  BY OperatorMoves
<1> QED BY <1>1, <1>2, PTL DEF OperatorSpec

\* The price of a category on the ledger never goes back to that of an earlier hour:
\* an update the operator gave up and repeated (operatorApp.go:129) is invalidated
\* by the one that took its place, or commits before it.
THEOREM PricesNeverGoBack == ASSUME TableReaches PROVE OperatorSpec => PricesMoveForward
<1>1. OperatorInv /\ [OperatorNext]_operatorVars
        => [\A cat \in Operated : ws'[cat].price >= ws[cat].price]_ws
  BY OperatorMoves
<1> QED BY <1>1, OperatorInvHolds, PTL DEF OperatorSpec, PricesMoveForward

\* No price is on the ledger before its hour has begun, however many updates fail or
\* take longer than an hour; and as long as timers and updates are punctual the
\* price is that of the hour once two latencies of it have passed
\* (operatorApp.go:59-131).
THEOREM PricesKeepTheHour ==
  ASSUME TableReaches, UpdatesFit PROVE OperatorSpec => []PriceOfTheHour
<1>1. OperatorInv => PriceOfTheHour
  <2> SUFFICES ASSUME OperatorInv, NEW c \in Operated
               PROVE  /\ ws[c].price \in {InitPrice} \cup 1..PlaceAt(now)
                      /\ punctual /\ now > 2 * Latency
                           => ws[c].price >= PlaceAt(now - 2 * Latency - 1)
    BY DEF PriceOfTheHour
  <2>1. /\ operate[c] \in Locals /\ ClockOK(operate[c], now) /\ now \in 0..(EndTime + 1)
        /\ ws[c].price \in Nat /\ PriceOK(operate[c], ws[c].price, now, reply[c].kind)
        /\ punctual => PromptOK(operate[c], now)
    BY GoroutineFacts
  <2>2. ws[c].price \in {InitPrice} \cup 1..PlaceAt(now)
    BY <2>1 DEF PriceOK
  <2>3. ASSUME punctual, now > 2 * Latency
        PROVE  ws[c].price >= PlaceAt(now - 2 * Latency - 1)
    <3>1. ~Working(operate[c]) \/ operate[c].fires # 0 => NextPrice(operate[c]) <= ws[c].price + 1
      BY <2>1 DEF PriceOK
    <3> QED BY <2>1, <2>3, <3>1, PromptPrice
  <2> QED BY <2>2, <2>3
<1> QED BY <1>1, OperatorInvHolds, PTL

=============================================================================
