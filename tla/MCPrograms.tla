------------------------------ MODULE MCPrograms ------------------------------
(* Seven programs that do not meet, each on an instance of its own.  Which one  *)
(* runs is chosen at the start; the state of the others is fixed then.         *)
EXTENDS AuctionEndLoop, ReportWindows, JobQueue, BlockListener, PendingBlocks,
        Operator, SplitMarket

CONSTANTS solar, wind, e1, u1, t1, t2, t3, a1, o1, o2, d1, j1, k1, k2

VARIABLE program

\* The earlier market: one token of two units, a consumer who wants both of them
\* and one nearby who wants one; two bids, or one and a fault.
MCMakers == [g \in {e1} |-> u1]
MCOutput == [g \in {e1} |-> 2]
MCGoals == [c \in {solar, wind} |-> IF c = solar THEN 2 ELSE 1]

allVars == <<program, loopVars, reportVars, queueVars, listenerVars, pendingVars, operatorVars, splitVars>>

\* Lists of up to three bids.
MCOffers == [bidAmount : {1, 2}, price : {1, 2}, prio : {1, 2}, time : {1, 2}]

\* Three tokens in two hours of six units of time, which can be split in 2, 3
\* and 6, before, or after them.
MCStamps == 0..14

\* One job; other applications change the asset it is about.
MCOrders ==
  {[op |-> "CreateAsset", id |-> a1, details |-> d1, owner |-> o1],
   [op |-> "TransferAsset", id |-> a1, owner |-> o2],
   [op |-> "DeleteAsset", id |-> a1]}

\* An invalid transaction, one without writes, and valid ones that write or
\* delete one key or both.
Put1(k) == [key |-> k, isDelete |-> FALSE]
Del1(k) == [key |-> k, isDelete |-> TRUE]
MCKinds ==
  {[valid |-> FALSE, writes |-> <<Put1(k1)>>],
   [valid |-> TRUE, writes |-> <<>>],
   [valid |-> TRUE, writes |-> <<Put1(k1)>>],
   [valid |-> TRUE, writes |-> <<Put1(k2), Del1(k1)>>]}

LoopRests == bid = <<[bidAmount |-> 1, price |-> 1, prio |-> 1, time |-> 1]>> /\ output = 1
ReportRests == stamp = [t \in Tokens |-> 0]
QueueRests == assets = [a \in AssetIds |-> NoAsset]
ChainRests == chain = <<>>

\* Chains for the legacy listener: a request to CouchDB multiplies its states.
WritesOfChain == UNION {WritesOf(b) : b \in DOMAIN chain}
LongBlock == <<[valid |-> TRUE, writes |-> <<Put1(k1)>>],
               [valid |-> TRUE, writes |-> <<Put1(k2), Del1(k1)>>]>>
FewWrites == Cardinality(WritesOfChain) <= 2 \/ (DOMAIN chain = {0} /\ chain[0] = LongBlock)

MCInit ==
  /\ program \in {"loop", "report", "queue", "listener", "pending", "operator", "earlier"}
  /\ OperatorInit
  /\ SplitInit
  /\ (program # "loop" => LoopRests) /\ LoopInit
  /\ (program # "report" => ReportRests) /\ ReportInit
  /\ (program # "queue" => QueueRests) /\ QueueInit
  /\ (program \notin {"listener", "pending"} => ChainRests) /\ ListenerInit /\ PendingInit
  /\ program = "pending" => FewWrites

MCNext ==
  /\ UNCHANGED program
  /\ \/ program = "loop" /\ LoopNext
        /\ UNCHANGED <<reportVars, queueVars, listenerVars, pendingVars, operatorVars, splitVars>>
     \/ program = "report" /\ ReportNext
        /\ UNCHANGED <<loopVars, queueVars, listenerVars, pendingVars, operatorVars, splitVars>>
     \/ program = "queue" /\ QueueNext
        /\ UNCHANGED <<loopVars, reportVars, listenerVars, pendingVars, operatorVars, splitVars>>
     \/ program = "listener" /\ ListenerNext
        /\ UNCHANGED <<loopVars, reportVars, queueVars, pendingVars, operatorVars, splitVars>>
     \/ program = "pending" /\ PendingNext
        /\ UNCHANGED <<loopVars, reportVars, queueVars, listenerVars, operatorVars, splitVars>>
     \/ program = "operator" /\ OperatorNext
        /\ UNCHANGED <<loopVars, reportVars, queueVars, listenerVars, pendingVars, splitVars>>
     \/ program = "earlier" /\ SplitNext
        /\ UNCHANGED <<loopVars, reportVars, queueVars, listenerVars, pendingVars, operatorVars>>

\* Each program has the fairness of its own module.
MCFairness ==
  /\ WF_reportVars(program = "report" /\ ReportNext)
  /\ \A j \in Jobs : WF_queueVars(program = "queue" /\ WorkerStep(j))
  /\ WF_queueVars(program = "queue" /\ \E e \in ordered : CommitEnvelope(e))
  /\ WF_listenerVars(program = "listener" /\ Listening)
  /\ WF_pendingVars(program = "pending" /\ PendingSteps)

MCSpec == MCInit /\ [][MCNext]_allVars /\ MCFairness

\* The reporting program finishes, unless more tokens than an answer may have are
\* of one instant (ReportWindows.ReportEnds; producerDB.go:221-308).
ReportFinishes == program = "report" => ReportEnds

\* A listener that is started again after every failure stores the whole chain
\* (BlockListener.ListenerCatchesUp; listen.ts).
ListenerFinishes == program = "listener" => ListenerCatchesUp

=============================================================================
