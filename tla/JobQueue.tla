------------------------------ MODULE JobQueue ------------------------------
(***************************************************************************)
(* The REST server of asset-transfer-basic/rest-api-typescript: a request  *)
(* becomes a job in a queue kept by Redis, a worker submits its            *)
(* transaction, and a job that failed is tried again with the same or with *)
(* a new transaction id (src/jobs.ts, src/errors.ts, src/fabric.ts).       *)
(*                                                                         *)
(* The queue library, Redis and Fabric are outside the repository; they    *)
(* are here as far as the server relies on them.                           *)
(***************************************************************************)
EXTENDS Integers, FiniteSets, AssetContract

CONSTANTS
  Jobs,          \* the jobs the queue may ever hold
  Orders,        \* the requests clients may make, a subset of AssetRequests
  Attempts,      \* submitJobAttempts (5 in the code)
  MaxStalls,     \* how often the queue library lets a job stall
  MaxTimeouts,   \* bound on commits that are not announced in time
  MaxRejects,    \* bound on proposals that peers or orderer do not take
  MaxCrashes,    \* bound on crashes of the server
  MaxOthers      \* bound on transactions of other applications

ASSUME JobAssumption ==
  /\ Orders \subseteq AssetRequests
  /\ Attempts \in Nat \ {0}
  /\ MaxStalls \in Nat
  /\ MaxTimeouts \in Nat
  /\ MaxRejects \in Nat
  /\ MaxCrashes \in Nat
  /\ MaxOthers \in Nat

VARIABLES
  assets,   \* the world state
  codes,    \* the validation code of every transaction in a block
  ordered,  \* envelopes the orderer has accepted
  job,      \* job[j]: the record in Redis
  work,     \* work[j]: the call of processSubmitTransactionJob for j
  created,  \* created[j]: how many transactions were created for j
  counts    \* failures so far, of each kind

queueVars == <<assets, codes, ordered, job, work, created, counts>>

\* The n-th transaction created for j; its id holds a nonce.
Tx(j, n) == [job |-> j, n |-> n]
TxIds == [job : Jobs, n : Nat]
NoTx == [job |-> "none", n |-> 0]

NoOrder == [op |-> "none"]
NewJob == [status |-> "none", order |-> NoOrder, saved |-> NoTx, ids |-> {},
           made |-> 0, stalls |-> 0, result |-> "none"]

\* pc follows processSubmitTransactionJob: "process" before the saved state is
\* looked at, "save" before updateJobData, "endorse", "broadcast" and "commit" in
\* submitTransaction, "clear" before the saved state is removed, "throw" before
\* the error leaves the function.
NotRunning == [pc |-> "idle", tx |-> NoTx, value |-> NoAsset, fresh |-> TRUE]

QueueInit ==
  /\ assets \in [AssetIds -> Asset \cup {NoAsset}]
  /\ codes = [t \in {} |-> "VALID"]
  /\ ordered = {}
  /\ job = [j \in Jobs |-> NewJob]
  /\ work = [j \in Jobs |-> NotRunning]
  /\ created = [j \in Jobs |-> 0]
  /\ counts = [timeouts |-> 0, rejects |-> 0, crashes |-> 0, others |-> 0]

At(j, pc) == job[j].status = "active" /\ work[j].pc = pc
Goto(j, pc) == work' = [work EXCEPT ![j].pc = pc]

-----------------------------------------------------------------------------
(* The queue.                                                               *)

\* A route of assets.router.ts: addSubmitTransactionJob.
AddJob(j) ==
  /\ job[j].status = "none"
  /\ \E order \in Orders :
       job' = [job EXCEPT ![j].status = "waiting", ![j].order = order]
  /\ UNCHANGED <<assets, codes, ordered, work, created, counts>>

\* The worker takes up to submitJobConcurrency jobs at a time.
TakeJob(j) ==
  /\ job[j].status = "waiting"
  /\ job' = [job EXCEPT ![j].status = "active"]
  /\ Goto(j, "process")
  /\ UNCHANGED <<assets, codes, ordered, created, counts>>

\* The delay of the backoff is over; the scheduler moves the job back.
Retry(j) ==
  /\ job[j].status = "delayed"
  /\ job' = [job EXCEPT ![j].status = "waiting"]
  /\ UNCHANGED <<assets, codes, ordered, work, created, counts>>

\* The function threw: there is another attempt, or the job has failed.
Throw(j) ==
  /\ At(j, "throw")
  /\ job' = [job EXCEPT
               ![j].made = @ + 1,
               ![j].status = IF job[j].made + 1 < Attempts THEN "delayed" ELSE "failed"]
  /\ work' = [work EXCEPT ![j] = NotRunning]
  /\ UNCHANGED <<assets, codes, ordered, created, counts>>

\* The server dies and starts again: what its calls held is gone.
Crash ==
  /\ counts.crashes < MaxCrashes
  /\ \E j \in Jobs : work[j] # NotRunning
  /\ work' = [j \in Jobs |-> NotRunning]
  /\ counts' = [counts EXCEPT !.crashes = @ + 1]
  /\ UNCHANGED <<assets, codes, ordered, job, created>>

\* Mutant: no scheduler runs.
StalledUnseen(j) == FALSE

\* The scheduler finds an active job nobody works on.
Stalled(j) ==
  /\ At(j, "idle")
  /\ \/ /\ job[j].stalls < MaxStalls
        /\ job' = [job EXCEPT ![j].stalls = @ + 1, ![j].status = "waiting"]
     \/ /\ job[j].stalls >= MaxStalls
        /\ job' = [job EXCEPT ![j].status = "failed"]
  /\ UNCHANGED <<assets, codes, ordered, work, created, counts>>

-----------------------------------------------------------------------------
(* processSubmitTransactionJob.                                             *)

Completes(j, result) ==
  /\ job' = [job EXCEPT ![j].status = "completed", ![j].result = result]
  /\ work' = [work EXCEPT ![j] = NotRunning]

\* deserializeTransaction if there is a saved state, else createTransaction.
UseTransaction(j) ==
  /\ At(j, "process")
  /\ \/ /\ job[j].saved # NoTx
        /\ work' = [work EXCEPT ![j].pc = "endorse", ![j].tx = job[j].saved]
        /\ UNCHANGED created
     \/ /\ job[j].saved = NoTx
        /\ work' = [work EXCEPT ![j].pc = "save", ![j].tx = Tx(j, created[j] + 1)]
        /\ created' = [created EXCEPT ![j] = @ + 1]
  /\ UNCHANGED <<assets, codes, ordered, job, counts>>

\* Mutant: the state is saved, the id is not added.
SaveTransactionOnly(j) ==
  /\ At(j, "save")
  /\ job' = [job EXCEPT ![j].saved = work[j].tx]
  /\ Goto(j, "endorse")
  /\ UNCHANGED <<assets, codes, ordered, created, counts>>

\* updateJobData with the new transaction: id and state in one update.
SaveTransaction(j) ==
  /\ At(j, "save")
  /\ job' = [job EXCEPT ![j].saved = work[j].tx, ![j].ids = @ \cup {work[j].tx}]
  /\ Goto(j, "endorse")
  /\ UNCHANGED <<assets, codes, ordered, created, counts>>

\* A peer refuses to endorse a transaction id that is in a block.
Endorses(tx) == tx \notin DOMAIN codes

\* RetryAction.None: a contract error or a duplicate ends the job with an error.
\* Otherwise the endorsed transaction is about to be sent.
Endorse(j) ==
  /\ At(j, "endorse")
  /\ LET out == ExecuteAsset(assets, job[j].order) IN
       \/ /\ ~Endorses(work[j].tx)
          /\ Completes(j, "duplicate")
       \/ /\ Endorses(work[j].tx) /\ out.err
          /\ Completes(j, "refused")
       \/ /\ Endorses(work[j].tx) /\ ~out.err
          /\ work' = [work EXCEPT ![j].pc = "broadcast", ![j].value = out.value,
                                   ![j].fresh = TRUE]
          /\ UNCHANGED job
  /\ UNCHANGED <<assets, codes, ordered, created, counts>>

\* Peers do not answer in time, or not alike, or the orderer turns the envelope
\* down.  The error is no TimeoutError: RetryAction.WithNewTransactionId.
Rejected(j) ==
  /\ At(j, "endorse") \/ At(j, "broadcast")
  /\ counts.rejects < MaxRejects
  /\ counts' = [counts EXCEPT !.rejects = @ + 1]
  /\ Goto(j, "clear")
  /\ UNCHANGED <<assets, codes, ordered, job, created>>

\* The orderer has accepted the envelope; the event listener is already set up.
Broadcast(j) ==
  /\ At(j, "broadcast")
  /\ ordered' = ordered \cup {[tx |-> work[j].tx, id |-> job[j].order.id,
                               value |-> work[j].value, fresh |-> work[j].fresh]}
  /\ work' = [work EXCEPT ![j].pc = "commit", ![j].value = NoAsset, ![j].fresh = TRUE]
  /\ UNCHANGED <<assets, codes, job, created, counts>>

\* Mutant: a timeout is handled like every other error.
CommitTimeoutForgets(j) ==
  /\ At(j, "commit")
  /\ counts.timeouts < MaxTimeouts
  /\ counts' = [counts EXCEPT !.timeouts = @ + 1]
  /\ Goto(j, "clear")
  /\ UNCHANGED <<assets, codes, ordered, job, created>>

\* TimeoutError: RetryAction.WithExistingTransactionId.
CommitTimeout(j) ==
  /\ At(j, "commit")
  /\ counts.timeouts < MaxTimeouts
  /\ counts' = [counts EXCEPT !.timeouts = @ + 1]
  /\ Goto(j, "throw")
  /\ UNCHANGED <<assets, codes, ordered, job, created>>

\* updateJobData without a transaction.
ClearTransaction(j) ==
  /\ At(j, "clear")
  /\ job' = [job EXCEPT ![j].saved = NoTx]
  /\ Goto(j, "throw")
  /\ UNCHANGED <<assets, codes, ordered, created, counts>>

-----------------------------------------------------------------------------
(* Fabric.  An endorsement is fresh until the key it read is written.       *)

Code(e) ==
  IF e.tx \in DOMAIN codes THEN "DUPLICATE_TXID"
  ELSE IF e.fresh THEN "VALID" ELSE "MVCC_READ_CONFLICT"

\* The key id is written: older endorsements of it are stale.
Older(j, id) == work[j].pc = "broadcast" /\ job[j].order.id = id
AgedEnvelopes(S, id) == {[e EXCEPT !.fresh = @ /\ e.id # id] : e \in S}
AgedWork(j, id) == IF Older(j, id) THEN [work[j] EXCEPT !.fresh = FALSE] ELSE work[j]

\* What the commit event makes of the call that waits for it: an invalid
\* transaction that is no duplicate gets a new id.
Told(j, code) ==
  IF code = "MVCC_READ_CONFLICT" THEN [work[j] EXCEPT !.pc = "clear"] ELSE NotRunning

ResultOf(code) == IF code = "VALID" THEN "payload" ELSE "duplicate"

Waits(j, e) == At(j, "commit") /\ work[j].tx = e.tx

\* An envelope gets into a block, and the peers tell who waits for it.
CommitEnvelope(e) ==
  LET code  == Code(e)
      valid == code = "VALID"
  IN
  /\ e \in ordered
  /\ codes' = [t \in DOMAIN codes \cup {e.tx} |-> IF t \in DOMAIN codes THEN codes[t] ELSE code]
  /\ assets' = IF valid THEN [assets EXCEPT ![e.id] = e.value] ELSE assets
  /\ ordered' = IF valid THEN AgedEnvelopes(ordered \ {e}, e.id) ELSE ordered \ {e}
  /\ job' = [j \in Jobs |->
               IF Waits(j, e) /\ code # "MVCC_READ_CONFLICT"
               THEN [job[j] EXCEPT !.status = "completed", !.result = ResultOf(code)]
               ELSE job[j]]
  /\ work' = [j \in Jobs |-> IF Waits(j, e) THEN Told(j, code)
                             ELSE IF valid THEN AgedWork(j, e.id) ELSE work[j]]
  /\ UNCHANGED <<created, counts>>

\* Another application of the same channel changes an asset.
Elsewhere ==
  /\ counts.others < MaxOthers
  /\ counts' = [counts EXCEPT !.others = @ + 1]
  /\ \E req \in AssetRequests :
       LET out == ExecuteAsset(assets, req) IN
       /\ ~out.err
       /\ assets' = [assets EXCEPT ![req.id] = out.value]
       /\ ordered' = AgedEnvelopes(ordered, req.id)
       /\ work' = [j \in Jobs |-> AgedWork(j, req.id)]
  /\ UNCHANGED <<codes, job, created>>

-----------------------------------------------------------------------------
\* What the server does by itself once it has a job.
WorkerStep(j) ==
  \/ TakeJob(j)
  \/ Retry(j)
  \/ Stalled(j)
  \/ UseTransaction(j)
  \/ SaveTransaction(j)
  \/ Endorse(j)
  \/ Broadcast(j)
  \/ ClearTransaction(j)
  \/ Throw(j)

QueueNext ==
  \/ \E j \in Jobs : AddJob(j)
  \/ \E j \in Jobs : WorkerStep(j)
  \/ \E j \in Jobs : Rejected(j)
  \/ \E j \in Jobs : CommitTimeout(j)
  \/ \E e \in ordered : CommitEnvelope(e)
  \/ Crash
  \/ Elsewhere

QueueSpec == QueueInit /\ [][QueueNext]_queueVars

\* The server runs, the queue library keeps its schedule, and the orderer puts
\* into blocks what it has accepted.  No client has to ask, nothing has to fail.
QueueFairness ==
  /\ \A j \in Jobs : WF_queueVars(WorkerStep(j))
  /\ WF_queueVars(\E e \in ordered : CommitEnvelope(e))

FairQueueSpec == QueueSpec /\ QueueFairness

-----------------------------------------------------------------------------
\* The transactions of a job that took effect.
Effective(j) == {t \in DOMAIN codes : t.job = j /\ codes[t] = "VALID"}

\* What a client asked for once happens at most once, whatever times out, is
\* lost in a crash or is retried: "Transactions should be retried using the same
\* transaction ID to protect against duplicate transactions being committed if a
\* timeout error occurs" (errors.ts:72).  It does not hold: an attempt with the
\* saved id that fails in another way gives the id up (errors.ts:112), although the
\* envelope of the attempt before it may still commit.
AppliedOnce ==
  \A j \in Jobs : \A t, u \in Effective(j) : t = u

\* As long as no proposal or envelope is turned down, nothing happens twice: after
\* timeouts, conflicts, crashes and stalls alike (the state is saved before the
\* transaction is sent, jobs.ts:159, and cleared only for an invalid one).
AppliedOnceUnlessRejected == counts.rejects = 0 => AppliedOnce

\* A client that reads its job can find out what became of it: every transaction
\* that took effect is among the job's ids, a payload means that one did, and, as
\* long as nothing was turned down, an error of the contract means that none did
\* (jobs.ts:159 and 176, transactions.router.ts:28).
SummaryTellsTruth ==
  \A j \in Jobs :
    /\ Effective(j) \subseteq job[j].ids
    /\ job[j].result = "payload" => Effective(j) # {}
    /\ job[j].result = "refused" /\ counts.rejects = 0 => Effective(j) = {}

\* Every job the queue has accepted is completed or has failed at last, also
\* when the server dies on the way (the backoff, jobs.ts:62, and the scheduler for
\* stalled jobs, jobs.ts:217).
JobsEnd ==
  \A j \in Jobs : job[j].status = "waiting" ~> job[j].status \in {"completed", "failed"}

=============================================================================
