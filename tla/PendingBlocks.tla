---------------------------- MODULE PendingBlocks ----------------------------
(***************************************************************************)
(* The block listener of off_chain_data/legacy-application-javascript:     *)
(* blocks arrive in a map, are processed in order of the number kept in    *)
(* nextblock.txt, and their writes go to a log file and to two tables of   *)
(* CouchDB (blockEventListener.js, blockProcessing.js, couchdbutil.js).    *)
(*                                                                         *)
(* CouchDB keeps a revision with every record, and refuses to write or     *)
(* delete one whose revision is not the given one.                         *)
(***************************************************************************)
EXTENDS ChainEvents, FiniteSets

CONSTANT MaxRestarts   \* bound on the times the process dies

ASSUME PendingAssumption == MaxRestarts \in Nat

VARIABLES
  nextBlock,  \* nextblock.txt
  pending,    \* ProcessingMap: the numbers of the blocks in it
  nextEvent,  \* the block the peer delivers next
  done,       \* the writes of the block that have been processed so far
  log,        \* the log file: a place for every line
  table,      \* the world state table: a revision and the write it comes from
  history,    \* the history table
  calls,      \* requests to CouchDB that are not answered
  listening,  \* the process is up
  restarts

pendingVars == <<chain, nextBlock, pending, nextEvent, done, log, table, history, calls,
                 listening, restarts>>

\* A record that was deleted leaves its revision behind.
NoRecord == [rev |-> 0, live |-> FALSE, by |-> <<>>]
RevOf(k) == IF table[k].live THEN table[k].rev ELSE 0

\* The writes of the valid transactions of a block, by their place.
WritesOf(b) ==
  UNION {[block : {b}, index : {i}, write : DOMAIN chain[b][i].writes] :
           i \in {n \in DOMAIN chain[b] : chain[b][n].valid}}

Precede(v, w) == v.index < w.index \/ (v.index = w.index /\ v.write < w.write)

WriteAt(w) == chain[w.block][w.index].writes[w.write]

PendingInit ==
  /\ chain \in Chains
  /\ nextBlock = 0
  /\ pending = {}
  /\ nextEvent = 0
  /\ done = {}
  /\ log = <<>>
  /\ table = [k \in StateKeys |-> NoRecord]
  /\ history = {}
  /\ calls = {}
  /\ listening = FALSE
  /\ restarts = 0

-----------------------------------------------------------------------------
\* main: read nextblock.txt and listen from there on.
StartListener ==
  /\ ~listening
  /\ listening' = TRUE
  /\ nextEvent' = nextBlock
  /\ UNCHANGED <<chain, nextBlock, pending, done, log, table, history, calls, restarts>>

\* The listener puts the block into the map.
AddPending ==
  /\ listening
  /\ nextEvent \in DOMAIN chain
  /\ pending' = pending \cup {nextEvent}
  /\ nextEvent' = nextEvent + 1
  /\ UNCHANGED <<chain, nextBlock, done, log, table, history, calls, listening, restarts>>

\* The loop has the block nextblock.txt asks for.
PendingNow == listening /\ nextBlock \in pending

NewCalls(w) ==
  {[kind |-> "get", write |-> w, rev |-> 0], [kind |-> "history", write |-> w, rev |-> 0]}

\* The transactions of the block and their writes are processed in order.
NextWrite ==
  LET left == WritesOf(nextBlock) \ done
  IN  CHOOSE w \in left : \A v \in left : v = w \/ Precede(w, v)

\* One line for a transaction, before its first write goes to CouchDB.
LogLines(w) == IF w.write = 1 THEN <<[block |-> w.block, index |-> w.index]>> ELSE <<>>

\* writeValuesToCouchDBP: writeToCouchDB and deleteRecord are awaited, and
\* resolve before their requests are answered.
ProcessWrite ==
  /\ PendingNow
  /\ done # WritesOf(nextBlock)
  /\ log' = log \o LogLines(NextWrite)
  /\ calls' = calls \cup NewCalls(NextWrite)
  /\ done' = done \cup {NextWrite}
  /\ UNCHANGED <<chain, nextBlock, pending, nextEvent, table, history, listening, restarts>>

\* Mutant: the processing of the block is not awaited.
BlockDoneUnawaited ==
  /\ PendingNow
  /\ WritesOf(nextBlock) # {} => done # {}
  /\ done' = {}
  /\ pending' = pending \ {nextBlock}
  /\ nextBlock' = nextBlock + 1
  /\ UNCHANGED <<chain, nextEvent, log, table, history, calls, listening, restarts>>

\* The block is done: nextblock.txt is written, the block leaves the map.
BlockDone ==
  /\ PendingNow
  /\ done = WritesOf(nextBlock)
  /\ done' = {}
  /\ pending' = pending \ {nextBlock}
  /\ nextBlock' = nextBlock + 1
  /\ UNCHANGED <<chain, nextEvent, log, table, history, calls, listening, restarts>>

-----------------------------------------------------------------------------
(* CouchDB answers requests in any order.                                   *)

\* The record is read; a record to delete that is not there ends the request.
Found(c) ==
  LET isDelete == WriteAt(c.write).isDelete
      rev      == RevOf(WriteAt(c.write).key)
      next     == [c EXCEPT !.rev = rev, !.kind = IF isDelete THEN "destroy" ELSE "insert"]
  IN
  /\ c.kind = "get"
  /\ calls' = (calls \ {c}) \cup (IF isDelete /\ rev = 0 THEN {} ELSE {next})
  /\ UNCHANGED <<table, history>>

\* The record is written or deleted if it has the revision that was read;
\* otherwise CouchDB reports a conflict, to a promise that is resolved already.
Written(c) ==
  LET k == WriteAt(c.write).key IN
  /\ c.kind \in {"insert", "destroy"}
  /\ calls' = calls \ {c}
  /\ table' = IF RevOf(k) # c.rev THEN table
              ELSE [table EXCEPT ![k] = [rev |-> @.rev + 1, live |-> c.kind = "insert",
                                         by |-> <<c.write>>]]
  /\ UNCHANGED history

HistoryWritten(c) ==
  /\ c.kind = "history"
  /\ calls' = calls \ {c}
  /\ history' = history \cup {c.write}
  /\ UNCHANGED table

Answered ==
  /\ \E c \in calls : Found(c) \/ Written(c) \/ HistoryWritten(c)
  /\ UNCHANGED <<chain, nextBlock, pending, nextEvent, done, log, listening, restarts>>

\* The process dies.  What it has sent and is not answered is lost.
StopListener ==
  /\ listening
  /\ restarts < MaxRestarts
  /\ restarts' = restarts + 1
  /\ listening' = FALSE
  /\ pending' = {}
  /\ nextEvent' = 0
  /\ done' = {}
  /\ calls' = {}
  /\ UNCHANGED <<chain, nextBlock, log, table, history>>

PendingSteps == StartListener \/ AddPending \/ ProcessWrite \/ BlockDone \/ Answered

PendingNext == PendingSteps \/ StopListener

PendingSpec == PendingInit /\ [][PendingNext]_pendingVars

-----------------------------------------------------------------------------
Logged(p) == {i \in DOMAIN log : log[i] = p}

\* The log file misses no transaction of a block that nextblock.txt counts as
\* done, and has the transactions in the order of the ledger, except that a block
\* under way when the process died is there from its beginning once more
\* (blockProcessing.js:104 appends before nextblock.txt is written at line 120).
LogFollowsLedger ==
  /\ \A p \in ValidPlaces : p.block < nextBlock /\ TxAt(p).writes # <<>> => Logged(p) # {}
  /\ \A i, j \in DOMAIN log : i < j =>
       /\ log[i].block <= log[j].block
       /\ Before(log[j], log[i]) => \E m \in 1..(i - 1) : log[m] = log[j]

\* The write a key's value in the world state comes from.
LastWrites(k) ==
  LET writes == {w \in UNION {WritesOf(b) : b \in DOMAIN chain} : WriteAt(w).key = k}
  IN  {w \in writes : \A v \in writes : v = w \/ Before(v, w)}

\* "If the listener is running, this table should be the same as the latest
\* values in the state database running on your peer" (README.md:172, off_chain_data/
\* legacy-application-javascript), here only once every block is processed and every
\* request is answered.  It does not hold: two requests for a key are under way at
\* the same time, since neither writeToCouchDB nor deleteRecord waits for its own
\* (couchdbutil.js:72 and 108), and the later one reads what the earlier one is to change.
OfflineStateIsCurrent ==
  nextBlock \notin DOMAIN chain /\ calls = {} /\ restarts = 0 =>
    \A k \in StateKeys : \A w \in LastWrites(k) :
      /\ table[k].live = ~WriteAt(w).isDelete
      /\ table[k].live => table[k].by = <<w>>

=============================================================================
