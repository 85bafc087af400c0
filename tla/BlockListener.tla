---------------------------- MODULE BlockListener ----------------------------
(***************************************************************************)
(* The listen command of off_chain_data/application-typescript             *)
(* (src/listen.ts): it copies the writes of valid transactions to a store  *)
(* outside the ledger, remembers in a file how far it got, and goes on     *)
(* from there when it is started again.                                    *)
(***************************************************************************)
EXTENDS ChainEvents, FiniteSetsExt

CONSTANT MaxFailures   \* bound on the times the process dies

ASSUME ListenerAssumption == MaxFailures \in Nat

VARIABLES
  store,      \* the entries appended to the store file
  checkpoint, \* the checkpoint file: a block, and the last transaction done in it
  phase,      \* where the process is; "down" when there is none
  at,         \* the number of the block it waits for or works on
  toDo,       \* the indices of the transactions of the block it has still to process
  failures

listenerVars == <<chain, store, checkpoint, phase, at, toDo, failures>>

NoneDone == 0

ListenerInit ==
  /\ chain \in Chains
  /\ store = <<>>
  /\ checkpoint = [block |-> 0, tx |-> NoneDone]
  /\ phase = "down"
  /\ at = 0
  /\ toDo = {}
  /\ failures = 0

PlaceNow(i) == [block |-> at, index |-> i]

-----------------------------------------------------------------------------
\* main: ask for the events from the checkpoint on.
StartEvents ==
  /\ phase = "down"
  /\ phase' = "await"
  /\ at' = checkpoint.block
  /\ UNCHANGED <<chain, store, checkpoint, toDo, failures>>

\* #getNewTransactions: those after the last one processed.
NewTransactions(n) == (checkpoint.tx + 1)..n

\* The valid ones among them.
ToProcess == {i \in NewTransactions(Len(chain[at])) : chain[at][i].valid}

\* They are processed in their order.
FirstToDo == Min(toDo)

\* A block arrives; BlockProcessor.process begins.
Receive ==
  /\ phase = "await"
  /\ at \in DOMAIN chain
  /\ toDo' = ToProcess
  /\ phase' = "process"
  /\ UNCHANGED <<chain, store, checkpoint, at, failures>>

\* TransactionProcessor.process: append the writes, if there are any.
Store ==
  /\ phase = "process"
  /\ toDo # {}
  /\ store' = store \o Entries(PlaceNow(FirstToDo))
  /\ phase' = "mark"
  /\ UNCHANGED <<chain, checkpoint, at, toDo, failures>>

CheckpointTransaction ==
  /\ phase = "mark"
  /\ checkpoint' = [block |-> at, tx |-> FirstToDo]
  /\ toDo' = toDo \ {FirstToDo}
  /\ phase' = "process"
  /\ UNCHANGED <<chain, store, at, failures>>

\* Mutant: the next block starts where this one ended.
CheckpointBlockKeepsTx ==
  /\ phase = "process"
  /\ toDo = {}
  /\ checkpoint' = [checkpoint EXCEPT !.block = at + 1]
  /\ at' = at + 1
  /\ phase' = "await"
  /\ UNCHANGED <<chain, store, toDo, failures>>

\* Mutant: only transactions are checkpointed.
CheckpointBlockNever ==
  /\ phase = "process"
  /\ toDo = {}
  /\ at' = at + 1
  /\ phase' = "await"
  /\ UNCHANGED <<chain, store, checkpoint, toDo, failures>>

CheckpointBlock ==
  /\ phase = "process"
  /\ toDo = {}
  /\ checkpoint' = [block |-> at + 1, tx |-> NoneDone]
  /\ at' = at + 1
  /\ phase' = "await"
  /\ UNCHANGED <<chain, store, toDo, failures>>

ListenerDown ==
  /\ failures < MaxFailures
  /\ failures' = failures + 1
  /\ phase' = "down"
  /\ at' = 0
  /\ toDo' = {}
  /\ UNCHANGED <<chain, checkpoint>>

\* The process ends anywhere: a simulated or a real failure to write, or a crash.
ListenerFails ==
  /\ phase # "down"
  /\ ListenerDown
  /\ UNCHANGED store

\* It ends while it appends, and some lines are written.
TornStore ==
  /\ phase = "process"
  /\ toDo # {}
  /\ LET entries == Entries(PlaceNow(FirstToDo))
     IN  \E n \in 1..(Len(entries) - 1) : store' = store \o SubSeq(entries, 1, n)
  /\ ListenerDown

Listening == StartEvents \/ Receive \/ Store \/ CheckpointTransaction \/ CheckpointBlock

ListenerNext == Listening \/ ListenerFails \/ TornStore

ListenerSpec == ListenerInit /\ [][ListenerNext]_listenerVars

\* The process runs, and somebody starts it again.
FairListenerSpec == ListenerSpec /\ WF_listenerVars(Listening)

-----------------------------------------------------------------------------
\* What the checkpoint says is done.
Checkpointed(p) ==
  \/ p.block < checkpoint.block
  \/ p.block = checkpoint.block /\ p.index <= checkpoint.tx

InStore(e) == \E i \in DOMAIN store : store[i] = e

\* Wherever the process dies and however often it is started again, the store
\* has all writes of the transactions the checkpoint counts as done, in the order
\* of the ledger, and beyond them at most those of the one transaction under way:
\* whoever reads the store up to there finds the last value of every key ("the
\* listener resumes from exactly after the last successfully processed
\* transaction", off_chain_data/README.md:87).
StoreFollowsLedger ==
  /\ \A p \in ValidPlaces : Checkpointed(p) =>
       \A i \in DOMAIN TxAt(p).writes : InStore(Entries(p)[i])
  /\ \A i \in DOMAIN store :
       ~Checkpointed(store[i].tx) => \A p \in ValidPlaces : Before(p, store[i].tx) => Checkpointed(p)
  /\ \A i, j \in DOMAIN store : i < j => ~Before(store[j].tx, store[i].tx)

\* The listener gets to the end of the chain at last, and stays there.
ListenerCatchesUp == <>[](checkpoint.block \notin DOMAIN chain)

=============================================================================
