---------------------------- MODULE FabricGateway ----------------------------
(***************************************************************************)
(* What the applications see of Hyperledger Fabric through the gateway     *)
(* client, contract.SubmitTransaction and contract.EvaluateTransaction:    *)
(*                                                                         *)
(*   - a submitted transaction is simulated by a peer on the committed     *)
(*     state, waits in the ordering service, and is committed later;       *)
(*   - it is invalid when a key it read was written in between;            *)
(*   - a call may fail although its transaction is still under way: the    *)
(*     client gives up waiting, and the transaction commits afterwards or  *)
(*     never.                                                              *)
(*                                                                         *)
(* The module also has the simulated clock, which every program computes   *)
(* from its own: (time.Now() - Diff - StartTime) * Speed + StartTime.      *)
(***************************************************************************)
EXTENDS EnergyContract

CONSTANTS
  Clients,    \* the goroutines that submit transactions
  EndTime,    \* the end of the simulation; the clock stops just after it
  MaxFaults   \* bound on the calls that fail without a reason in the ledger

ASSUME GatewayAssumption ==
  /\ EndTime \in Nat
  /\ MaxFaults \in Nat

VARIABLES
  now,     \* the simulated clock
  ws,      \* the committed world state
  pool,    \* endorsed transactions that are not committed yet
  reply,   \* what the last call of a client returned
  faults,  \* failed calls so far
  crashed  \* the one process all clients run in (simulation.go) has panicked

gatewayVars == <<now, ws, pool, reply, faults>>

NoReply == [kind |-> "none", msg |-> ""]
Failed == [kind |-> "error", msg |-> "error"]
Succeeded(msg) == [kind |-> "ok", msg |-> msg]

\* A client waits for at most one transaction; the ones it gave up on keep
\* its name but are not awaited.
Awaited(c) == {tx \in pool : tx.client = c /\ tx.awaited}

\* The operator's InitLedger has committed before anything else starts
\* (simulation.go:48).
GatewayInit ==
  /\ now = 0
  /\ ws = Apply(EmptyState, InitLedger(EmptyState).writes)
  /\ pool = {}
  /\ reply = [c \in Clients |-> NoReply]
  /\ faults = 0
  /\ crashed = FALSE

-----------------------------------------------------------------------------
(* The calls, to be conjoined with the step of the client that makes them.  *)

\* SubmitTransaction: a chaincode error comes back at once, a result is
\* ordered.  The reply is what the client reads in its next step.
Submit(c, req) ==
  /\ LET out == Execute(ws, req) IN
       \/ /\ out.err
          /\ reply' = [reply EXCEPT ![c] = Failed]
          /\ pool' = pool
       \/ /\ ~out.err
          /\ reply' = [reply EXCEPT ![c] = NoReply]
          /\ pool' = pool \cup
               {[client |-> c, req |-> req, reads |-> out.reads, writes |-> out.writes,
                 msg |-> out.msg, stale |-> FALSE, awaited |-> TRUE]}
  /\ UNCHANGED <<now, ws, faults>>

\* The client has read the reply.
TakeReply(c) ==
  /\ reply' = [reply EXCEPT ![c] = NoReply]
  /\ UNCHANGED <<now, ws, pool, faults>>

\* EvaluateTransaction reads the committed state and changes nothing.
Evaluate == UNCHANGED gatewayVars

\* EvaluateTransaction fails.
EvaluateFails ==
  /\ faults < MaxFaults
  /\ faults' = faults + 1
  /\ UNCHANGED <<now, ws, pool, reply>>

-----------------------------------------------------------------------------
(* Steps of the network.                                                    *)

Answer(tx, r) ==
  reply' = IF tx.awaited THEN [reply EXCEPT ![tx.client] = r] ELSE reply

\* Mutant: no read is validated.
RemainingUnchecked(tx) == pool \ {tx}

\* The rest of the pool once tx has written its keys.
Remaining(tx) ==
  {[other EXCEPT !.stale = @ \/ other.reads \cap DOMAIN tx.writes # {}] :
     other \in pool \ {tx}}

Commit(tx) ==
  /\ ~tx.stale
  /\ ws' = Apply(ws, tx.writes)
  /\ pool' = Remaining(tx)
  /\ Answer(tx, Succeeded(tx.msg))
  /\ UNCHANGED <<now, faults>>

\* MVCC_READ_CONFLICT
Invalidate(tx) ==
  /\ tx.stale
  /\ pool' = pool \ {tx}
  /\ Answer(tx, Failed)
  /\ UNCHANGED <<now, ws, faults>>

\* The answer is late or lost; the transaction stays where it is.
GiveUp(tx) ==
  /\ tx.awaited
  /\ faults < MaxFaults
  /\ faults' = faults + 1
  /\ pool' = (pool \ {tx}) \cup {[tx EXCEPT !.awaited = FALSE]}
  /\ reply' = [reply EXCEPT ![tx.client] = Failed]
  /\ UNCHANGED <<now, ws>>

\* A transaction nobody waits for never reaches the orderer.
Drop(tx) ==
  /\ ~tx.awaited
  /\ pool' = pool \ {tx}
  /\ UNCHANGED <<now, ws, reply, faults>>

ClockTick ==
  /\ now <= EndTime
  /\ now' = now + 1
  /\ UNCHANGED <<ws, pool, reply, faults>>

GatewayNext ==
  /\ \/ \E tx \in pool : Commit(tx)
     \/ \E tx \in pool : Invalidate(tx)
     \/ \E tx \in pool : GiveUp(tx)
     \/ \E tx \in pool : Drop(tx)
     \/ ClockTick
  /\ UNCHANGED crashed

\* The orderer delivers a transaction somebody waits for.
Deliver == (\E tx \in pool : tx.awaited /\ (Commit(tx) \/ Invalidate(tx))) /\ UNCHANGED crashed

-----------------------------------------------------------------------------
\* What a call returns: nothing yet, an error, or one of the contract's answers.
Messages ==
  {"", "error", "created", "bids", OldMessage, "energy amount is wrong", "the energy is alive",
   "energy ID is wrong", "bid amount is wrong", "auction end", "auction continue"}

GatewayTypeOK ==
  /\ now \in 0..(EndTime + 1)
  /\ DOMAIN ws = Keys
  /\ \A c \in Categories : ws[c] \in Cost
  /\ \A e \in Energies : ws[e] \in Token \cup {Absent}
  /\ \A b \in Bids : ws[b] \in Bid \cup {Absent}
  /\ \A tx \in pool : /\ tx.client \in Clients
                      /\ tx.reads \subseteq Keys
                      /\ DOMAIN tx.writes \subseteq Keys
                      /\ tx.stale \in BOOLEAN
                      /\ tx.awaited \in BOOLEAN
  /\ reply \in [Clients -> [kind : {"none", "ok", "error"}, msg : Messages]]
  /\ faults \in 0..MaxFaults
  /\ crashed \in BOOLEAN

\* What a transaction will write when it commits is what its function would
\* write if it were executed then: endorsing early on an older state is as good
\* as executing at commit time, because a transaction with a changed read is
\* invalidated.  It fails as soon as a function reads a key that its read set
\* does not name.
EndorsementStaysValid ==
  \A tx \in pool : ~tx.stale =>
    LET out == Execute(ws, tx.req)
    IN  ~out.err /\ out.writes = tx.writes /\ out.msg = tx.msg

=============================================================================
