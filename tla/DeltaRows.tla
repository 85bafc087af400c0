------------------------------ MODULE DeltaRows ------------------------------
(* The aggregate variable of high-throughput/chaincode-go: each update adds a *)
(* row of its own, so that concurrent updates do not conflict; the value is   *)
(* the sum of the rows.  Transactions are endorsed on one state and take      *)
(* effect on a later one, when their reads still hold.                        *)
EXTENDS Integers, FiniteSets, FiniteSetsExt, Functions

CONSTANTS
  Deltas,      \* the values of an update
  MaxTxs       \* bound: the transactions

VARIABLES
  rows,        \* [op, value, tx]: the key varName~op~value~txID
  endorsed,    \* transactions that are endorsed and not yet committed
  txCount,     \* the transactions so far, which GetTxID numbers
  net          \* the sum of the updates that took effect since the last delete

deltaVars == <<rows, endorsed, txCount, net>>

DeltaInit ==
  /\ rows = {}
  /\ endorsed = {}
  /\ txCount = 0
  /\ net = 0

Signed(r) == IF r.op = "+" THEN r.value ELSE -r.value
Sum(S) == FoldFunctionOnSet(+, 0, [r \in S |-> Signed(r)], S)

\* A plausible mistake: the operation of a row is not looked at.
SumOfValues(S) == FoldFunctionOnSet(+, 0, [r \in S |-> r.value], S)

\* get: the iterator goes through the rows of the variable.
get(S) == Sum(S)

Row(op, value) == [op |-> op, value |-> value, tx |-> txCount]
Endorse(kind, range, deletes, adds) ==
  /\ txCount < MaxTxs
  /\ txCount' = txCount + 1
  /\ endorsed' = endorsed \cup
       {[kind |-> kind, tx |-> txCount, range |-> range, deletes |-> deletes, adds |-> adds]}
  /\ UNCHANGED <<rows, net>>

update(value, op) == Endorse("update", {}, {}, {Row(op, value)})

\* The rows of the iterator are deleted and one with their sum is added.
prune == rows # {} /\ Endorse("prune", rows, rows, {Row("+", get(rows))})

delete == rows # {} /\ Endorse("delete", rows, rows, {})

\* Validation repeats the range query, which update does not make.
Commit(t) ==
  /\ endorsed' = endorsed \ {t}
  /\ IF t.kind = "update" \/ t.range = rows
     THEN /\ rows' = (rows \ t.deletes) \cup t.adds
          /\ net' = CASE t.kind = "update" -> net + Sum(t.adds)
                      [] t.kind = "delete" -> 0
                      [] OTHER -> net
     ELSE UNCHANGED <<rows, net>>
  /\ UNCHANGED txCount

DeltaNext ==
  \/ \E v \in Deltas, op \in {"+", "-"} : update(v, op)
  \/ prune
  \/ delete
  \/ \E t \in endorsed : Commit(t)

(* The value of the variable is the sum of all updates since it was last      *)
(* deleted, whichever of them were endorsed before and committed after, or    *)
(* the other way round, a transaction that replaces the rows by one.          *)
ValueIsSumOfUpdates == get(rows) = net

=============================================================================
