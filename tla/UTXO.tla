-------------------------------- MODULE UTXO --------------------------------
(* The token of token-utxo/chaincode-go: value is held in unspent outputs,    *)
(* which a transfer deletes and replaces by others of the same total.         *)
EXTENDS Integers, Sequences, SequencesExt, FiniteSetsExt, Functions

CONSTANTS
  Accounts,
  Issuers,     \* the clients of Org1MSP
  MaxInt,      \* the largest int
  UtxoAmounts, \* the amounts of a call
  MaxOutputs,  \* bound: the outputs of a transfer
  MaxTransfers \* bound: the transactions that create outputs

VARIABLES
  utxoNamed,   \* whether nameKey has a value
  unspent,     \* [owner, tx, index, amount]: the key utxo.owner.txID.index and its value
  txs,         \* the transactions so far, which GetTxID numbers
  issued,      \* what was minted
  overflowed   \* whether a sum of a transfer did not fit an int

utxoVars == <<utxoNamed, unspent, txs, issued, overflowed>>

UtxoInit ==
  /\ utxoNamed = FALSE
  /\ unspent = {}
  /\ txs = 0
  /\ issued = 0
  /\ overflowed = FALSE

\* add of two ints that are not negative returns 0, and an error, when their
\* sum overflows; Transfer looks at the error of neither of its sums.
add(b, q) == IF b + q > MaxInt THEN 0 ELSE b + q

Total(outs) == FoldLeft(LAMBDA total, o : add(total, o.amount), 0, outs)
Value(outs) == FoldLeft(LAMBDA total, o : total + o.amount, 0, outs)

Outputs(outs) ==
  {[owner |-> outs[i].owner, tx |-> txs, index |-> i, amount |-> outs[i].amount] : i \in DOMAIN outs}

Initialize(client) ==
  /\ client \in Issuers
  /\ ~utxoNamed
  /\ utxoNamed' = TRUE
  /\ UNCHANGED <<unspent, txs, issued, overflowed>>

Mint(minter, amount) ==
  /\ utxoNamed
  /\ minter \in Issuers
  /\ amount > 0
  /\ txs < MaxTransfers
  /\ unspent' = unspent \cup Outputs(<<[owner |-> minter, amount |-> amount]>>)
  /\ txs' = txs + 1
  /\ issued' = issued + amount
  /\ UNCHANGED <<utxoNamed, overflowed>>

\* A plausible mistake: the check that an input is not named twice is lost.
InputsTwice(client) ==
  LET own == {u \in unspent : u.owner = client}
  IN  UNION {[1..n -> own] : n \in 0..2}

\* The lists of utxoInputKeys a client can name: its own, each once.
Inputs(client) ==
  UNION {SetToSeqs(S) : S \in SUBSET {u \in unspent : u.owner = client}}

Transfer(client, outs) ==
  /\ utxoNamed
  /\ txs < MaxTransfers
  /\ \A i \in DOMAIN outs : outs[i].amount > 0
  /\ \E ins \in Inputs(client) :
       /\ Total(ins) = Total(outs)
       /\ unspent' = (unspent \ Range(ins)) \cup Outputs(outs)
       /\ overflowed' = (overflowed \/ Value(ins) > MaxInt \/ Value(outs) > MaxInt)
  /\ txs' = txs + 1
  /\ UNCHANGED <<utxoNamed, issued>>

OutputLists == UNION {[1..n -> [owner : Accounts, amount : UtxoAmounts]] : n \in 1..MaxOutputs}

UtxoNext ==
  \E c \in Accounts :
    \/ Initialize(c)
    \/ \E v \in UtxoAmounts : Mint(c, v)
    \/ \E outs \in OutputLists : Transfer(c, outs)

InCirculation == FoldFunctionOnSet(+, 0, [u \in unspent |-> u.amount], unspent)

(* Transfers neither make nor lose value, whoever splits and merges outputs   *)
(* in whatever order, as long as no sum of a transfer overflows.              *)
ValueIsConserved == overflowed \/ InCirculation = issued

(* What token_contract.go:144 says a transfer validates, that total inputs    *)
(* equal total outputs, for every transfer: the code compares sums that are   *)
(* 0 after an overflow.                                                       *)
TransfersBalance == InCirculation = issued

=============================================================================
