----------------------------- MODULE ChainEvents -----------------------------
(***************************************************************************)
(* The blocks of a channel as a peer delivers them to the listeners of     *)
(* off_chain_data: in order, from the block a listener asks for.           *)
(*                                                                         *)
(* A transaction is known by its place, a block number and an index; what  *)
(* tells transactions apart otherwise is whether it is valid and which     *)
(* keys outside the system namespaces it writes or deletes.                *)
(***************************************************************************)
EXTENDS Integers, Sequences, SequencesExt

CONSTANTS
  StateKeys,   \* keys of the world state
  Kinds,       \* what a transaction may be
  MaxBlocks,   \* bound on the length of the chain
  MaxTxs       \* bound on the transactions of a block

\* A transaction writes a key once.
Kind == [valid : BOOLEAN, writes : Seq([key : StateKeys, isDelete : BOOLEAN])]

ASSUME ChainAssumption ==
  /\ Kinds \subseteq Kind
  /\ \A t \in Kinds : \A i, j \in DOMAIN t.writes :
       i # j => t.writes[i].key # t.writes[j].key
  /\ MaxBlocks \in Nat
  /\ MaxTxs \in Nat

VARIABLE chain   \* the blocks; the first has number 0

BlocksUpTo(n) == UNION {[1..k -> Kinds] : k \in 0..n}
Chains == UNION {[0..(n - 1) -> BlocksUpTo(MaxTxs)] : n \in 0..MaxBlocks}

\* Places in the order of the chain.
Before(p, q) ==
  \/ p.block < q.block
  \/ p.block = q.block /\ p.index < q.index

Places == {[block |-> b, index |-> i] : b \in DOMAIN chain, i \in 1..MaxTxs}
TxPlaces == {p \in Places : p.index \in DOMAIN chain[p.block]}
TxAt(p) == chain[p.block][p.index]

\* Transactions that change something off the chain as well.
ValidPlaces == {p \in TxPlaces : TxAt(p).valid}
WritesKey(p, k) == \E i \in DOMAIN TxAt(p).writes : TxAt(p).writes[i].key = k

Entry(p, w) == [key |-> w.key, isDelete |-> w.isDelete, tx |-> p]
Entries(p) == [i \in DOMAIN TxAt(p).writes |-> Entry(p, TxAt(p).writes[i])]

=============================================================================
