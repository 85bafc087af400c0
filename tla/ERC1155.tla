------------------------------ MODULE ERC1155 -------------------------------
(* The multi token of token-erc-1155/chaincode-go.  What an account holds of  *)
(* a token is spread over one key per sender, so that recipients of several   *)
(* transfers do not write the same key; removeBalance gathers the keys.       *)
EXTENDS Integers, Sequences, SequencesExt, FiniteSetsExt, Functions

CONSTANTS
  Accounts,
  KeyOrder,    \* the accounts in the order of the keys that end in their names
  Issuers,     \* the clients of minterMSPID
  Ids,
  MaxUint,     \* 2^64 - 1
  Amounts,     \* the amounts of a call
  MaxBatch,    \* bound: entries of a batch
  MaxSupply,   \* bound: units in existence
  Operators    \* bound: the accounts that are approved

VARIABLES
  named,       \* whether nameKey has a value
  holding,     \* balancePrefix.account.id.sender, 0 when there is no key
  operators,   \* <<account, operator>> with a true approval
  toldHolding  \* what each account holds for a client that adds up the events

multiVars == <<named, holding, operators, toldHolding>>

BalanceKeys == Accounts \X Ids \X Accounts

MultiInit ==
  /\ named = FALSE
  /\ holding = [k \in BalanceKeys |-> 0]
  /\ operators = {}
  /\ toldHolding = [h \in Accounts \X Ids |-> 0]

\* Lists of entries of a call: recipient, token and amount.
Batches == UNION {[1..n -> [to : Accounts, id : Ids, amount : Amounts]] : n \in 1..MaxBatch}

\* amountToSend and necessaryFunds: entries for one recipient and token, or for
\* one token, are one withdrawal or deposit.
AmountTo(batch, a, id) ==
  FoldFunctionOnSet(+, 0, [i \in DOMAIN batch |-> batch[i].amount],
    {i \in DOMAIN batch : batch[i].to = a /\ batch[i].id = id})
AmountOf(batch, id) ==
  FoldFunctionOnSet(+, 0, [i \in DOMAIN batch |-> batch[i].amount],
    {i \in DOMAIN batch : batch[i].id = id})

\* What the first n keys of (account, id) hold.
Partial(a, id, n) == FoldFunctionOnSet(+, 0, [i \in 1..n |-> holding[<<a, id, KeyOrder[i]>>]], 1..n)
Balance(a, id) == Partial(a, id, Len(KeyOrder))

\* How many keys the iterator of removeBalance goes through.
KeysRead(a, id, needed) == Min({n \in 0..Len(KeyOrder) : Partial(a, id, n) >= needed})

CanRemove(a, id, needed) ==
  /\ needed <= MaxUint
  /\ needed <= Balance(a, id)
  /\ LET n == KeysRead(a, id, needed) IN
       /\ Partial(a, id, n) <= MaxUint
       /\ \/ \E i \in 1..n : KeyOrder[i] = a
          \/ holding[<<a, id, a>>] + Partial(a, id, n) - needed <= MaxUint

\* A plausible mistake: the remainder overwrites the key that was not read.
RemovedOverwrites(a, id, needed, s) ==
  LET n == KeysRead(a, id, needed)
      read == {KeyOrder[i] : i \in 1..n}
      remainder == Partial(a, id, n) - needed
  IN  IF s = a /\ remainder > 0 THEN remainder
      ELSE IF s \in read THEN 0 ELSE holding[<<a, id, s>>]

\* The value of a key of (account, id) after removeBalance: keys that were read
\* are deleted; the remainder is the account's own key, or is added to it when
\* the iteration ended before that key.
Removed(a, id, needed, s) ==
  LET n == KeysRead(a, id, needed)
      read == {KeyOrder[i] : i \in 1..n}
      remainder == Partial(a, id, n) - needed
      kept == IF s \in read THEN 0 ELSE holding[<<a, id, s>>]
  IN  IF s = a THEN kept + remainder ELSE kept

CanAdd(sender, batch) ==
  \A a \in Accounts, id \in Ids :
    AmountTo(batch, a, id) + holding[<<a, id, sender>>] <= MaxUint

\* The emitted event lists the entries of the call.
Emit(from, recipients, batch) ==
  toldHolding' = [h \in Accounts \X Ids |-> toldHolding[h]
    + (IF recipients THEN AmountTo(batch, h[1], h[2]) ELSE 0)
    - (IF h[1] \in from THEN AmountOf(batch, h[2]) ELSE 0)]

Initialize(client) ==
  /\ client \in Issuers
  /\ ~named
  /\ named' = TRUE
  /\ UNCHANGED <<holding, operators, toldHolding>>

Supply == FoldFunction(+, 0, holding)
OneRecipient(batch) == \A i \in DOMAIN batch : batch[i].to = batch[1].to

\* Mint is MintBatch of one entry.
MintBatch(operator, batch) ==
  /\ named
  /\ operator \in Issuers
  /\ OneRecipient(batch)
  /\ Supply + FoldFunction(+, 0, [i \in DOMAIN batch |-> batch[i].amount]) <= MaxSupply
  /\ \A i \in DOMAIN batch : AmountOf(batch, batch[i].id) > 0
  /\ CanAdd(operator, batch)
  /\ holding' = [k \in BalanceKeys |->
       holding[k] + IF k[3] = operator THEN AmountTo(batch, k[1], k[2]) ELSE 0]
  /\ Emit({}, TRUE, batch)
  /\ UNCHANGED <<named, operators>>

\* Burn is BurnBatch of one entry; the account that loses is batch[1].to.
BurnBatch(operator, batch) ==
  LET account == batch[1].to
      burnt == {batch[i].id : i \in DOMAIN batch}
  IN
  /\ named
  /\ operator \in Issuers
  /\ OneRecipient(batch)
  /\ \A id \in burnt : CanRemove(account, id, AmountOf(batch, id))
  /\ holding' = [k \in BalanceKeys |->
       IF k[1] = account /\ k[2] \in burnt
       THEN Removed(account, k[2], AmountOf(batch, k[2]), k[3]) ELSE holding[k]]
  /\ Emit({account}, FALSE, batch)
  /\ UNCHANGED <<named, operators>>

\* TransferFrom and BatchTransferFrom are the case of one recipient.
BatchTransferFromMultiRecipient(operator, sender, batch) ==
  LET sent == {batch[i].id : i \in DOMAIN batch} IN
  /\ named
  /\ \A i \in DOMAIN batch : batch[i].to # sender
  /\ operator = sender \/ <<sender, operator>> \in operators
  /\ \A id \in sent : CanRemove(sender, id, AmountOf(batch, id))
  /\ CanAdd(sender, batch)
  /\ holding' = [k \in BalanceKeys |->
       IF k[1] = sender
       THEN IF k[2] \in sent THEN Removed(sender, k[2], AmountOf(batch, k[2]), k[3]) ELSE holding[k]
       ELSE holding[k] + IF k[3] = sender THEN AmountTo(batch, k[1], k[2]) ELSE 0]
  /\ Emit({sender}, TRUE, batch)
  /\ UNCHANGED <<named, operators>>

SetApprovalForAll(account, operator, approved) ==
  /\ named
  /\ account # operator
  /\ operators' = IF approved THEN operators \cup {<<account, operator>>}
                              ELSE operators \ {<<account, operator>>}
  /\ UNCHANGED <<named, holding, toldHolding>>

MultiNext ==
  \/ \E batch \in Batches, c \in Accounts :
       \/ MintBatch(c, batch)
       \/ BurnBatch(c, batch)
       \/ \E sender \in Accounts : BatchTransferFromMultiRecipient(c, sender, batch)
  \/ \E c \in Accounts : Initialize(c)
  \/ \E c \in Accounts, o \in Operators, v \in BOOLEAN : SetApprovalForAll(c, o, v)

(* However the units of a token are spread over the keys of their senders,    *)
(* and in whatever order keys are gathered, deleted and topped up with the    *)
(* remainder, what an account holds is what the events say it received less   *)
(* what they say it gave away: no mint, burn or transfer loses or makes units.*)
HoldingsFollowEvents ==
  \A a \in Accounts, id \in Ids : Balance(a, id) = toldHolding[<<a, id>>]

=============================================================================
