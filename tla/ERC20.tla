------------------------------- MODULE ERC20 --------------------------------
(* The fungible token of token-erc-20/chaincode-go.  A call that returns an   *)
(* error changes nothing and is not a step.                                   *)
EXTENDS Integers, Functions

CONSTANTS
  Accounts,
  Issuers,     \* the clients of Org1MSP
  MaxInt,      \* the largest int; the least is -MaxInt - 1
  Values       \* the amounts of a call

VARIABLES
  coinNamed,   \* whether nameKey has a value
  balanceOf,   \* the accounts that have a key, and what it holds
  totalSupply, \* totalSupplyKey
  allowance,   \* allowancePrefix.owner.spender, 0 when there is no key
  toldBalance  \* what each account has for a client that adds up the Transfer events

coinVars == <<coinNamed, balanceOf, totalSupply, allowance, toldBalance>>

CoinInit ==
  /\ coinNamed = FALSE
  /\ balanceOf = [a \in {} |-> 0]
  /\ totalSupply = 0
  /\ allowance = [p \in Accounts \X Accounts |-> 0]
  /\ toldBalance = [a \in Accounts |-> 0]

\* The result of add and sub on ints, which wraps, and the checks they make on it.
Wrapped(i) == ((i + MaxInt + 1) % (2 * MaxInt + 2)) - MaxInt - 1
AddFails(b, q) == (Wrapped(b + q) < q) = (b >= 0 /\ q >= 0)
SubFails(b, q) == (Wrapped(b - q) > b) = (b >= 0 /\ q >= 0)

Account(a) == IF a \in DOMAIN balanceOf THEN balanceOf[a] ELSE 0

\* PutState of the accounts of f.
PutBalances(f) ==
  balanceOf' = [a \in DOMAIN balanceOf \cup DOMAIN f |->
                  IF a \in DOMAIN f THEN f[a] ELSE balanceOf[a]]

\* SetEvent("Transfer", ...); from and to are sets, as 0x0 is no account.
EmitTransfer(from, to, value) ==
  toldBalance' = [a \in Accounts |->
    Wrapped(toldBalance[a] - (IF a \in from THEN value ELSE 0) + (IF a \in to THEN value ELSE 0))]

Initialize(client) ==
  /\ client \in Issuers
  /\ ~coinNamed
  /\ coinNamed' = TRUE
  /\ UNCHANGED <<balanceOf, totalSupply, allowance, toldBalance>>

Mint(minter, amount) ==
  /\ coinNamed
  /\ minter \in Issuers
  /\ amount > 0
  /\ ~AddFails(Account(minter), amount)
  /\ ~AddFails(totalSupply, amount)
  /\ PutBalances([a \in {minter} |-> Account(minter) + amount])
  /\ totalSupply' = totalSupply + amount
  /\ EmitTransfer({}, {minter}, amount)
  /\ UNCHANGED <<coinNamed, allowance>>

\* sub does not fail when the balance is less than the amount, and of a negative
\* balance it takes just the amounts with which the difference overflows.
Burn(minter, amount) ==
  /\ coinNamed
  /\ minter \in Issuers
  /\ amount > 0
  /\ minter \in DOMAIN balanceOf
  /\ ~SubFails(Account(minter), amount)
  /\ ~SubFails(totalSupply, amount)
  /\ PutBalances([a \in {minter} |-> Wrapped(Account(minter) - amount)])
  /\ totalSupply' = Wrapped(totalSupply - amount)
  /\ EmitTransfer({minter}, {}, amount)
  /\ UNCHANGED <<coinNamed, allowance>>

\* A plausible mistake: a transfer to oneself, where the later of two writes to
\* one key, both made from the value read before, is what remains.
transferHelperToSelf(from, to, value) ==
  /\ value >= 0
  /\ from \in DOMAIN balanceOf
  /\ Account(from) >= value
  /\ ~AddFails(Account(to), value)
  /\ PutBalances([a \in {from, to} |->
       IF a = to THEN Account(to) + value ELSE Account(from) - value])

transferHelper(from, to, value) ==
  /\ from # to
  /\ value >= 0
  /\ from \in DOMAIN balanceOf
  /\ Account(from) >= value
  /\ ~AddFails(Account(to), value)
  /\ PutBalances([a \in {from, to} |->
       IF a = from THEN Account(from) - value ELSE Account(to) + value])

Transfer(client, recipient, amount) ==
  /\ coinNamed
  /\ transferHelper(client, recipient, amount)
  /\ EmitTransfer({client}, {recipient}, amount)
  /\ UNCHANGED <<coinNamed, totalSupply, allowance>>

Approve(owner, spender, value) ==
  /\ coinNamed
  /\ allowance' = [allowance EXCEPT ![<<owner, spender>>] = value]
  /\ UNCHANGED <<coinNamed, balanceOf, totalSupply, toldBalance>>

TransferFrom(spender, from, to, value) ==
  /\ coinNamed
  /\ allowance[<<from, spender>>] >= value
  /\ transferHelper(from, to, value)
  /\ allowance' = [allowance EXCEPT ![<<from, spender>>] = @ - value]
  /\ EmitTransfer({from}, {to}, value)
  /\ UNCHANGED <<coinNamed, totalSupply>>

CoinNext ==
  \E c \in Accounts :
    \/ Initialize(c)
    \/ \E v \in Values : Mint(c, v) \/ Burn(c, v)
    \/ \E a \in Accounts, v \in Values : Transfer(c, a, v) \/ Approve(c, a, v)
    \/ \E from, to \in Accounts, v \in Values : TransferFrom(c, from, to, v)

(* Whatever is minted, transferred (by the owner or a spender, to itself as   *)
(* well) and burned, up to the largest and the least int: the total supply is *)
(* the sum of the balances as an int adds up, and each balance is the one     *)
(* that follows from the Transfer events.                                     *)
SupplyIsBalances ==
  /\ totalSupply = Wrapped(FoldFunction(+, 0, balanceOf))
  /\ \A a \in Accounts : Account(a) = toldBalance[a]

=============================================================================
