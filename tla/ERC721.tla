------------------------------- MODULE ERC721 -------------------------------
(* The non-fungible token of token-erc-721/chaincode-go.  Every function that *)
(* changes the world state is an action; a call that returns an error changes *)
(* nothing and is not a step.  Reads see the state before the transaction,    *)
(* which Fabric's validation makes the state the transaction commits on.      *)
CONSTANTS
  Accounts,    \* client identities, and whatever else is named as a recipient
  Issuers,     \* the clients of Org1MSP
  NftIds,
  NoAccount,   \* the empty string
  NoNft        \* no value under the key

ASSUME AccountsAssumption == Issuers \subseteq Accounts /\ NoAccount \notin Accounts

VARIABLES
  nameSet,     \* whether nameKey has a value
  nft,         \* nftPrefix.tokenId
  approvals,   \* approvalPrefix.owner.operator, those whose Approved is true
  balance,     \* balancePrefix.owner.tokenId, keys that have a value
  toldOwner    \* who owns each token for a client that follows the Transfer events

nftVars == <<nameSet, nft, approvals, balance, toldOwner>>

Nft == [owner : Accounts, approved : Accounts \cup {NoAccount}]
ASSUME NoNftAssumption == NoNft \notin Nft

NftInit ==
  /\ nameSet = FALSE
  /\ nft = [t \in NftIds |-> NoNft]
  /\ approvals = {}
  /\ balance = {}
  /\ toldOwner = [t \in NftIds |-> NoAccount]

NftExists(t) == nft[t] # NoNft
IsApprovedForAll(owner, operator) == <<owner, operator>> \in approvals

\* TotalSupply and BalanceOf count the keys of an iterator.
TotalSupply == {t \in NftIds : NftExists(t)}
BalanceOf(a) == {t \in NftIds : <<a, t>> \in balance}

\* SetEvent("Transfer", ...); 0x0 stands for no owner.
EmitTransfer(t, to) == toldOwner' = [toldOwner EXCEPT ![t] = to]

Initialize(client) ==
  /\ client \in Issuers
  /\ ~nameSet
  /\ nameSet' = TRUE
  /\ UNCHANGED <<nft, approvals, balance, toldOwner>>

MintWithTokenURI(minter, t) ==
  /\ nameSet
  /\ minter \in Issuers
  /\ ~NftExists(t)
  /\ nft' = [nft EXCEPT ![t] = [owner |-> minter, approved |-> NoAccount]]
  /\ balance' = balance \cup {<<minter, t>>}
  /\ EmitTransfer(t, minter)
  /\ UNCHANGED <<nameSet, approvals>>

Approve(sender, operator, t) ==
  /\ nameSet
  /\ NftExists(t)
  /\ nft[t].owner = sender \/ IsApprovedForAll(nft[t].owner, sender)
  /\ nft' = [nft EXCEPT ![t].approved = operator]
  /\ UNCHANGED <<nameSet, approvals, balance, toldOwner>>

SetApprovalForAll(sender, operator, approved) ==
  /\ nameSet
  /\ approvals' = IF approved THEN approvals \cup {<<sender, operator>>}
                              ELSE approvals \ {<<sender, operator>>}
  /\ UNCHANGED <<nameSet, nft, balance, toldOwner>>

\* A plausible mistake: the old key is deleted last.
TransferFromDeletesLast(sender, from, to, t) ==
  /\ nameSet
  /\ NftExists(t)
  /\ \/ nft[t].owner = sender
     \/ nft[t].approved = sender
     \/ IsApprovedForAll(nft[t].owner, sender)
  /\ nft[t].owner = from
  /\ nft' = [nft EXCEPT ![t] = [owner |-> to, approved |-> NoAccount]]
  /\ balance' = (balance \cup {<<to, t>>}) \ {<<from, t>>}
  /\ EmitTransfer(t, to)
  /\ UNCHANGED <<nameSet, approvals>>

\* The key of the old owner is deleted before the key of the new one is
\* written: they are one key when a token is transferred to its owner.
TransferFrom(sender, from, to, t) ==
  /\ nameSet
  /\ NftExists(t)
  /\ \/ nft[t].owner = sender
     \/ nft[t].approved = sender
     \/ IsApprovedForAll(nft[t].owner, sender)
  /\ nft[t].owner = from
  /\ nft' = [nft EXCEPT ![t] = [owner |-> to, approved |-> NoAccount]]
  /\ balance' = (balance \ {<<from, t>>}) \cup {<<to, t>>}
  /\ EmitTransfer(t, to)
  /\ UNCHANGED <<nameSet, approvals>>

Burn(owner, t) ==
  /\ nameSet
  /\ NftExists(t)
  /\ nft[t].owner = owner
  /\ nft' = [nft EXCEPT ![t] = NoNft]
  /\ balance' = balance \ {<<owner, t>>}
  /\ EmitTransfer(t, NoAccount)
  /\ UNCHANGED <<nameSet, approvals>>

NftNext ==
  \E c \in Accounts :
    \/ Initialize(c)
    \/ \E t \in NftIds : MintWithTokenURI(c, t) \/ Burn(c, t)
    \/ \E t \in NftIds, o \in Accounts \cup {NoAccount} : Approve(c, o, t)
    \/ \E o \in Accounts, b \in BOOLEAN : SetApprovalForAll(c, o, b)
    \/ \E from, to \in Accounts, t \in NftIds : TransferFrom(c, from, to, t)

NftSpec == NftInit /\ [][NftNext]_nftVars

NftTypeOK ==
  /\ nameSet \in BOOLEAN
  /\ nft \in [NftIds -> Nft \cup {NoNft}]
  /\ approvals \subseteq Accounts \X Accounts
  /\ balance \subseteq Accounts \X NftIds
  /\ toldOwner \in [NftIds -> Accounts \cup {NoAccount}]

(* The contract keeps who owns a token twice, in the token and in the keys    *)
(* BalanceOf counts: after any sequence of mints, transfers (to the owner     *)
(* itself as well) and burns, each token is counted for its owner and for     *)
(* nobody else, and a client that only follows the Transfer events knows the  *)
(* owner of every token.                                                      *)
OneOwnerPerToken ==
  /\ \A a \in Accounts : BalanceOf(a) = {t \in TotalSupply : nft[t].owner = a}
  /\ \A t \in NftIds :
       toldOwner[t] = IF NftExists(t) THEN nft[t].owner ELSE NoAccount

=============================================================================
