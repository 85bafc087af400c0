-------------------------- MODULE SecuredAgreement ---------------------------
(* The sale of an asset in asset-transfer-secured-agreement/chaincode-go.     *)
(* Prices and properties are private data of an organization; others see      *)
(* their hashes.  Assets share no key: the module has one, and a client is    *)
(* its organization.  A transaction takes effect when the organizations whose *)
(* data it writes and the owner's policy endorse it, each on its own peer.    *)
CONSTANTS
  Orgs,
  Prices,
  Properties,
  Genuine,     \* the properties whose hash is the asset's id
  Unset        \* no value under a key

ASSUME DeedAssumption ==
  Unset \notin Orgs /\ Unset \notin Prices /\ Unset \notin Properties /\ Genuine \in Properties

VARIABLES
  deed,        \* the owner in the public asset
  deedPolicy,  \* the organizations that must endorse a write of the asset
  props,       \* the private properties under the asset's id, in each collection
  ask,         \* the price under typeAssetForSale
  bid,         \* the price under typeAssetBid
  soldToSelf   \* whether the owner transferred the asset to itself since it got it

deedVars == <<deed, deedPolicy, props, ask, bid, soldToSelf>>

DeedInit ==
  /\ deed = Unset
  /\ deedPolicy = {}
  /\ props = [o \in Orgs |-> Unset]
  /\ ask = [o \in Orgs |-> Unset]
  /\ bid = [o \in Orgs |-> Unset]
  /\ soldToSelf = FALSE

setAssetStateBasedEndorsement(orgs) == deedPolicy' = orgs

\* verifyClientOrgMatchesPeerOrg: only the peer of the client's organization
\* endorses, which is enough when there is no asset, or it is the client's own.
EndorsedByOwnPeer(org) == deedPolicy \subseteq {org}

CreateAsset(org) ==
  /\ EndorsedByOwnPeer(org)
  /\ deed' = org
  /\ setAssetStateBasedEndorsement({org})
  /\ props' = [props EXCEPT ![org] = Genuine]
  /\ soldToSelf' = FALSE
  /\ UNCHANGED <<ask, bid>>

AgreeToSell(org, price) ==
  /\ deed = org
  /\ ask' = [ask EXCEPT ![org] = price]
  /\ UNCHANGED <<deed, deedPolicy, props, bid, soldToSelf>>

\* The asset is not read: it need not exist, and its owner may call this too.
AgreeToBuy(org, properties, price) ==
  /\ props' = [props EXCEPT ![org] = properties]
  /\ bid' = [bid EXCEPT ![org] = price]
  /\ soldToSelf' = (soldToSelf /\ org # deed)
  /\ UNCHANGED <<deed, deedPolicy, ask>>

verifyTransferConditions(org, buyer, price) ==
  /\ org = deed
  /\ props[org] # Unset
  /\ props[buyer] = props[org]
  /\ ask[org] = price
  /\ bid[buyer] = price

\* A plausible mistake: the seller's price stays where it is.
transferKeepsAsk(org, buyer) ==
  /\ deed' = buyer
  /\ setAssetStateBasedEndorsement({buyer})
  /\ props' = [props EXCEPT ![org] = Unset]
  /\ bid' = [bid EXCEPT ![buyer] = Unset]
  /\ UNCHANGED ask

\* The properties of the seller are deleted, also when it is the buyer.
transferAssetState(org, buyer) ==
  /\ deed' = buyer
  /\ setAssetStateBasedEndorsement({buyer})
  /\ props' = [props EXCEPT ![org] = Unset]
  /\ ask' = [ask EXCEPT ![org] = Unset]
  /\ bid' = [bid EXCEPT ![buyer] = Unset]

TransferAsset(org, buyer, price) ==
  /\ deedPolicy \subseteq {org, buyer}
  /\ verifyTransferConditions(org, buyer, price)
  /\ transferAssetState(org, buyer)
  /\ soldToSelf' = (org = buyer)

DeedNext ==
  \E o \in Orgs :
    \/ CreateAsset(o)
    \/ \E p \in Prices : AgreeToSell(o, p)
    \/ \E p \in Prices, q \in Properties : AgreeToBuy(o, q, p)
    \/ \E b \in Orgs, p \in Prices : TransferAsset(o, b, p)

DeedSpec == DeedInit /\ [][DeedNext]_deedVars

(* Only the owner has a price at which it would sell: an agreement to sell    *)
(* ends with the sale, so that an organization which buys the asset back does *)
(* not find it for sale at the old price.  The owner alone endorses writes of *)
(* the asset, and it has the asset's private properties (unless it sold the   *)
(* asset to itself, which deletes them).                                      *)
SaleEndsAgreement ==
  /\ \A o \in Orgs : ask[o] # Unset => deed = o
  /\ deed # Unset => deedPolicy = {deed} /\ (soldToSelf \/ props[deed] # Unset)

=============================================================================
