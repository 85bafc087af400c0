---------------------------- MODULE PrivateAsset -----------------------------
(* The asset of asset-transfer-private-data/chaincode-go: its owner and the   *)
(* buyer's agreement are in the collection both organizations have, the value *)
(* each side appraises it at in the collection of its organization, which     *)
(* expires.  Assets share no key: the module has one.                         *)
EXTENDS Integers

CONSTANTS
  Clients,
  MSP(_),      \* the organization of a client
  Orgs,
  AppraisedValues,
  Nothing      \* no value under a key

VARIABLES
  item,        \* the owner, in assetCollection
  agreement,   \* the buyer under the transferAgreement key, in assetCollection
  appraised,   \* the value in the collection of each organization
  consent      \* the clients that agreed to buy and have not bought or withdrawn since

itemVars == <<item, agreement, appraised, consent>>

ItemInit ==
  /\ item = Nothing
  /\ agreement = Nothing
  /\ appraised = [o \in Orgs |-> Nothing]
  /\ consent = {}

States(client, value) == appraised' = [appraised EXCEPT ![MSP(client)] = value]

CreateAsset(client, value) ==
  /\ item = Nothing
  /\ item' = client
  /\ States(client, value)
  /\ UNCHANGED <<agreement, consent>>

\* An agreement of another client is overwritten, as is the value of another
\* client of the organization.
AgreeToTransfer(client, value) ==
  /\ item # Nothing
  /\ States(client, value)
  /\ agreement' = client
  /\ consent' = consent \cup {client}
  /\ UNCHANGED <<item>>

\* buyerMSP is an argument: it need not be the organization of the buyer.
verifyAgreement(client, owner, buyerMSP) ==
  /\ client = owner
  /\ appraised[MSP(client)] # Nothing
  /\ appraised[buyerMSP] = appraised[MSP(client)]

\* A plausible mistake: the agreement is not deleted.
KeepAgreement == UNCHANGED agreement
DeleteAgreement == agreement' = Nothing

TransferAsset(client, buyerMSP) ==
  /\ item # Nothing
  /\ verifyAgreement(client, item, buyerMSP)
  /\ agreement # Nothing
  /\ item' = agreement
  /\ appraised' = [appraised EXCEPT ![MSP(client)] = Nothing]
  /\ DeleteAgreement
  /\ consent' = consent \ {agreement}

\* Not only by the owner: by a client whose organization has a value of the
\* asset.  The agreement stays.
DeleteAsset(client) ==
  /\ item # Nothing
  /\ appraised[MSP(client)] # Nothing
  /\ item' = Nothing
  /\ appraised' = [appraised EXCEPT ![MSP(client)] = Nothing]
  /\ UNCHANGED <<agreement, consent>>

DeleteTranferAgreement(client) ==
  /\ agreement # Nothing
  /\ appraised' = [appraised EXCEPT ![MSP(client)] = Nothing]
  /\ DeleteAgreement
  /\ consent' = consent \ {agreement}
  /\ UNCHANGED <<item>>

\* blockToLive of the collection of an organization.
Expire(org) ==
  /\ appraised[org] # Nothing
  /\ appraised' = [appraised EXCEPT ![org] = Nothing]
  /\ UNCHANGED <<item, agreement, consent>>

ItemNext ==
  \/ \E c \in Clients :
       \/ \E v \in AppraisedValues : CreateAsset(c, v) \/ AgreeToTransfer(c, v)
       \/ \E o \in Orgs : TransferAsset(c, o)
       \/ DeleteAsset(c) \/ DeleteTranferAgreement(c)
  \/ \E o \in Orgs : Expire(o)

(* The asset only passes to a client that agreed to buy it, once for each     *)
(* time the client agreed, and not after the agreement was withdrawn.         *)
OneTransferPerAgreement ==
  item # Nothing /\ item' # Nothing /\ item' # item => item' \in consent

=============================================================================
