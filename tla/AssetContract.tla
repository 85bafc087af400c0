---------------------------- MODULE AssetContract ----------------------------
(***************************************************************************)
(* The chaincode of the basic sample, chaincode-go/chaincode/              *)
(* smartcontract.go of asset-transfer-basic: each transaction function as  *)
(* an operator from a world state and its arguments to the outcome of its  *)
(* simulation.  Color, size and value of an asset are one field.           *)
(***************************************************************************)
CONSTANTS
  AssetIds,
  Owners,
  Details,    \* colors, sizes and values together
  NoAsset     \* a key without a value

Asset == [details : Details, owner : Owners]

ASSUME AssetAssumption == NoAsset \notin Asset

AssetRequests ==
  [op : {"CreateAsset", "UpdateAsset"}, id : AssetIds, details : Details, owner : Owners]
  \cup [op : {"TransferAsset"}, id : AssetIds, owner : Owners]
  \cup [op : {"DeleteAsset"}, id : AssetIds]

AssetExists(s, id) == s[id] # NoAsset

\* Every function reads and writes the key of its asset and no other.
Refused == [err |-> TRUE, value |-> NoAsset]
Put(value) == [err |-> FALSE, value |-> value]

CreateAsset(s, id, details, owner) ==
  IF AssetExists(s, id) THEN Refused ELSE Put([details |-> details, owner |-> owner])

UpdateAsset(s, id, details, owner) ==
  IF AssetExists(s, id) THEN Put([details |-> details, owner |-> owner]) ELSE Refused

DeleteAsset(s, id) == IF AssetExists(s, id) THEN Put(NoAsset) ELSE Refused

TransferAsset(s, id, newOwner) ==
  IF AssetExists(s, id) THEN Put([s[id] EXCEPT !.owner = newOwner]) ELSE Refused

ExecuteAsset(s, req) ==
  CASE req.op = "CreateAsset" -> CreateAsset(s, req.id, req.details, req.owner)
    [] req.op = "UpdateAsset" -> UpdateAsset(s, req.id, req.details, req.owner)
    [] req.op = "TransferAsset" -> TransferAsset(s, req.id, req.owner)
    [] req.op = "DeleteAsset" -> DeleteAsset(s, req.id)

=============================================================================
