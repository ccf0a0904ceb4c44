--------------------------- MODULE MCNetworkScripts ---------------------------
(***************************************************************************)
(* Bounds for NetworkScripts: one run of each script, two points in time,  *)
(* registries with room for one key beside the wallet.                     *)
(***************************************************************************)
EXTENDS NetworkScripts

CONSTANT w

ScriptsChainIds == {1, 2}
ScriptsRegistryKeys == RegistryTypes \X {1}
ScriptsKindOf(i) == i
ScriptsFreshKey(i, type) == <<i, type>>
ScriptsSigners == {w} \cup (Kinds \X RegistryTypes)
ScriptsTraffic == {MessageWith(i, id) : i \in Scripts, id \in TxIds}
ScriptsEvidence ==
  UNION {ToSet(ListOf(i)) \X {MessageWith(i, id) : id \in TxIds} : i \in Scripts}
ScriptsRequests ==
  [txId : TxIds, dest : {1}, recipientSize : {44}, dataSize : {6}]
ScriptsSignerLists == {<<w>>}
ScriptsSignatureLists == {ListOf(i) : i \in Scripts}
=============================================================================
