---------------------------- MODULE MCTxPdaHistory ----------------------------
(***************************************************************************)
(* TxPdaHistory under the bounds of MCMessageGateway.                      *)
(***************************************************************************)
EXTENDS MCMessageGateway, TxPdaHistory
=============================================================================
