----------------------------- MODULE TxPdaHistory -----------------------------
(***************************************************************************)
(* MessageGateway with a history variable: the message whose hash TX1      *)
(* checked when it created each TxId PDA.  The program does not keep it;   *)
(* TxIdPDA holds the id and the bump alone (state/tx_id.rs:6-12).          *)
(***************************************************************************)
EXTENDS MessageGateway

VARIABLE prepared  \* the message of the last TX1 at each address

historyVars == <<vars, prepared>>

HistoryInit == Init /\ prepared = [a \in Addresses |-> NoAccount]

PdaCreated == \E a \in Addresses : txPdas[a] = NoAccount /\ txPdas'[a] # NoAccount

HistoryNext ==
  \/ \E r \in Relayers, m \in Traffic, list \in SignatureLists :
       /\ CreateTxPda(r, m, list)
       /\ prepared' = [prepared EXCEPT ![AddressOf(m)] = m]
       /\ UNCHANGED <<gatewayVars, registries, processed>>
  \/ Next /\ ~PdaCreated /\ UNCHANGED prepared

HistorySpec == HistoryInit /\ [][HistoryNext]_historyVars

-----------------------------------------------------------------------------
\* TX2 processes the message that TX1 admitted: the PDA "Stores message hash for
\* validation" (README.md:71).
ProcessedIsPrepared ==
  [][\A m \in Traffic : processed'[m] # processed[m] => prepared[AddressOf(m)] = m]_historyVars
=============================================================================
