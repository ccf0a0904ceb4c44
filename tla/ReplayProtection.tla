--------------------------- MODULE ReplayProtection ---------------------------
(***************************************************************************)
(* The accounts behind the two-transaction pattern of message_gateway_v4:  *)
(* one counter per source chain and one TxId PDA per message in flight.    *)
(* TX1 (create_tx_pda) creates the PDA and raises the counter; TX2         *)
(* (process_message, in MessageGateway) closes the PDA.                    *)
(***************************************************************************)
EXTENDS Gateways, ThreeLayerValidation

CONSTANTS
  MaxTxId,             \* the largest tx_id, u128::MAX in the code
  Payloads,            \* sender, recipient, on-chain and off-chain data together
  AcceptablePayloads,  \* those whose four fields fit the MAX_*_SIZE limits
  Traffic,             \* the messages relayers may submit
  Evidence,            \* pairs <<signer, message>> for which a relayer can build an
                       \* Ed25519 instruction that verify_ed25519_signature accepts
  SignatureLists,      \* the signature vectors that relayers attach
  Relayers             \* the keys that pay for and sign TX1 and TX2

TxIds == 0 .. MaxTxId

\* A TxId PDA lives at the address derived from ["tx", source_chain_id, tx_id].
Addresses == ChainIds \X TxIds

Messages == [source : ChainIds, dest : ChainIds, txId : TxIds, payload : Payloads]

ASSUME MessagesAssumption ==
  /\ MaxTxId \in Nat
  /\ Traffic \subseteq Messages
  /\ NoAccount \notin TxIds

VARIABLES
  counters,  \* highest_tx_id_seen of each source chain
  txPdas,    \* the tx_id stored in each TxId PDA
  rent       \* what TX1 and TX2 moved to each relayer, in rents of a TxId PDA

replayVars == <<counters, txPdas, rent>>

\* A PDA stores the id that its address is derived from (process_message.rs:53).
ReplayTypeOK ==
  /\ counters \in [ChainIds -> TxIds \cup {NoAccount}]
  /\ txPdas \in [Addresses -> TxIds \cup {NoAccount}]
  /\ \A a \in Addresses : txPdas[a] \in {a[2], NoAccount}
  /\ rent \in [Relayers -> Int]

ReplayInit ==
  /\ counters = [c \in ChainIds |-> NoAccount]
  /\ txPdas = [a \in Addresses |-> NoAccount]
  /\ rent = [r \in Relayers |-> 0]

-----------------------------------------------------------------------------
AddressOf(m) == <<m.source, m.txId>>

\* Whose entries verify_ed25519_signature accepts for the message: those of all
\* who signed it, and of others when the relayer builds instructions whose header
\* points elsewhere, which the program does not look at.
FoundValid(m) == {pair[1] : pair \in {x \in Evidence : x[2] = m}}

\* Any enabled gateway of the caller will do.
InitializeCounter(source, a) ==
  /\ source > 0
  /\ IsFree(counters, source)
  /\ \E c \in ChainIds : Administers(a, c) /\ IsEnabled(c)
  /\ counters' = [counters EXCEPT ![source] = 0]
  /\ UNCHANGED <<txPdas, rent>>

\* Faulty variants, for mutation: not strict, and comparing with the last id alone.
NotOlder(m) == m.txId >= counters[m.source]
NotTheLast(m) == m.txId # counters[m.source]

\* The ordering check of TX1: strictly above everything seen from this chain.
IsNewer(m) == m.txId > counters[m.source]

\* What TX1 checks.  It reads neither a gateway nor a signer registry.
Admissible(m, list) ==
  /\ m.payload \in AcceptablePayloads
  /\ ValidateSignaturesTx1(list, FoundValid(m))
  /\ IsFree(txPdas, AddressOf(m))
  /\ counters[m.source] # NoAccount
  /\ IsNewer(m)

\* Faulty variant, for mutation: the id of the new PDA is not set.
IdNotStored(r, m, list) ==
  /\ Admissible(m, list)
  /\ txPdas' = [txPdas EXCEPT ![AddressOf(m)] = 0]
  /\ counters' = [counters EXCEPT ![m.source] = m.txId]
  /\ rent' = [rent EXCEPT ![r] = @ - 1]

\* TX1.  Of the message it keeps the id alone.
CreateTxPda(r, m, list) ==
  /\ Admissible(m, list)
  /\ txPdas' = [txPdas EXCEPT ![AddressOf(m)] = m.txId]
  /\ counters' = [counters EXCEPT ![m.source] = m.txId]
  /\ rent' = [rent EXCEPT ![r] = @ - 1]

\* The PDA at the address of the message exists and holds its id.
HoldsPda(m) == txPdas[AddressOf(m)] = m.txId

\* Faulty variants, for mutation: the PDA stays; its rent stays.
CloseNothing(r, m) ==
  /\ rent' = [rent EXCEPT ![r] = @ + 1]
  /\ UNCHANGED <<counters, txPdas>>
CloseWithoutRefund(r, m) ==
  /\ txPdas' = [txPdas EXCEPT ![AddressOf(m)] = NoAccount]
  /\ UNCHANGED <<counters, rent>>

\* The Anchor constraint close = relayer of TX2: the rent goes to the relayer
\* that sends TX2, whoever paid it in TX1.
CloseTxPda(r, m) ==
  /\ txPdas' = [txPdas EXCEPT ![AddressOf(m)] = NoAccount]
  /\ rent' = [rent EXCEPT ![r] = @ + 1]
  /\ UNCHANGED counters

ReplayNext ==
  \/ \E source \in ChainIds, a \in Authorities : InitializeCounter(source, a)
  \/ \E r \in Relayers, m \in Traffic, list \in SignatureLists : CreateTxPda(r, m, list)
=============================================================================
