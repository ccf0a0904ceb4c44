------------------------------ MODULE WireFormat ------------------------------
(***************************************************************************)
(* The bytes that both sides must agree on: the encoding of a message      *)
(* whose Keccak hash validators sign (utils/hash.rs and the SDK's          *)
(* createMessageHash), and the seeds from which the program and the SDK    *)
(* derive the addresses of accounts.  Numbers have a fixed width and are   *)
(* little endian; the four byte strings of a message carry their length in *)
(* front.  Both are plain concatenations, without any separator.           *)
(* The widths are constants: 16, 8 and 4 bytes in the code.                *)
(***************************************************************************)
EXTENDS SequencesExt, Integers

CONSTANTS
  TxIdBytes,     \* width of a tx_id (u128), 16 in the code
  ChainIdBytes,  \* width of a chain id (u64), 8 in the code
  LengthBytes,   \* width of a length (u32), 4 in the code
  MaxSender, MaxRecipient, MaxOnChainData, MaxOffChainData  \* 64, 64, 1024, 1024

Byte == 0 .. 255

\* What is left of a number after each of so many bytes is shifted out of it.
Shifted(n, width) ==
  LET rest[i \in 0 .. width] == IF i = 0 THEN n ELSE rest[i - 1] \div 256
  IN  rest

\* The numbers that fit into so many bytes.
Unsigned(width) == {n \in Nat : Shifted(n, width)[width] = 0}

ASSUME WidthsAssumption ==
  /\ {TxIdBytes, ChainIdBytes, LengthBytes} \subseteq Nat \ {0}
  /\ {MaxSender, MaxRecipient, MaxOnChainData, MaxOffChainData} \subseteq Unsigned(LengthBytes)

\* toArrayLike("le"), writeUInt32LE, to_le_bytes: the low byte first.
LittleEndian(n, width) == [i \in 1 .. width |-> Shifted(n, width)[i - 1] % 256]

-----------------------------------------------------------------------------
CrossChainMessages ==
  [txId : Nat, source : Nat, dest : Nat,
   sender : Seq(Byte), recipient : Seq(Byte), onChainData : Seq(Byte), offChainData : Seq(Byte)]

\* The types of the handlers' parameters: Borsh decodes nothing wider.
IsTyped(m) ==
  /\ m.txId \in Unsigned(TxIdBytes)
  /\ {m.source, m.dest} \subseteq Unsigned(ChainIdBytes)

\* create_cross_chain_hash refuses longer fields.
WithinLimits(m) ==
  /\ Len(m.sender) <= MaxSender
  /\ Len(m.recipient) <= MaxRecipient
  /\ Len(m.onChainData) <= MaxOnChainData
  /\ Len(m.offChainData) <= MaxOffChainData

\* Faulty variant, for mutation: the fields one after the other.
Unprefixed(data) == data

LengthPrefixed(data) == LittleEndian(Len(data), LengthBytes) \o data

\* What the program hashes.  Keccak is taken to be free of collisions, so the
\* bytes stand for the hash.
Encoded(m) ==
  LittleEndian(m.txId, TxIdBytes)
    \o LittleEndian(m.source, ChainIdBytes)
    \o LittleEndian(m.dest, ChainIdBytes)
    \o LengthPrefixed(m.sender)
    \o LengthPrefixed(m.recipient)
    \o LengthPrefixed(m.onChainData)
    \o LengthPrefixed(m.offChainData)

\* The SDK encodes what its numbers and lengths have room for, toArrayLike and
\* writeUInt32LE throw otherwise; it knows no limit on the fields.
SdkEncodes(m) ==
  /\ IsTyped(m)
  /\ \A data \in {m.sender, m.recipient, m.onChainData, m.offChainData} :
       Len(data) \in Unsigned(LengthBytes)

\* What the SDK hashes.
SdkEncoded(m) ==
  LittleEndian(m.txId, TxIdBytes)
    \o LittleEndian(m.source, ChainIdBytes)
    \o LittleEndian(m.dest, ChainIdBytes)
    \o LengthPrefixed(m.sender)
    \o LengthPrefixed(m.recipient)
    \o LengthPrefixed(m.onChainData)
    \o LengthPrefixed(m.offChainData)

-----------------------------------------------------------------------------
\* The seed strings, in ASCII: "gateway", "counter", "signer_registry", "tx".
GatewaySeed == <<103, 97, 116, 101, 119, 97, 121>>
CounterSeed == <<99, 111, 117, 110, 116, 101, 114>>
SignerRegistrySeed ==
  <<115, 105, 103, 110, 101, 114, 95, 114, 101, 103, 105, 115, 116, 114, 121>>
TxSeed == <<116, 120>>

\* SignerRegistryType::discriminant and registryTypeToDiscriminant, one byte.
Discriminant(type) == CASE type = "via" -> 0 [] type = "chain" -> 1 [] type = "project" -> 2

RegistryKinds == {"via", "chain", "project"}

\* The accounts that go with some chains and ids.
AccountsWith(chains, txIds) ==
  [kind : {"gateway", "counter"}, chain : chains]
    \cup [kind : {"registry"}, type : RegistryKinds, chain : chains]
    \cup [kind : {"tx"}, chain : chains, txId : txIds]

\* Faulty variant, for mutation: a registry's type left out.
SeedsWithoutType(account) ==
  CASE account.kind = "gateway" -> GatewaySeed \o LittleEndian(account.chain, ChainIdBytes)
    [] account.kind = "counter" -> CounterSeed \o LittleEndian(account.chain, ChainIdBytes)
    [] account.kind = "registry" -> SignerRegistrySeed \o LittleEndian(account.chain, ChainIdBytes)
    [] account.kind = "tx" ->
         TxSeed \o LittleEndian(account.chain, ChainIdBytes) \o LittleEndian(account.txId, TxIdBytes)

\* The seeds in the #[account] constraints of the program; the runtime hashes
\* them one after the other.
ProgramSeeds(account) ==
  CASE account.kind = "gateway" -> GatewaySeed \o LittleEndian(account.chain, ChainIdBytes)
    [] account.kind = "counter" -> CounterSeed \o LittleEndian(account.chain, ChainIdBytes)
    [] account.kind = "registry" ->
         SignerRegistrySeed \o <<Discriminant(account.type)>>
           \o LittleEndian(account.chain, ChainIdBytes)
    [] account.kind = "tx" ->
         TxSeed \o LittleEndian(account.chain, ChainIdBytes) \o LittleEndian(account.txId, TxIdBytes)

GatewayPda(chain) == GatewaySeed \o LittleEndian(chain, ChainIdBytes)

CounterPda(source) == CounterSeed \o LittleEndian(source, ChainIdBytes)

SignerRegistryPda(type, chain) ==
  SignerRegistrySeed \o <<Discriminant(type)>> \o LittleEndian(chain, ChainIdBytes)

TxIdPda(source, txId) ==
  TxSeed \o LittleEndian(source, ChainIdBytes) \o LittleEndian(txId, TxIdBytes)

\* ViaLabsPDAs: where the SDK looks for an account.
SdkSeeds(account) ==
  CASE account.kind = "gateway" -> GatewayPda(account.chain)
    [] account.kind = "counter" -> CounterPda(account.chain)
    [] account.kind = "registry" -> SignerRegistryPda(account.type, account.chain)
    [] account.kind = "tx" -> TxIdPda(account.chain, account.txId)
=============================================================================
