---------------------------- MODULE TransactionSize ----------------------------
(***************************************************************************)
(* How many bytes the transactions of the SDK take.  A Solana transaction  *)
(* must fit a packet, web3.js throws "Transaction too large" before it     *)
(* sends a larger one; each signature of a message costs 244 bytes, once   *)
(* in its Ed25519 instruction and once in the program's own vector.        *)
(***************************************************************************)
EXTENDS Integers

PacketSize == 1232

\* The length of a vector in Solana's compact-u16.
CompactLength(n) == IF n < 128 THEN 1 ELSE IF n < 16384 THEN 2 ELSE 3

\* An instruction: the index of its program, the indices of its accounts, its data.
InstructionSize(accounts, data) ==
  1 + CompactLength(accounts) + accounts + CompactLength(data) + data

\* Header, key, signature and hash.
Ed25519InstructionSize == InstructionSize(0, 16 + 32 + 64 + 32)

\* Discriminator, tx_id, two chain ids, four fields with their lengths ("fields"
\* counts the bytes of all four), and n signatures of 64 bytes with their signers.
MainDataSize(fields, n) == 8 + 16 + 2 * 8 + 4 * 4 + fields + 4 + n * (64 + 32)

\* The accounts of create_tx_pda and of process_message with a project registry.
AccountsOf(kind) == IF kind = "tx1" THEN 5 ELSE 8

\* One signature of the relayer, the header, the keys (both programs among them),
\* the blockhash and the instructions.
SignedTransactionSize(kind, fields, n) ==
  (1 + 64) + 3 + (1 + 32 * (AccountsOf(kind) + 2)) + 32
    + CompactLength(n + 1) + n * Ed25519InstructionSize
    + InstructionSize(AccountsOf(kind), MainDataSize(fields, n))

\* Faulty variant, for mutation: no limit.
AlwaysFits(kind, fields, n) == TRUE

Fits(kind, fields, n) == SignedTransactionSize(kind, fields, n) <= PacketSize
=============================================================================
