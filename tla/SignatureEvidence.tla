--------------------------- MODULE SignatureEvidence ---------------------------
(***************************************************************************)
(* How a signature reaches the program: the SDK hashes and signs a message *)
(* and puts one Ed25519 instruction per signature in front of the main     *)
(* instruction; Solana's Ed25519 program lets the transaction through only *)
(* if the signatures its instructions point to are genuine; the program    *)
(* looks for each entry of its signature vector in the instructions before *)
(* its own and reads their data at fixed offsets.                          *)
(*                                                                         *)
(* An Ed25519 instruction begins with a header that says where its key,    *)
(* signature and message are.  The SDK's header points to the offsets that *)
(* the program reads; the program itself does not look at the header.  So  *)
(* instructions have a layout here: "own" has the SDK's header, "other"    *)
(* any other one.                                                          *)
(***************************************************************************)
EXTENDS WireFormat

CONSTANTS
  Keys,             \* keypairs of validators
  Messages,         \* the messages that are signed and submitted
  MaxVectorLength   \* bounds the signature vectors that are submitted

ASSUME EvidenceAssumption ==
  /\ Messages \subseteq CrossChainMessages
  /\ MaxVectorLength \in Nat

VARIABLES
  signatures,  \* the MessageSignature objects that exist
  signedBy,    \* who was made to sign which message: pairs <<key, message>>
  verified     \* whose entry the program found valid for which message, in an
               \* instruction of which layout: triples <<key, message, layout>>

evidenceVars == <<signatures, signedBy, verified>>

Layouts == {"own", "other"}

\* An Ed25519 signature is a function of the key and of what is signed.
SignMessage(hash, k) == <<k, hash>>

MessageSignature(m, k) == [signature |-> SignMessage(SdkEncoded(m), k), signer |-> k]

\* Nothing is ever signed that the SDK cannot encode.
EvidenceTypeOK ==
  /\ signatures \subseteq {MessageSignature(m, k) : m \in Messages, k \in Keys}
  /\ signedBy \subseteq Keys \X {m \in Messages : SdkEncodes(m)}
  /\ verified \subseteq Keys \X Messages \X Layouts

EvidenceInit ==
  /\ signatures = {}
  /\ signedBy = {}
  /\ verified = {}

-----------------------------------------------------------------------------
\* So many bytes that together are one value.
Cells(size, value) == [i \in 1 .. size |-> <<value, i>>]

\* The data of an Ed25519 instruction: header, key, signature, message.
Ed25519Data(layout, signature, signer, hash) ==
  Cells(16, layout) \o Cells(32, signer) \o Cells(64, signature) \o Cells(32, hash)

\* What the header at the beginning of the data says.
LayoutOf(data) == data[1][1]

Ed25519Instruction(layout, sig, hash) ==
  [program |-> "ed25519", data |-> Ed25519Data(layout, sig.signature, sig.signer, hash)]

\* The SDK's, of Ed25519Program.createInstructionWithPublicKey.
CreateEd25519Instruction(sig, hash) == Ed25519Instruction("own", sig, hash)

MainInstruction(m, list) == [program |-> "gateway", message |-> m, signatures |-> list]

SdkInstructions(m, list) ==
  [i \in DOMAIN list |-> CreateEd25519Instruction(list[i], SdkEncoded(m))]

\* Faulty variant, for mutation: the main instruction first.
MainInstructionFirst(m, list) == <<MainInstruction(m, list)>> \o SdkInstructions(m, list)

\* createTxPdaWithSignatures and processMessageWithSignatures.
SignedTransaction(m, list) == SdkInstructions(m, list) \o <<MainInstruction(m, list)>>

\* createTxPda and processMessage.
PlainTransaction(m, list) == <<MainInstruction(m, list)>>

\* A transaction put together without the SDK: any signer may send one.
ForeignTransaction(m, list, layouts) ==
  [i \in DOMAIN list |-> Ed25519Instruction(layouts[i], list[i], SdkEncoded(m))]
    \o <<MainInstruction(m, list)>>

\* The Ed25519 program: the transaction runs only if what each of its Ed25519
\* instructions points to is a signature that its key really made.  With the
\* SDK's header these are the bytes that the program reads; with another one
\* they are bytes elsewhere, and nothing follows for those it reads.
Ed25519Passes(tx) ==
  \A i \in DOMAIN tx : tx[i].program = "ed25519" /\ LayoutOf(tx[i].data) = "own" =>
    \E sig \in signatures : tx[i] = CreateEd25519Instruction(sig, sig.signature[2])

\* parse_ed25519_instruction: the header is not read.
ParsedMatches(data, entry, hash) ==
  /\ Len(data) >= 144
  /\ SubSeq(data, 49, 112) = Cells(64, entry.signature)
  /\ SubSeq(data, 17, 48) = Cells(32, entry.signer)
  /\ SubSeq(data, 113, 144) = Cells(32, hash)

\* verify_ed25519_signature for the instruction at position "current": where it
\* finds the entry.
VerifyEd25519Signature(tx, current, entry, hash) ==
  {i \in 1 .. current - 1 :
     tx[i].program = "ed25519" /\ ParsedMatches(tx[i].data, entry, hash)}

Entries(tx) ==
  UNION {ToSet(tx[i].signatures) : i \in {j \in DOMAIN tx : tx[j].program = "gateway"}}

\* The entries that the program finds valid, each with where it is found.
Findings(tx) ==
  {finding \in Entries(tx) \X DOMAIN tx :
     \E current \in DOMAIN tx :
       /\ tx[current].program = "gateway"
       /\ finding[2] \in VerifyEd25519Signature(tx, current, finding[1],
                                                Encoded(tx[current].message))}

ValidEntries(tx) == {finding[1] : finding \in Findings(tx)}

\* The program only gets to the signatures of a message that its types can hold
\* and whose fields are short enough.
Hashable(m) == IsTyped(m) /\ WithinLimits(m)

-----------------------------------------------------------------------------
\* Faulty variant, for mutation: the numbers truncated to their width.
SignTruncated(k, m) ==
  /\ signatures' = signatures \cup {MessageSignature(m, k)}
  /\ signedBy' = signedBy \cup {<<k, m>>}

\* createMessageSignature; it throws when it cannot encode the message.
Sign(k, m) ==
  /\ SdkEncodes(m)
  /\ signatures' = signatures \cup {MessageSignature(m, k)}
  /\ signedBy' = signedBy \cup {<<k, m>>}

SignOnly(k, m) == Sign(k, m) /\ UNCHANGED verified

\* A relayer submits a message in one of these transactions.
Submit(tx, m) ==
  /\ Hashable(m)
  /\ Ed25519Passes(tx)
  /\ verified' = verified \cup
       {<<finding[1].signer, m, LayoutOf(tx[finding[2]].data)>> : finding \in Findings(tx)}
  /\ UNCHANGED <<signatures, signedBy>>

\* Vectors of the signatures that exist, of whatever message, and vectors with
\* entries that nobody signed, which have the same form.
GivenVectors == BoundedSeq(signatures, MaxVectorLength)
AnyVectors == BoundedSeq({MessageSignature(m, k) : m \in Messages, k \in Keys}, MaxVectorLength)

EvidenceNext ==
  \/ \E k \in Keys, m \in Messages : SignOnly(k, m)
  \/ \E m \in Messages, list \in GivenVectors :
       Submit(SignedTransaction(m, list), m) \/ Submit(PlainTransaction(m, list), m)
  \/ \E m \in Messages, list \in AnyVectors : \E layouts \in [DOMAIN list -> Layouts] :
       Submit(ForeignTransaction(m, list, layouts), m)

EvidenceSpec == EvidenceInit /\ [][EvidenceNext]_evidenceVars

-----------------------------------------------------------------------------
\* Whoever's entry is found valid for a message in an instruction with the SDK's
\* header was made to sign this very message and not another one with the same
\* hash, whichever vectors and other instructions are submitted with it
\* (hash.rs:45, signature.rs:14-88).  Nothing is said of instructions with other
\* headers, which the program takes as well.
VerifiedIsGenuine ==
  \A k \in Keys, m \in Messages : <<k, m, "own">> \in verified => <<k, m>> \in signedBy

\* The other way round, no genuine signature is lost: whenever signers were made
\* to sign a message that the program can hash, the transaction that the SDK
\* builds of their signatures passes, and all its entries are found valid: the
\* two hashes agree, and so do the two ideas of the instruction's layout
\* (signatures.ts:30, sdk.ts:155-162, signature.rs:71-73).
GenuineVerifies ==
  \A m \in Messages : Hashable(m) =>
    LET list == SetToSeq({MessageSignature(m, k) : k \in {x \in Keys : <<x, m>> \in signedBy}})
        tx == SignedTransaction(m, list)
    IN  Ed25519Passes(tx) /\ ValidEntries(tx) = ToSet(list)

\* The accounts that messages which were signed lead to.
Named ==
  LET messages == {pair[2] : pair \in signedBy}
  IN  AccountsWith({m.source : m \in messages} \cup {m.dest : m \in messages},
                   {m.txId : m \in messages})

\* The SDK finds the accounts of the program for every message that was signed,
\* and no two of them share an address, however numbers and seed strings follow
\* each other (the #[account] constraints, pdas.ts:37-101).
AddressesMatch ==
  \A a, b \in Named : SdkSeeds(a) = ProgramSeeds(b) <=> a = b
=============================================================================
