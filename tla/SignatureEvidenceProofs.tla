------------------------ MODULE SignatureEvidenceProofs ------------------------
(***************************************************************************)
(* Theorems about SignatureEvidence, for any validators and messages and   *)
(* for signature vectors of any length: what the program finds valid in an *)
(* instruction with the SDK's header is a signature of the message,        *)
(* because that header points to the bytes the program reads, the Ed25519  *)
(* program lets no false signature through there and the encoding of       *)
(* messages is injective.  The other way round, every signature is found   *)
(* valid, since both sides agree on encoding and layout.                   *)
(***************************************************************************)
EXTENDS SignatureEvidence, WireFormatProofs, FiniteSetTheorems

\* Every signature is one that its signer was made to give to some message.
SignaturesAreGiven ==
  \A sig \in signatures : \E pair \in signedBy : sig = MessageSignature(pair[2], pair[1])

EvidenceInv == EvidenceTypeOK /\ SignaturesAreGiven /\ VerifiedIsGenuine

-----------------------------------------------------------------------------
(* Instructions *)

\* One sequence consists of two others.
Follows(whole, s, t) ==
  /\ Len(whole) = Len(s) + Len(t)
  /\ \A i \in 1 .. Len(s) : whole[i] = s[i]
  /\ \A i \in 1 .. Len(t) : whole[Len(s) + i] = t[i]

\* A sequence that follows another one begins where that one ends.
LEMMA Joined ==
  ASSUME NEW T, NEW s \in Seq(T), NEW t \in Seq(T)
  PROVE  s \o t \in Seq(T) /\ Follows(s \o t, s, t)
<1>1. /\ s \o t \in Seq(T)
      /\ Len(s \o t) = Len(s) + Len(t)
      /\ \A i \in 1 .. Len(s) + Len(t) : (s \o t)[i] = IF i <= Len(s) THEN s[i] ELSE t[i - Len(s)]
  BY ConcatProperties
<1>2. ASSUME NEW i \in 1 .. Len(s)
      PROVE  (s \o t)[i] = s[i]
  <2>1. i \in 1 .. Len(s) + Len(t) /\ i <= Len(s)
    OBVIOUS
  <2> QED
    BY <1>1, <2>1
<1>3. ASSUME NEW i \in 1 .. Len(t)
      PROVE  (s \o t)[Len(s) + i] = t[i]
  <2>1. Len(s) + i \in 1 .. Len(s) + Len(t) /\ ~ (Len(s) + i <= Len(s)) /\ Len(s) + i - Len(s) = i
    OBVIOUS
  <2> QED
    BY <1>1, <2>1
<1> QED
  BY <1>1, <1>2, <1>3 DEF Follows

\* Cells are a sequence of their length.
LEMMA CellsSequence ==
  ASSUME NEW size \in Nat, NEW value, NEW T, \A i \in 1 .. size : <<value, i>> \in T
  PROVE  /\ Cells(size, value) \in Seq(T)
         /\ Len(Cells(size, value)) = size
         /\ \A i \in 1 .. size : Cells(size, value)[i] = <<value, i>>
<1> DEFINE cells == Cells(size, value)
<1>1. cells = [i \in 1 .. size |-> <<value, i>>]
  BY DEF Cells
<1> HIDE DEF cells
<1>2. cells \in [1 .. size -> T] /\ \A i \in 1 .. size : cells[i] = <<value, i>>
  BY <1>1
<1>3. \A d \in [1 .. size -> T] : d \in Seq(T) /\ Len(d) = size
  OBVIOUS
<1> QED
  BY <1>2, <1>3 DEF cells

\* What the data of an instruction holds where.
LaidOut(data, layout, signature, signer, hash) ==
  /\ Len(data) = 144
  /\ \A i \in 1 .. 16 : data[i] = <<layout, i>>
  /\ \A i \in 1 .. 32 : data[16 + i] = <<signer, i>>
  /\ \A i \in 1 .. 64 : data[48 + i] = <<signature, i>>
  /\ \A i \in 1 .. 32 : data[112 + i] = <<hash, i>>

\* Header, key, signature and hash lie where the parser looks for them.
LEMMA DataLayout ==
  ASSUME NEW layout, NEW signature, NEW signer, NEW hash
  PROVE  /\ LaidOut(Ed25519Data(layout, signature, signer, hash), layout, signature, signer, hash)
         /\ Ed25519Data(layout, signature, signer, hash)
              \in Seq({layout, signer, signature, hash} \X (1 .. 64))
<1> DEFINE T == {layout, signer, signature, hash} \X (1 .. 64)
           a == Cells(16, layout)
           b == Cells(32, signer)
           c == Cells(64, signature)
           d == Cells(32, hash)
           ab == a \o b
           abc == ab \o c
           data == abc \o d
<1>1. data = Ed25519Data(layout, signature, signer, hash)
  BY DEF Ed25519Data
<1>2. a \in Seq(T) /\ Len(a) = 16 /\ \A i \in 1 .. 16 : a[i] = <<layout, i>>
  <2>1. \A i \in 1 .. 16 : <<layout, i>> \in T
    OBVIOUS
  <2> HIDE DEF T
  <2> QED
    BY <2>1, CellsSequence
<1>3. b \in Seq(T) /\ Len(b) = 32 /\ \A i \in 1 .. 32 : b[i] = <<signer, i>>
  <2>1. \A i \in 1 .. 32 : <<signer, i>> \in T
    OBVIOUS
  <2> HIDE DEF T
  <2> QED
    BY <2>1, CellsSequence
<1>4. c \in Seq(T) /\ Len(c) = 64 /\ \A i \in 1 .. 64 : c[i] = <<signature, i>>
  <2>1. \A i \in 1 .. 64 : <<signature, i>> \in T
    OBVIOUS
  <2> HIDE DEF T
  <2> QED
    BY <2>1, CellsSequence
<1>5. d \in Seq(T) /\ Len(d) = 32 /\ \A i \in 1 .. 32 : d[i] = <<hash, i>>
  <2>1. \A i \in 1 .. 32 : <<hash, i>> \in T
    OBVIOUS
  <2> HIDE DEF T
  <2> QED
    BY <2>1, CellsSequence
<1> HIDE DEF T, a, b, c, d
<1>6. /\ ab \in Seq(T) /\ Len(ab) = 48
      /\ \A i \in 1 .. 16 : ab[i] = a[i]
      /\ \A i \in 1 .. 32 : ab[16 + i] = b[i]
  <2>1. ab \in Seq(T) /\ Follows(ab, a, b)
    BY <1>2, <1>3, Joined
  <2> HIDE DEF ab
  <2> QED
    BY <1>2, <1>3, <2>1 DEF Follows
<1> HIDE DEF ab
<1>7. /\ abc \in Seq(T) /\ Len(abc) = 112
      /\ \A i \in 1 .. 48 : abc[i] = ab[i]
      /\ \A i \in 1 .. 64 : abc[48 + i] = c[i]
  <2>1. abc \in Seq(T) /\ Follows(abc, ab, c)
    BY <1>4, <1>6, Joined
  <2> HIDE DEF abc
  <2> QED
    BY <1>4, <1>6, <2>1 DEF Follows
<1> HIDE DEF abc
<1>8. /\ data \in Seq(T) /\ Len(data) = 144
      /\ \A i \in 1 .. 112 : data[i] = abc[i]
      /\ \A i \in 1 .. 32 : data[112 + i] = d[i]
  <2>1. data \in Seq(T) /\ Follows(data, abc, d)
    BY <1>5, <1>7, Joined
  <2> HIDE DEF data
  <2> QED
    BY <1>5, <1>7, <2>1 DEF Follows
<1> HIDE DEF data
<1>9. ASSUME NEW i \in 1 .. 16
      PROVE  data[i] = <<layout, i>>
  <2>1. i \in 1 .. 48 /\ i \in 1 .. 112
    OBVIOUS
  <2>2. data[i] = abc[i]
    BY <1>8, <2>1
  <2>3. abc[i] = ab[i]
    BY <1>7, <2>1
  <2>4. ab[i] = a[i]
    BY <1>6
  <2> QED
    BY <1>2, <2>2, <2>3, <2>4
<1>10. ASSUME NEW i \in 1 .. 32
       PROVE  data[16 + i] = <<signer, i>>
  <2>1. 16 + i \in 1 .. 48 /\ 16 + i \in 1 .. 112
    OBVIOUS
  <2>2. data[16 + i] = abc[16 + i]
    BY <1>8, <2>1
  <2>3. abc[16 + i] = ab[16 + i]
    BY <1>7, <2>1
  <2>4. ab[16 + i] = b[i]
    BY <1>6
  <2> QED
    BY <1>3, <2>2, <2>3, <2>4
<1>11. ASSUME NEW i \in 1 .. 64
       PROVE  data[48 + i] = <<signature, i>>
  <2>1. 48 + i \in 1 .. 112
    OBVIOUS
  <2>2. data[48 + i] = abc[48 + i]
    BY <1>8, <2>1
  <2>3. abc[48 + i] = c[i]
    BY <1>7
  <2> QED
    BY <1>4, <2>2, <2>3
<1>12. \A i \in 1 .. 32 : data[112 + i] = <<hash, i>>
  BY <1>5, <1>8
<1>13. LaidOut(data, layout, signature, signer, hash)
  BY <1>8, <1>9, <1>10, <1>11, <1>12 DEF LaidOut
<1> QED
  BY <1>1, <1>8, <1>13 DEF T

\* The header tells the layout.
LEMMA LayoutsAgree ==
  ASSUME NEW layout, NEW sig, NEW hash
  PROVE  LayoutOf(Ed25519Instruction(layout, sig, hash).data) = layout
<1>1. Ed25519Instruction(layout, sig, hash).data = Ed25519Data(layout, sig.signature, sig.signer, hash)
  BY DEF Ed25519Instruction
<1>2. Ed25519Data(layout, sig.signature, sig.signer, hash)[1] = <<layout, 1>>
  <2> DEFINE data == Ed25519Data(layout, sig.signature, sig.signer, hash)
  <2>1. LaidOut(data, layout, sig.signature, sig.signer, hash)
    BY DataLayout
  <2> HIDE DEF data
  <2>2. data[1] = <<layout, 1>>
    BY <2>1 DEF LaidOut
  <2> QED
    BY <2>2 DEF data
<1> QED
  BY <1>1, <1>2 DEF LayoutOf

\* What the parser compares is what the SDK's instruction was made of.
LEMMA ParsedFields ==
  ASSUME NEW sig, NEW entry, NEW hash,
         ParsedMatches(CreateEd25519Instruction(sig, sig.signature[2]).data, entry, hash)
  PROVE  sig.signer = entry.signer /\ sig.signature[2] = hash
<1> DEFINE data == Ed25519Data("own", sig.signature, sig.signer, sig.signature[2])
<1>1. data = CreateEd25519Instruction(sig, sig.signature[2]).data
  BY DEF CreateEd25519Instruction, Ed25519Instruction
<1>2. data[17] = <<sig.signer, 1>> /\ data[113] = <<sig.signature[2], 1>>
  <2>1. LaidOut(data, "own", sig.signature, sig.signer, sig.signature[2])
    BY DataLayout
  <2> HIDE DEF data
  <2>2. data[16 + 1] = <<sig.signer, 1>> /\ data[112 + 1] = <<sig.signature[2], 1>>
    BY <2>1 DEF LaidOut
  <2> QED
    BY <2>2
<1> HIDE DEF data
<1>3. SubSeq(data, 17, 48) = Cells(32, entry.signer) /\ SubSeq(data, 113, 144) = Cells(32, hash)
  BY <1>1 DEF ParsedMatches
<1>4. SubSeq(data, 17, 48)[1] = data[17] /\ SubSeq(data, 113, 144)[1] = data[113]
  OBVIOUS
<1>5. Cells(32, entry.signer)[1] = <<entry.signer, 1>> /\ Cells(32, hash)[1] = <<hash, 1>>
  BY DEF Cells
<1> QED
  BY <1>2, <1>3, <1>4, <1>5

\* The transactions that Submit is called with.
Submitted(tx, m) ==
  \/ \E list \in GivenVectors : tx = SignedTransaction(m, list) \/ tx = PlainTransaction(m, list)
  \/ \E list \in AnyVectors : \E layouts \in [DOMAIN list -> Layouts] :
       tx = ForeignTransaction(m, list, layouts)

EntryValues == {MessageSignature(m, k) : m \in Messages, k \in Keys}

\* Each is a row of Ed25519 instructions, possibly none, and the main instruction.
LEMMA TransactionShape ==
  ASSUME signatures \subseteq EntryValues, NEW m, NEW tx, Submitted(tx, m)
  PROVE  \E list \in Seq(EntryValues) :
           /\ \E n \in Nat : DOMAIN tx = 1 .. n
           /\ \A i \in DOMAIN tx :
                \/ tx[i] = MainInstruction(m, list)
                \/ /\ tx[i].program = "ed25519"
                   /\ LayoutOf(tx[i].data) \in Layouts
<1>1. ASSUME NEW S, NEW list \in Seq(S), NEW layouts \in [DOMAIN list -> Layouts]
      PROVE  LET e == [i \in DOMAIN list |->
                         Ed25519Instruction(layouts[i], list[i], SdkEncoded(m))]
                 main == <<MainInstruction(m, list)>>
             IN  /\ \E n \in Nat : DOMAIN (e \o main) = 1 .. n
                 /\ \A i \in DOMAIN (e \o main) :
                      \/ (e \o main)[i] = MainInstruction(m, list)
                      \/ /\ (e \o main)[i].program = "ed25519"
                         /\ LayoutOf((e \o main)[i].data) \in Layouts
  <2> DEFINE e == [i \in DOMAIN list |->
                     Ed25519Instruction(layouts[i], list[i], SdkEncoded(m))]
             main == <<MainInstruction(m, list)>>
             one == {e[i] : i \in DOMAIN list}
             T == one \cup {MainInstruction(m, list)}
  <2>1. \A x \in one : x.program = "ed25519" /\ LayoutOf(x.data) \in Layouts
    <3> SUFFICES ASSUME NEW i \in DOMAIN list
                 PROVE  /\ e[i].program = "ed25519"
                        /\ LayoutOf(e[i].data) \in Layouts
      OBVIOUS
    <3>1. e[i] = Ed25519Instruction(layouts[i], list[i], SdkEncoded(m))
      OBVIOUS
    <3>2. Ed25519Instruction(layouts[i], list[i], SdkEncoded(m)).program = "ed25519"
      BY DEF Ed25519Instruction
    <3>3. LayoutOf(Ed25519Instruction(layouts[i], list[i], SdkEncoded(m)).data) = layouts[i]
      BY LayoutsAgree
    <3> HIDE DEF e
    <3> QED
      BY <3>1, <3>2, <3>3
  <2>2. e \in Seq(T) /\ main \in Seq(T)
    OBVIOUS
  <2> HIDE DEF T, e, main
  <2>3. e \o main \in Seq(T)
    BY <2>2, ConcatProperties
  <2>4. /\ \E n \in Nat : DOMAIN (e \o main) = 1 .. n
        /\ \A i \in DOMAIN (e \o main) : (e \o main)[i] \in T
    BY <2>3
  <2>5. \A x \in T : \/ x = MainInstruction(m, list)
                     \/ x.program = "ed25519" /\ LayoutOf(x.data) \in Layouts
    BY <2>1 DEF T
  <2> QED
    BY <2>4, <2>5 DEF e, main
<1>2. ASSUME NEW list \in GivenVectors, tx = SignedTransaction(m, list)
      PROVE  tx = ForeignTransaction(m, list, [i \in DOMAIN list |-> "own"])
  BY <1>2 DEF SignedTransaction, SdkInstructions, CreateEd25519Instruction, ForeignTransaction
<1>3. ASSUME NEW list \in Seq(EntryValues), NEW layouts \in [DOMAIN list -> Layouts],
             tx = ForeignTransaction(m, list, layouts)
      PROVE  /\ \E n \in Nat : DOMAIN tx = 1 .. n
             /\ \A i \in DOMAIN tx :
                  \/ tx[i] = MainInstruction(m, list)
                  \/ tx[i].program = "ed25519" /\ LayoutOf(tx[i].data) \in Layouts
  BY <1>1, <1>3 DEF ForeignTransaction
<1>4. /\ \A list \in GivenVectors : list \in Seq(EntryValues)
      /\ \A list \in AnyVectors : list \in Seq(EntryValues)
  <2>1. \A list \in GivenVectors : list \in Seq(signatures)
    BY DEF GivenVectors, BoundedSeq, SeqOf
  <2>2. \A list \in AnyVectors : list \in Seq(EntryValues)
    BY DEF AnyVectors, BoundedSeq, SeqOf, EntryValues
  <2> QED
    BY <2>1, <2>2, SeqMonotonic
<1>5. CASE \E list \in GivenVectors : tx = PlainTransaction(m, list)
  BY <1>4, <1>5 DEF PlainTransaction
<1>6. CASE \E list \in GivenVectors : tx = SignedTransaction(m, list)
  <2>1. PICK list \in GivenVectors : tx = SignedTransaction(m, list)
    BY <1>6
  <2>2. [i \in DOMAIN list |-> "own"] \in [DOMAIN list -> Layouts]
    BY DEF Layouts
  <2> QED
    BY <1>2, <1>3, <1>4, <2>1, <2>2
<1>7. CASE \E list \in AnyVectors : \E layouts \in [DOMAIN list -> Layouts] :
             tx = ForeignTransaction(m, list, layouts)
  BY <1>3, <1>4, <1>7
<1> QED
  BY <1>5, <1>6, <1>7 DEF Submitted

\* An entry that is found valid is one of the vector's, and is found in an
\* Ed25519 instruction that matches it.
LEMMA EntriesHaveInstructions ==
  ASSUME signatures \subseteq EntryValues,
         NEW m, NEW tx, Submitted(tx, m), NEW finding \in Findings(tx)
  PROVE  /\ finding[1] \in EntryValues
         /\ finding[2] \in DOMAIN tx
         /\ tx[finding[2]].program = "ed25519"
         /\ LayoutOf(tx[finding[2]].data) \in Layouts
         /\ ParsedMatches(tx[finding[2]].data, finding[1], Encoded(m))
<1>1. PICK list \in Seq(EntryValues) :
        \A i \in DOMAIN tx :
          \/ tx[i] = MainInstruction(m, list)
          \/ tx[i].program = "ed25519" /\ LayoutOf(tx[i].data) \in Layouts
  BY TransactionShape
<1>2. /\ MainInstruction(m, list).program = "gateway"
      /\ MainInstruction(m, list).message = m
      /\ MainInstruction(m, list).signatures = list
  BY DEF MainInstruction
<1>3. \A i \in DOMAIN tx : tx[i].program = "gateway" => tx[i] = MainInstruction(m, list)
  BY <1>1
<1>4. finding[1] \in Entries(tx) /\ finding[2] \in DOMAIN tx
  BY DEF Findings
<1>5. PICK current \in DOMAIN tx :
        /\ tx[current].program = "gateway"
        /\ finding[2] \in VerifyEd25519Signature(tx, current, finding[1],
                                                 Encoded(tx[current].message))
  BY DEF Findings
<1>6. /\ tx[finding[2]].program = "ed25519"
      /\ ParsedMatches(tx[finding[2]].data, finding[1], Encoded(m))
  BY <1>2, <1>3, <1>5 DEF VerifyEd25519Signature
<1>7. LayoutOf(tx[finding[2]].data) \in Layouts
  BY <1>1, <1>2, <1>4, <1>6
<1>8. PICK j \in DOMAIN tx : tx[j].program = "gateway" /\ finding[1] \in ToSet(tx[j].signatures)
  BY <1>4 DEF Entries
<1>9. finding[1] \in ToSet(list)
  BY <1>2, <1>3, <1>8
<1>10. finding[1] \in EntryValues
  BY <1>9 DEF ToSet
<1> QED
  BY <1>4, <1>6, <1>7, <1>10

-----------------------------------------------------------------------------
(* The invariant *)

\* Nothing is signed and nothing verified in the beginning.
LEMMA EvidenceInitially == EvidenceInit => EvidenceInv
BY DEF EvidenceInit, EvidenceInv, EvidenceTypeOK, SignaturesAreGiven, VerifiedIsGenuine

\* createMessageSignature gives one signature, and never of a message that it
\* cannot encode.
LEMMA SignPreserves ==
  ASSUME EvidenceInv, NEW k \in Keys, NEW m \in Messages, Sign(k, m)
  PROVE  /\ signatures' \subseteq {MessageSignature(x, y) : x \in Messages, y \in Keys}
         /\ signedBy' \subseteq Keys \X {x \in Messages : SdkEncodes(x)}
         /\ signedBy \subseteq signedBy'
         /\ SignaturesAreGiven'
<1>1. signatures' \subseteq {MessageSignature(x, y) : x \in Messages, y \in Keys}
  BY DEF EvidenceInv, EvidenceTypeOK, Sign
<1>2. signedBy' \subseteq Keys \X {x \in Messages : SdkEncodes(x)} /\ signedBy \subseteq signedBy'
  BY DEF EvidenceInv, EvidenceTypeOK, Sign
<1>3. ASSUME NEW sig \in signatures'
      PROVE  \E pair \in signedBy' : sig = MessageSignature(pair[2], pair[1])
  <2>1. CASE sig \in signatures
    BY <1>2, <2>1 DEF EvidenceInv, SignaturesAreGiven
  <2>2. CASE sig = MessageSignature(m, k)
    <3>1. <<k, m>> \in signedBy'
      BY DEF Sign
    <3> QED
      BY <2>2, <3>1
  <2> QED
    BY <1>3, <2>1, <2>2 DEF Sign
<1> QED
  BY <1>1, <1>2, <1>3 DEF SignaturesAreGiven

\* Whatever transaction comes with a message, the entries found valid under the
\* SDK's header are signatures that their signers were made to give to this
\* message: an instruction that matches an entry holds its key and the message's
\* hash, it passed the Ed25519 program, and no other message has this hash.
LEMMA ValidEntriesAreGenuine ==
  ASSUME EvidenceInv, NEW m \in Messages, Hashable(m), NEW tx, Submitted(tx, m), Ed25519Passes(tx),
         NEW finding \in Findings(tx), LayoutOf(tx[finding[2]].data) = "own"
  PROVE  <<finding[1].signer, m>> \in signedBy
<1> DEFINE entry == finding[1]
           i == finding[2]
<1>1. /\ i \in DOMAIN tx
      /\ tx[i].program = "ed25519"
      /\ ParsedMatches(tx[i].data, entry, Encoded(m))
  BY EntriesHaveInstructions DEF EvidenceInv, EvidenceTypeOK, EntryValues
<1>2. PICK sig \in signatures : tx[i] = CreateEd25519Instruction(sig, sig.signature[2])
  BY <1>1 DEF Ed25519Passes
<1>3. sig.signer = entry.signer /\ sig.signature[2] = Encoded(m)
  BY <1>1, <1>2, ParsedFields
<1>4. PICK pair \in signedBy : sig = MessageSignature(pair[2], pair[1])
  BY DEF EvidenceInv, SignaturesAreGiven
<1>5. PICK k \in Keys, n \in Messages : pair = <<k, n>> /\ SdkEncodes(n)
  BY DEF EvidenceInv, EvidenceTypeOK
<1>6. sig = MessageSignature(n, k)
  BY <1>4, <1>5
<1>7. sig.signer = k /\ sig.signature[2] = SdkEncoded(n)
  BY <1>6 DEF MessageSignature, SignMessage
<1>8. Encoded(n) = Encoded(m)
  BY <1>3, <1>7, HashesAgree
<1>9. m \in CrossChainMessages /\ n \in CrossChainMessages /\ SdkEncodes(m)
  BY EvidenceAssumption, HashableEncodes DEF Hashable
<1>10. n = m
  BY <1>5, <1>8, <1>9, EncodingInjective
<1> QED
  BY <1>3, <1>5, <1>7, <1>10

\* Every step preserves the invariant.
LEMMA EvidenceInductive ==
  ASSUME EvidenceInv, [EvidenceNext]_evidenceVars
  PROVE  EvidenceInv'
<1>1. ASSUME NEW k \in Keys, NEW m \in Messages, SignOnly(k, m)
      PROVE  EvidenceInv'
  <2>1. Sign(k, m) /\ UNCHANGED verified
    BY <1>1 DEF SignOnly
  <2> QED
    BY <2>1, SignPreserves DEF EvidenceInv, EvidenceTypeOK, VerifiedIsGenuine
<1>2. ASSUME NEW m \in Messages, NEW tx, Submitted(tx, m), Submit(tx, m)
      PROVE  EvidenceInv'
  <2>1. Hashable(m) /\ Ed25519Passes(tx) /\ UNCHANGED <<signatures, signedBy>>
    BY <1>2 DEF Submit
  <2> DEFINE found(f) == <<f[1].signer, m, LayoutOf(tx[f[2]].data)>>
  <2>2. verified' = verified \cup {found(f) : f \in Findings(tx)}
    BY <1>2 DEF Submit
  <2>3. ASSUME NEW f \in Findings(tx)
        PROVE  /\ found(f) \in Keys \X Messages \X Layouts
               /\ LayoutOf(tx[f[2]].data) = "own" => <<f[1].signer, m>> \in signedBy
    <3>1. f[1] \in EntryValues /\ LayoutOf(tx[f[2]].data) \in Layouts
      BY <1>2, EntriesHaveInstructions DEF EvidenceInv, EvidenceTypeOK, EntryValues
    <3>2. f[1].signer \in Keys
      BY <3>1 DEF EntryValues, MessageSignature
    <3>3. LayoutOf(tx[f[2]].data) = "own" => <<f[1].signer, m>> \in signedBy
      BY <1>2, <2>1, ValidEntriesAreGenuine
    <3> QED
      BY <3>1, <3>2, <3>3
  <2>4. verified' \subseteq Keys \X Messages \X Layouts
    <3>1. verified \subseteq Keys \X Messages \X Layouts
      BY DEF EvidenceInv, EvidenceTypeOK
    <3> HIDE DEF found
    <3> QED
      BY <2>2, <2>3, <3>1
  <2>5. ASSUME NEW k \in Keys, NEW n \in Messages, <<k, n, "own">> \in verified'
        PROVE  <<k, n>> \in signedBy
    <3>1. CASE <<k, n, "own">> \in verified
      BY <3>1 DEF EvidenceInv, VerifiedIsGenuine
    <3>2. CASE \E f \in Findings(tx) : <<k, n, "own">> = found(f)
      <4>1. PICK f \in Findings(tx) : <<k, n, "own">> = found(f)
        BY <3>2
      <4>2. k = f[1].signer /\ n = m /\ LayoutOf(tx[f[2]].data) = "own"
        BY <4>1
      <4> QED
        BY <2>3, <4>2
    <3> HIDE DEF found
    <3> QED
      BY <2>2, <2>5, <3>1, <3>2
  <2> QED
    BY <2>1, <2>4, <2>5 DEF EvidenceInv, EvidenceTypeOK, VerifiedIsGenuine, SignaturesAreGiven
<1>3. CASE UNCHANGED evidenceVars
  BY <1>3 DEF evidenceVars, EvidenceInv, EvidenceTypeOK, VerifiedIsGenuine, SignaturesAreGiven
<1>4. ASSUME NEW m \in Messages, NEW list \in GivenVectors,
             Submit(SignedTransaction(m, list), m) \/ Submit(PlainTransaction(m, list), m)
      PROVE  EvidenceInv'
  BY <1>2, <1>4 DEF Submitted
<1>5. ASSUME NEW m \in Messages, NEW list \in AnyVectors, NEW layouts \in [DOMAIN list -> Layouts],
             Submit(ForeignTransaction(m, list, layouts), m)
      PROVE  EvidenceInv'
  BY <1>2, <1>5 DEF Submitted
<1> QED
  BY <1>1, <1>3, <1>4, <1>5 DEF EvidenceNext

-----------------------------------------------------------------------------
(* Theorems *)

\* Type correctness; in particular the SDK signs nothing that it cannot encode.
THEOREM EvidenceTypeCorrect == EvidenceSpec => []EvidenceTypeOK
<1>1. EvidenceSpec => []EvidenceInv
  BY EvidenceInitially, EvidenceInductive, PTL DEF EvidenceSpec
<1> QED
  BY <1>1, PTL DEF EvidenceInv

\* Whoever's entry is found valid under the SDK's header was made to sign the
\* message, whatever other entries, instructions and headers come with it.
THEOREM OnlyGenuineVerify == EvidenceSpec => []VerifiedIsGenuine
<1>1. EvidenceSpec => []EvidenceInv
  BY EvidenceInitially, EvidenceInductive, PTL DEF EvidenceSpec
<1> QED
  BY <1>1, PTL DEF EvidenceInv

\* The accounts of messages that were signed are where the SDK looks for them,
\* each at an address of its own.
THEOREM AccountsAreFound == EvidenceSpec => []AddressesMatch
<1>1. EvidenceSpec => []EvidenceInv
  BY EvidenceInitially, EvidenceInductive, PTL DEF EvidenceSpec
<1>2. EvidenceInv => AddressesMatch
  <2> SUFFICES ASSUME EvidenceInv, NEW a \in Named, NEW b \in Named
               PROVE  SdkSeeds(a) = ProgramSeeds(b) <=> a = b
    BY DEF AddressesMatch
  <2> DEFINE messages == {pair[2] : pair \in signedBy}
             chains == {m.source : m \in messages} \cup {m.dest : m \in messages}
             txIds == {m.txId : m \in messages}
  <2>1. \A m \in messages : IsTyped(m)
    BY DEF EvidenceInv, EvidenceTypeOK, SdkEncodes
  <2>2. chains \in SUBSET Unsigned(ChainIdBytes) /\ txIds \in SUBSET Unsigned(TxIdBytes)
    BY <2>1 DEF IsTyped
  <2>3. a \in AccountsWith(chains, txIds) /\ b \in AccountsWith(chains, txIds)
    BY DEF Named
  <2> HIDE DEF chains, txIds
  <2> QED
    BY <2>2, <2>3, AddressesAgree
<1> QED
  BY <1>1, <1>2, PTL

-----------------------------------------------------------------------------
(* What the SDK builds *)

\* The parser finds signature, key and hash where createInstructionWithPublicKey
\* puts them.
LEMMA OwnDataMatches ==
  ASSUME NEW entry, NEW hash
  PROVE  ParsedMatches(Ed25519Data("own", entry.signature, entry.signer, hash), entry, hash)
<1> DEFINE data == Ed25519Data("own", entry.signature, entry.signer, hash)
<1>1. LaidOut(data, "own", entry.signature, entry.signer, hash)
  BY DataLayout
<1>2. PICK T : data \in Seq(T)
  BY DataLayout
<1> HIDE DEF data
<1>3. SubSeq(data, 49, 112) = Cells(64, entry.signature)
  <2>1. SubSeq(data, 49, 112) = [i \in 1 .. 64 |-> data[48 + i]]
    BY <1>1, <1>2 DEF LaidOut
  <2> QED
    BY <1>1, <2>1 DEF LaidOut, Cells
<1>4. SubSeq(data, 17, 48) = Cells(32, entry.signer)
  <2>1. SubSeq(data, 17, 48) = [i \in 1 .. 32 |-> data[16 + i]]
    BY <1>1, <1>2 DEF LaidOut
  <2> QED
    BY <1>1, <2>1 DEF LaidOut, Cells
<1>5. SubSeq(data, 113, 144) = Cells(32, hash)
  <2>1. SubSeq(data, 113, 144) = [i \in 1 .. 32 |-> data[112 + i]]
    BY <1>1, <1>2 DEF LaidOut
  <2>2. \A i \in 1 .. 32 : data[112 + i] = <<hash, i>>
    BY <1>1 DEF LaidOut
  <2> QED
    BY <2>1, <2>2 DEF Cells
<1>6. Len(data) >= 144
  BY <1>1 DEF LaidOut
<1> QED
  BY <1>3, <1>4, <1>5, <1>6 DEF ParsedMatches, data

\* A sequence with one more element.
LEMMA JoinedWithOne ==
  ASSUME NEW T, NEW e \in Seq(T), NEW one \in Seq(T), Len(one) = 1
  PROVE  /\ DOMAIN (e \o one) = 1 .. Len(e) + 1
         /\ \A i \in 1 .. Len(e) : (e \o one)[i] = e[i]
         /\ (e \o one)[Len(e) + 1] = one[1]
<1>1. Len(e) \in Nat
  OBVIOUS
<1>2. e \o one \in Seq(T) /\ Follows(e \o one, e, one)
  BY Joined
<1>3. DOMAIN (e \o one) = 1 .. Len(e) + 1 /\ \A i \in 1 .. Len(e) : (e \o one)[i] = e[i]
  BY <1>1, <1>2 DEF Follows
<1>4. (e \o one)[Len(e) + 1] = one[1]
  BY <1>1, <1>2 DEF Follows
<1> QED
  BY <1>3, <1>4

\* A signed transaction: the Ed25519 instructions in the order of the vector, then
\* the main instruction.
LEMMA SignedLayout ==
  ASSUME NEW m, NEW S, NEW list \in Seq(S)
  PROVE  /\ DOMAIN SignedTransaction(m, list) = 1 .. Len(list) + 1
         /\ \A i \in 1 .. Len(list) :
              SignedTransaction(m, list)[i] = CreateEd25519Instruction(list[i], SdkEncoded(m))
         /\ SignedTransaction(m, list)[Len(list) + 1] = MainInstruction(m, list)
<1> DEFINE T    == {MainInstruction(m, list)}
                     \cup {CreateEd25519Instruction(list[i], SdkEncoded(m)) : i \in DOMAIN list}
           e    == SdkInstructions(m, list)
           main == <<MainInstruction(m, list)>>
<1>1. /\ e \in Seq(T) /\ Len(e) = Len(list) /\ Len(list) \in Nat
      /\ \A i \in 1 .. Len(list) : e[i] = CreateEd25519Instruction(list[i], SdkEncoded(m))
  BY DEF SdkInstructions
<1>2. main \in Seq(T) /\ Len(main) = 1 /\ main[1] = MainInstruction(m, list)
  OBVIOUS
<1> HIDE DEF e, main, T
<1>3. /\ DOMAIN (e \o main) = 1 .. Len(e) + 1
      /\ \A i \in 1 .. Len(e) : (e \o main)[i] = e[i]
      /\ (e \o main)[Len(e) + 1] = main[1]
  BY <1>1, <1>2, JoinedWithOne
<1>4. SignedTransaction(m, list) = e \o main
  BY DEF SignedTransaction, e, main
<1> QED
  BY <1>1, <1>2, <1>3, <1>4

\* All entries of such a transaction are found valid.
LEMMA AllEntriesValid ==
  ASSUME NEW m, NEW S, NEW list \in Seq(S)
  PROVE  ValidEntries(SignedTransaction(m, list)) = ToSet(list)
<1> DEFINE tx == SignedTransaction(m, list)
           last == Len(list) + 1
<1>1. /\ DOMAIN tx = 1 .. last /\ Len(list) \in Nat /\ last \in DOMAIN tx /\ last - 1 = Len(list)
      /\ \A i \in 1 .. Len(list) : tx[i] = CreateEd25519Instruction(list[i], SdkEncoded(m))
      /\ tx[last] = MainInstruction(m, list)
  BY SignedLayout
<1> HIDE DEF tx, last
<1>2. /\ tx[last].program = "gateway" /\ tx[last].message = m /\ tx[last].signatures = list
      /\ \A i \in 1 .. Len(list) : tx[i].program = "ed25519"
  <2>1. tx[last].program = "gateway" /\ tx[last].message = m /\ tx[last].signatures = list
    <3>1. tx[last] = MainInstruction(m, list)
      BY <1>1
    <3> QED
      BY <3>1 DEF MainInstruction
  <2>2. ASSUME NEW i \in 1 .. Len(list)
        PROVE  tx[i].program = "ed25519"
    <3>1. tx[i] = CreateEd25519Instruction(list[i], SdkEncoded(m))
      BY <1>1
    <3> QED
      BY <3>1 DEF CreateEd25519Instruction, Ed25519Instruction
  <2> QED
    BY <2>1, <2>2
<1>3. {i \in DOMAIN tx : tx[i].program = "gateway"} = {last}
  <2>1. \A i \in DOMAIN tx : i = last \/ i \in 1 .. Len(list)
    BY <1>1
  <2> QED
    BY <1>1, <1>2, <2>1
<1>4. Entries(tx) = ToSet(list)
  BY <1>2, <1>3 DEF Entries
<1>5. ASSUME NEW entry \in ToSet(list)
      PROVE  entry \in ValidEntries(tx)
  <2>1. PICK i \in 1 .. Len(list) : entry = list[i]
    BY DEF ToSet
  <2>2. tx[i].data = Ed25519Data("own", entry.signature, entry.signer, SdkEncoded(m))
    <3>1. tx[i] = CreateEd25519Instruction(entry, SdkEncoded(m))
      BY <1>1, <2>1
    <3>2. CreateEd25519Instruction(entry, SdkEncoded(m)).data
            = Ed25519Data("own", entry.signature, entry.signer, SdkEncoded(m))
      BY DEF CreateEd25519Instruction, Ed25519Instruction
    <3> QED
      BY <3>1, <3>2
  <2>3. ParsedMatches(tx[i].data, entry, Encoded(m))
    BY <2>2, OwnDataMatches, HashesAgree
  <2>4. i \in VerifyEd25519Signature(tx, last, entry, Encoded(tx[last].message))
    BY <1>1, <1>2, <2>3 DEF VerifyEd25519Signature
  <2> DEFINE finding == <<entry, i>>
  <2>5. finding \in Entries(tx) \X DOMAIN tx
    BY <1>1, <1>4
  <2>6. finding \in Findings(tx)
    BY <1>1, <1>2, <2>4, <2>5 DEF Findings
  <2> QED
    BY <2>6 DEF ValidEntries
<1>6. ValidEntries(tx) \subseteq ToSet(list)
  BY <1>4 DEF ValidEntries, Findings
<1> QED
  BY <1>5, <1>6 DEF tx

\* When they are signatures of the message, the Ed25519 program agrees.
LEMMA OwnTransactionPasses ==
  ASSUME NEW m, NEW list \in Seq({sig \in signatures : sig.signature[2] = SdkEncoded(m)})
  PROVE  Ed25519Passes(SignedTransaction(m, list))
<1> DEFINE tx == SignedTransaction(m, list)
<1>1. /\ DOMAIN tx = 1 .. Len(list) + 1 /\ Len(list) \in Nat
      /\ \A i \in 1 .. Len(list) : tx[i] = CreateEd25519Instruction(list[i], SdkEncoded(m))
      /\ tx[Len(list) + 1] = MainInstruction(m, list)
  BY SignedLayout
<1> HIDE DEF tx
<1>2. ASSUME NEW i \in DOMAIN tx, tx[i].program = "ed25519"
      PROVE  \E sig \in signatures : tx[i] = CreateEd25519Instruction(sig, sig.signature[2])
  <2>1. i # Len(list) + 1
    BY <1>1, <1>2 DEF MainInstruction
  <2>2. i \in 1 .. Len(list)
    BY <1>1, <2>1
  <2>3. list[i] \in signatures /\ list[i].signature[2] = SdkEncoded(m)
    BY <2>2
  <2> QED
    BY <1>1, <2>2, <2>3
<1> QED
  BY <1>2 DEF Ed25519Passes, tx

\* A finite set can be listed.
LEMMA Listed ==
  ASSUME NEW S, IsFiniteSet(S)
  PROVE  SetToSeq(S) \in Seq(S)
<1>1. Cardinality(S) \in Nat /\ \E f \in [1 .. Cardinality(S) -> S] : IsInjective(f)
  BY FS_CardinalityType DEF ExistsBijection, Bijection, Injection, IsInjective
<1>2. SetToSeq(S) \in [1 .. Cardinality(S) -> S]
  BY <1>1 DEF SetToSeq
<1> QED
  BY <1>1, <1>2

-----------------------------------------------------------------------------
(* Genuine signatures *)

\* Whoever was made to sign a message gave a signature.
SignaturesExist == \A pair \in signedBy : MessageSignature(pair[2], pair[1]) \in signatures

GenuineInv == EvidenceInv /\ SignaturesExist /\ IsFiniteSet(signedBy)

\* Every step preserves this too: one signature is given at a time.
LEMMA GenuineInductive ==
  ASSUME GenuineInv, [EvidenceNext]_evidenceVars
  PROVE  GenuineInv'
<1>1. EvidenceInv'
  BY EvidenceInductive DEF GenuineInv
<1>2. ASSUME NEW k \in Keys, NEW m \in Messages, Sign(k, m)
      PROVE  SignaturesExist' /\ IsFiniteSet(signedBy')
  <2>1. signedBy' = signedBy \cup {<<k, m>>} /\ signatures' = signatures \cup {MessageSignature(m, k)}
    BY <1>2 DEF Sign
  <2>2. IsFiniteSet(signedBy \cup {<<k, m>>})
    BY FS_AddElement DEF GenuineInv
  <2>3. ASSUME NEW pair \in signedBy'
        PROVE  MessageSignature(pair[2], pair[1]) \in signatures'
    <3>1. CASE pair = <<k, m>>
      BY <2>1, <3>1
    <3>2. CASE pair \in signedBy
      BY <2>1, <3>2 DEF GenuineInv, SignaturesExist
    <3> QED
      BY <2>1, <3>1, <3>2
  <2> QED
    BY <2>1, <2>2, <2>3 DEF SignaturesExist, MessageSignature
<1>3. ASSUME UNCHANGED <<signatures, signedBy>>
      PROVE  SignaturesExist' /\ IsFiniteSet(signedBy')
  BY <1>3 DEF GenuineInv, SignaturesExist
<1>4. ASSUME NEW k \in Keys, NEW m \in Messages, SignOnly(k, m)
      PROVE  GenuineInv'
  BY <1>1, <1>2, <1>4 DEF SignOnly, GenuineInv
<1>5. ASSUME NEW tx, NEW m \in Messages, Submit(tx, m)
      PROVE  GenuineInv'
  BY <1>1, <1>3, <1>5 DEF Submit, GenuineInv
<1>6. CASE UNCHANGED evidenceVars
  BY <1>1, <1>3, <1>6 DEF evidenceVars, GenuineInv
<1> QED
  BY <1>4, <1>5, <1>6 DEF EvidenceNext

\* Nothing that was signed in earnest is refused: the transaction of the SDK
\* passes with every signature of a message that the program can hash, and all
\* its entries are found valid (sdk.ts:155-162, signature.rs:71-73).
THEOREM GenuineAlwaysVerify == EvidenceSpec => []GenuineVerifies
<1>1. EvidenceInit => GenuineInv
  BY EvidenceInitially, FS_EmptySet DEF EvidenceInit, GenuineInv, SignaturesExist
<1>2. GenuineInv => GenuineVerifies
  <2> SUFFICES ASSUME GenuineInv, NEW m \in Messages
               PROVE  LET list == SetToSeq({MessageSignature(m, k) : k \in {x \in Keys : <<x, m>> \in signedBy}})
                          tx == SignedTransaction(m, list)
                      IN  Ed25519Passes(tx) /\ ValidEntries(tx) = ToSet(list)
    BY DEF GenuineVerifies
  <2> DEFINE signers == {x \in Keys : <<x, m>> \in signedBy}
             S    == {MessageSignature(m, k) : k \in signers}
             own  == {sig \in signatures : sig.signature[2] = SdkEncoded(m)}
             list == SetToSeq(S)
  <2>1. IsFiniteSet(S)
    <3>1. IsFiniteSet(signedBy)
      BY DEF GenuineInv
    <3> DEFINE given == [pair \in signedBy |-> MessageSignature(m, pair[1])]
               all   == {MessageSignature(m, pair[1]) : pair \in signedBy}
    <3>2. given \in Surjection(signedBy, all)
      BY DEF Surjection
    <3>3. IsFiniteSet(all)
      <4> HIDE DEF given, all
      <4> QED
        BY <3>1, <3>2, FS_Surjection
    <3>4. S \subseteq all
      <4> SUFFICES ASSUME NEW k \in signers
                   PROVE  MessageSignature(m, k) \in all
        OBVIOUS
      <4>1. <<k, m>> \in signedBy /\ <<k, m>>[1] = k
        OBVIOUS
      <4> QED
        BY <4>1
    <3> QED
      BY <3>3, <3>4, FS_Subset
  <2>2. S \subseteq own
    <3> SUFFICES ASSUME NEW k \in signers
                 PROVE  MessageSignature(m, k) \in own
      OBVIOUS
    <3>1. MessageSignature(m, k) \in signatures
      BY DEF GenuineInv, SignaturesExist
    <3>2. MessageSignature(m, k).signature[2] = SdkEncoded(m)
      BY DEF MessageSignature, SignMessage
    <3> QED
      BY <3>1, <3>2
  <2> HIDE DEF S, own
  <2>3. list \in Seq(S) /\ list \in Seq(own)
    BY <2>1, <2>2, Listed, SeqMonotonic
  <2>4. Ed25519Passes(SignedTransaction(m, list))
    BY <2>3, OwnTransactionPasses DEF own
  <2>5. ValidEntries(SignedTransaction(m, list)) = ToSet(list)
    BY <2>3, AllEntriesValid
  <2> QED
    BY <2>4, <2>5 DEF S
<1> QED
  BY <1>1, <1>2, GenuineInductive, PTL DEF EvidenceSpec
=============================================================================
