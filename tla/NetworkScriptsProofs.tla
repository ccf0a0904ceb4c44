-------------------------- MODULE NetworkScriptsProofs --------------------------
(***************************************************************************)
(* Theorems about NetworkScripts, for any number of runs of any of the     *)
(* five scripts, against any deployment.                                   *)
(*                                                                         *)
(* Each call of a script is an instruction of the program, so the program's*)
(* invariant holds here too.  The properties of the scripts need more: the *)
(* shape the registries keep whatever the scripts try (Untampered), what a *)
(* run's position says of the accounts (KeyRegistered, Accounted), and     *)
(* that two runs never get past TX1 with one id (IdsDiffer), for it is the *)
(* id alone that ties a run to its PDA.                                    *)
(***************************************************************************)
EXTENDS NetworkScripts, MessageGatewayProofs

\* No registry but those of Chain exists, and these all or none, as setup left
\* them except that the chain and project registries may have got more signers.
AsDeployed(k, registry) ==
  /\ k[2] = Chain
  /\ registry.authority = Operator
  /\ registry.required = 1
  /\ registry.enabled
  /\ registry.signers # <<>> /\ registry.signers[1] = Wallet
  /\ k[1] = "via" => registry.signers = <<Wallet>>

Untampered ==
  /\ \A k \in RegistryKeys : RegistryExists(k) => AsDeployed(k, registries[k])
  /\ \A k \in RegistryKeys, type \in RegistryTypes : RegistryExists(k) => RegistryExists(Registry(type))

\* A two-layer run gets past its addKey only with its key in the chain registry.
KeyRegistered ==
  \A i \in Scripts : KindOf(i) = "two" /\ at[i] > 1 =>
    /\ RegistryExists(Registry("chain"))
    /\ Contains(registries[Registry("chain")].signers, FreshKey(i, "chain"))

\* A run that is past TX1, as it knows itself.
Past(i) == Current(i).op = "tx2" \/ (Current(i).op = "tx1" /\ status[i] = "done")

\* What became of its message.
Waiting(i) == Pending(MessageOf(i)) /\ processed[MessageOf(i)] = 0

Accounted ==
  \A i \in Scripts : Past(i) =>
    /\ KindOf(i) \in AcceptablePayloads
    /\ Waiting(i) \/ (processed[MessageOf(i)] = 1 /\ KindOf(i) = "two" /\ status[i] # "running")
    /\ status[i] = "done" => (Waiting(i) <=> Current(i).op = "tx1")

\* Only one run gets past TX1 with an id.
IdsDiffer ==
  \A i, j \in Scripts : Past(i) /\ Past(j) /\ ids[i] = ids[j] => i = j

\* A script is done when its last call is.
DoneAtEnd == \A i \in Scripts : status[i] = "done" => at[i] = Len(CallsOf(i)) \/ KindOf(i) = "simple"

ScriptsInv ==
  /\ Inv
  /\ ScriptsTypeOK
  /\ Untampered
  /\ KeyRegistered
  /\ Accounted
  /\ IdsDiffer
  /\ DoneAtEnd
  /\ StrandedHasCause

-----------------------------------------------------------------------------
(* The scripts *)

\* The kinds of script, and the types of registry.
LEMMA ScriptKinds ==
  ASSUME NEW i \in Scripts
  PROVE  KindOf(i) \in {"two", "three", "devnet", "single", "simple"}
BY ScriptsAssumption DEF Kinds

\* The four test scripts end with takeId, tx1 and, but for test-single-signature, tx2.
LEMMA FlowAfterCalls ==
  ASSUME NEW C, NEW front \in Seq(C), \A type \in {"via"}, op \in {"takeId", "tx1", "tx2"} : Call(op, type, 1) \in C
  PROVE  /\ Len(front \o Flow) = Len(front) + 3
         /\ \A p \in 1 .. Len(front) : (front \o Flow)[p] = front[p]
         /\ (front \o Flow)[Len(front) + 1] = Call("takeId", "via", 1)
         /\ (front \o Flow)[Len(front) + 2] = Call("tx1", "via", 1)
         /\ (front \o Flow)[Len(front) + 3] = Call("tx2", "via", 1)
<1>1. Flow \in Seq(C) /\ Len(Flow) = 3
  BY DEF Flow
<1>2. Flow[1] = Call("takeId", "via", 1) /\ Flow[2] = Call("tx1", "via", 1) /\ Flow[3] = Call("tx2", "via", 1)
  BY DEF Flow
<1>3. /\ Len(front \o Flow) = Len(front) + 3
      /\ Len(front) \in Nat
      /\ \A p \in 1 .. Len(front) + 3 :
           (front \o Flow)[p] = IF p <= Len(front) THEN front[p] ELSE Flow[p - Len(front)]
  BY <1>1, ConcatProperties
<1>4. /\ Len(front) + 1 \in 1 .. Len(front) + 3 /\ Len(front) + 1 - Len(front) = 1
      /\ Len(front) + 2 \in 1 .. Len(front) + 3 /\ Len(front) + 2 - Len(front) = 2
      /\ Len(front) + 3 \in 1 .. Len(front) + 3 /\ Len(front) + 3 - Len(front) = 3
  BY <1>3
<1> QED
  BY <1>2, <1>3, <1>4

\* The calls of the scripts that register keys first.
LEMMA KeyCalls ==
  /\ Len(TwoLayer) = 4
  /\ TwoLayer[1] = Call("addKey", "chain", 1)
  /\ TwoLayer[2] = Call("takeId", "via", 1)
  /\ TwoLayer[3] = Call("tx1", "via", 1)
  /\ TwoLayer[4] = Call("tx2", "via", 1)
  /\ Len(ThreeLayer) = 5
  /\ ThreeLayer[1] = Call("addKey", "chain", 1)
  /\ ThreeLayer[2] = Call("addKey", "project", 1)
  /\ ThreeLayer[3] = Call("takeId", "via", 1)
  /\ ThreeLayer[4] = Call("tx1", "via", 1)
  /\ ThreeLayer[5] = Call("tx2", "via", 1)
<1> DEFINE C   == {Call(op, type, 1) : op \in {"addKey", "takeId", "tx1", "tx2"},
                                       type \in {"via", "chain", "project"}}
           one == <<Call("addKey", "chain", 1)>>
           two == <<Call("addKey", "chain", 1), Call("addKey", "project", 1)>>
<1>1. one \in Seq(C) /\ Len(one) = 1 /\ one[1] = Call("addKey", "chain", 1)
  OBVIOUS
<1>2. /\ two \in Seq(C) /\ Len(two) = 2
      /\ two[1] = Call("addKey", "chain", 1) /\ two[2] = Call("addKey", "project", 1)
  OBVIOUS
<1>3. \A type \in {"via"}, op \in {"takeId", "tx1", "tx2"} : Call(op, type, 1) \in C
  OBVIOUS
<1>4. TwoLayer = one \o Flow /\ ThreeLayer = two \o Flow
  BY DEF TwoLayer, ThreeLayer
<1> HIDE DEF one, two, C
<1>5. \A front \in Seq(C) :
        /\ Len(front \o Flow) = Len(front) + 3
        /\ \A p \in 1 .. Len(front) : (front \o Flow)[p] = front[p]
        /\ (front \o Flow)[Len(front) + 1] = Call("takeId", "via", 1)
        /\ (front \o Flow)[Len(front) + 2] = Call("tx1", "via", 1)
        /\ (front \o Flow)[Len(front) + 3] = Call("tx2", "via", 1)
  BY <1>3, FlowAfterCalls
<1>6. /\ Len(TwoLayer) = 1 + 3
      /\ \A p \in 1 .. 1 : TwoLayer[p] = one[p]
      /\ TwoLayer[1 + 1] = Call("takeId", "via", 1)
      /\ TwoLayer[1 + 2] = Call("tx1", "via", 1)
      /\ TwoLayer[1 + 3] = Call("tx2", "via", 1)
  BY <1>1, <1>4, <1>5
<1>7. /\ Len(ThreeLayer) = 2 + 3
      /\ \A p \in 1 .. 2 : ThreeLayer[p] = two[p]
      /\ ThreeLayer[2 + 1] = Call("takeId", "via", 1)
      /\ ThreeLayer[2 + 2] = Call("tx1", "via", 1)
      /\ ThreeLayer[2 + 3] = Call("tx2", "via", 1)
  BY <1>2, <1>4, <1>5
<1> QED
  BY <1>1, <1>2, <1>6, <1>7

\* The calls of a run: "takeId", "tx1" and, but for test-single-signature, "tx2"
\* end a test script, and simple-test has none of these but "takeId".
InOrder(calls, kind, p) ==
  /\ kind = "simple" =>
       /\ Len(calls) = 14
       /\ calls[p].op \notin {"addKey", "tx1", "tx2"}
       /\ calls[p].type = "via"
  /\ kind # "simple" =>
       /\ calls[p].op \in {"addKey", "takeId", "tx1", "tx2"}
       /\ calls[p].op \in {"addKey", "takeId"} => p < Len(calls) /\ calls[p + 1].op # "tx2"
       /\ calls[p].op = "addKey" => kind \in {"two", "three"} /\ calls[p].type \in {"chain", "project"}
       /\ calls[p].op = "tx1" /\ kind = "single" => p = Len(calls)
       /\ calls[p].op = "tx1" /\ kind # "single" => p < Len(calls) /\ calls[p + 1].op = "tx2"
       /\ calls[p].op = "tx2" => p = Len(calls) /\ kind \in {"two", "three", "devnet"}
       /\ p = 1 => calls[p].op \in {"addKey", "takeId"}
       /\ kind = "two" => (p = 1 <=> calls[p].op = "addKey") /\ calls[1].type = "chain"

\* The calls of every run are in this order.
LEMMA CallOrder ==
  ASSUME NEW i \in Scripts
  PROVE  /\ Len(CallsOf(i)) \in 1 .. 14
         /\ \A p \in 1 .. Len(CallsOf(i)) : InOrder(CallsOf(i), KindOf(i), p)
<1> DEFINE Fine(calls, kind, n) ==
             /\ Len(calls) = n
             /\ \A p \in 1 .. n : InOrder(calls, kind, p)
<1>1. Fine(TwoLayer, "two", 4)
  BY KeyCalls DEF InOrder, Call
<1>2. Fine(ThreeLayer, "three", 5)
  BY KeyCalls DEF InOrder, Call
<1>3. Fine(Devnet, "devnet", 3)
  BY DEF InOrder, Call, Devnet, Flow
<1>4. Fine(Single, "single", 2)
  BY DEF InOrder, Call, Single
<1>5. Fine(SimpleTest, "simple", 14)
  BY DEF InOrder, Call, SimpleTest
<1>6. CASE KindOf(i) = "two"
  <2>1. CallsOf(i) = TwoLayer
    BY <1>6 DEF CallsOf
  <2>2. Len(CallsOf(i)) = 4 /\ \A p \in 1 .. 4 : InOrder(CallsOf(i), "two", p)
    BY <1>1, <2>1
  <2> QED
    BY <1>6, <2>2
<1>7. CASE KindOf(i) = "three"
  <2>1. CallsOf(i) = ThreeLayer
    BY <1>7 DEF CallsOf
  <2>2. Len(CallsOf(i)) = 5 /\ \A p \in 1 .. 5 : InOrder(CallsOf(i), "three", p)
    BY <1>2, <2>1
  <2> QED
    BY <1>7, <2>2
<1>8. CASE KindOf(i) = "devnet"
  <2>1. CallsOf(i) = Devnet
    BY <1>8 DEF CallsOf
  <2>2. Len(CallsOf(i)) = 3 /\ \A p \in 1 .. 3 : InOrder(CallsOf(i), "devnet", p)
    BY <1>3, <2>1
  <2> QED
    BY <1>8, <2>2
<1>9. CASE KindOf(i) = "single"
  <2>1. CallsOf(i) = Single
    BY <1>9 DEF CallsOf
  <2>2. Len(CallsOf(i)) = 2 /\ \A p \in 1 .. 2 : InOrder(CallsOf(i), "single", p)
    BY <1>4, <2>1
  <2> QED
    BY <1>9, <2>2
<1>10. CASE KindOf(i) = "simple"
  <2>1. CallsOf(i) = SimpleTest
    BY <1>10 DEF CallsOf
  <2>2. Len(CallsOf(i)) = 14 /\ \A p \in 1 .. 14 : InOrder(CallsOf(i), "simple", p)
    BY <1>5, <2>1
  <2> QED
    BY <1>10, <2>2
<1> QED
  BY <1>6, <1>7, <1>8, <1>9, <1>10, ScriptsAssumption DEF Kinds

\* Where a run is, and the message it is about.
LEMMA RunTyped ==
  ASSUME ScriptsTypeOK, NEW i \in Scripts
  PROVE  /\ at[i] \in 1 .. Len(CallsOf(i))
         /\ InOrder(CallsOf(i), KindOf(i), at[i])
         /\ Current(i) = CallsOf(i)[at[i]]
         /\ status[i] \in {"running", "done", "failed"}
         /\ ids[i] \in TxIds /\ ids[i] \in Nat
         /\ MessageOf(i) \in Traffic
         /\ MessageOf(i).source = Chain /\ MessageOf(i).txId = ids[i]
         /\ MessageOf(i).payload = KindOf(i)
         /\ AddressOf(MessageOf(i)) = <<Chain, ids[i]>>
<1>1. at[i] \in Nat \ {0} /\ at[i] <= Len(CallsOf(i)) /\ Len(CallsOf(i)) \in Nat
  <2>1. Len(SimpleTest) = 14
    BY DEF SimpleTest
  <2>2. at[i] \in 1 .. Len(SimpleTest) /\ at[i] <= Len(CallsOf(i))
    BY DEF ScriptsTypeOK
  <2>3. Len(CallsOf(i)) \in 1 .. 14
    BY CallOrder
  <2> QED
    BY <2>1, <2>2, <2>3
<1>2. ids[i] \in TxIds /\ ids[i] \in Nat
  BY MessagesAssumption DEF ScriptsTypeOK, TxIds
<1>3. MessageOf(i) \in Traffic
  BY <1>2, ScriptsAssumption DEF MessageOf
<1> QED
  BY <1>1, <1>2, <1>3, CallOrder
     DEF Current, MessageOf, MessageWith, AddressOf, ScriptsTypeOK

\* The registries of Chain are in use.
LEMMA ChainRegistries ==
  \A type \in {"via", "chain", "project"} : Registry(type) \in RegistryKeys /\ Registry(type)[1] = type
BY ScriptsAssumption DEF Registry, RegistryTypes

\* The size of TX2 with three signatures is beyond what a packet holds.
LEMMA ThreeSignaturesTooLarge ==
  ASSUME NEW i \in Scripts, KindOf(i) \in {"three", "devnet"}
  PROVE  ~ Fits("tx2", FieldsOf[KindOf(i)], Len(ListOf(i)))
<1>1. Len(ListOf(i)) = 3
  BY DEF ListOf
<1>2. FieldsOf[KindOf(i)] \in {65, 77}
  BY DEF FieldsOf
<1>3. ASSUME NEW fields \in {65, 77}
      PROVE  ~ Fits("tx2", fields, 3)
  <2>1. Ed25519InstructionSize = 148
    BY DEF Ed25519InstructionSize, InstructionSize, CompactLength
  <2>2. MainDataSize(fields, 3) = fields + 348
    BY DEF MainDataSize
  <2>3. InstructionSize(8, fields + 348) = 1 + 1 + 8 + 2 + fields + 348
    BY DEF InstructionSize, CompactLength
  <2>4. AccountsOf("tx2") = 8 /\ CompactLength(3 + 1) = 1
    BY DEF AccountsOf, CompactLength
  <2>5. SignedTransactionSize("tx2", fields, 3) = 1226 + fields
    BY <2>1, <2>2, <2>3, <2>4 DEF SignedTransactionSize
  <2> QED
    BY <2>5 DEF Fits, PacketSize
<1> QED
  BY <1>1, <1>2, <1>3

\* Neither TX1 nor TX2 passes with an empty vector of signatures.
LEMMA NothingSigned ==
  ASSUME NEW i \in Scripts, KindOf(i) = "simple", NEW m, NEW project
  PROVE  /\ ~ CreateTxPda(Operator, m, ListOf(i))
         /\ ~ ProcessMessage(Operator, m, ListOf(i), project)
<1>1. Len(ListOf(i)) = 0
  BY DEF ListOf
<1> QED
  BY <1>1, SignatureLimitsAssumption
     DEF CreateTxPda, Admissible, ValidateSignaturesTx1,
         ProcessMessage, Processable, ValidateThreeLayerSignatures

\* What is left of simple-test's administration: a threshold of 0 is always
\* refused, the wallet is already a signer, and the only one.
LEMMA NothingAdministered ==
  ASSUME ScriptsInv, NEW i \in Scripts, Current(i).type = "via", Current(i).op # "addKey",
         Administration(i, Current(i))
  PROVE  UNCHANGED <<registries, txPdas, processed>>
<1> DEFINE k == Registry("via")
<1>1. /\ k \in RegistryKeys
      /\ RegistryExists(k) =>
           /\ registries[k] \in RegistryAccount
           /\ registries[k].signers = <<Wallet>>
           /\ registries[k].required = 1
           /\ registries[k].enabled
  BY ChainRegistries DEF ScriptsInv, Untampered, AsDeployed, RegistryExists, Inv, TypeOK, RegistriesTypeOK
<1>2. ~ ValidConfiguration(<<Wallet>>, 0) /\ \A signers : ~ ValidThreshold(signers, 0)
  BY DEF ValidConfiguration, ValidThreshold
<1>3. ~ AddSigner(k, Operator, Wallet)
  <2>1. Contains(<<Wallet>>, Wallet)
    <3>1. 1 \in 1 .. Len(<<Wallet>>) /\ <<Wallet>>[1] = Wallet
      OBVIOUS
    <3> QED
      BY <3>1 DEF Contains
  <2> QED
    BY <1>1, <2>1 DEF AddSigner, MayAdminister, MayJoin
<1>4. ~ RemoveSigner(k, Operator, Wallet)
  <2>1. Len(<<Wallet>>) = 1
    OBVIOUS
  <2>2. SUFFICES ASSUME RegistryExists(k) PROVE ~ ThresholdKept(registries[k])
    BY DEF RemoveSigner, MayAdminister
  <2>3. registries[k].required = 1 /\ Len(registries[k].signers) = 1
    BY <1>1, <2>1, <2>2
  <2> QED
    BY <2>3 DEF ThresholdKept
<1>5. ASSUME SetRegistryEnabled(k, Operator, TRUE)
      PROVE  UNCHANGED registries
  <2>1. [registries[k] EXCEPT !.enabled = TRUE] = registries[k]
    BY <1>1, <1>5 DEF SetRegistryEnabled, MayAdminister, RegistryAccount
  <2>2. registries' = [registries EXCEPT ![k] = [registries[k] EXCEPT !.enabled = TRUE]]
    BY <1>5 DEF SetRegistryEnabled
  <2> QED
    BY <2>1, <2>2 DEF ScriptsInv, Inv, TypeOK, RegistriesTypeOK
<1> HIDE DEF k
<1> QED
  BY <1>2, <1>3, <1>4, <1>5
     DEF Administration, Administer, InitializeSignerRegistry, UpdateThreshold, UpdateSigners,
         InitializeCounter, replayVars, gatewayVars, k

-----------------------------------------------------------------------------
(* Calls *)

\* Each call of a script is an instruction of the program, with inputs that
\* anybody may pass.
LEMMA CallsAreInstructions ==
  ASSUME ScriptsTypeOK, NEW i \in Scripts, Perform(i, Current(i))
  PROVE  Next
<1> DEFINE k == Registry(Current(i).type)
           op == Current(i).op
<1>1. /\ Operator \in Authorities /\ Operator \in Relayers
      /\ Chain \in ChainIds
      /\ Wallet \in Signers /\ <<Wallet>> \in SignerLists /\ 0 \in Thresholds
      /\ \A type \in {"via", "chain", "project"} : FreshKey(i, type) \in Signers
  BY ScriptsAssumption, ScriptInputsAssumption DEF RegistryTypes
<1>2. /\ op \in {"addKey", "takeId", "tx1", "tx2"} \/ Current(i).type = "via"
      /\ op = "addKey" => Current(i).type \in {"via", "chain", "project"}
  BY RunTyped DEF InOrder
<1>3. CASE Administration(i, Current(i))
  <2>1. op \in {"initializeGateway", "enable", "initializeCounter", "initializeRegistry", "addKey",
                "addWallet", "updateThreshold", "updateSigners", "enableRegistry", "removeWallet"}
    BY <1>3 DEF Administration
  <2>2. k \in RegistryKeys
    BY <1>2, <2>1, ChainRegistries
  <2>3. CASE op \in {"initializeGateway", "enable"}
    BY <1>1, <1>3, <2>3 DEF Administration, Next, GatewaysNext
  <2>4. CASE op = "initializeCounter"
    BY <1>1, <1>3, <2>4 DEF Administration, Next, ReplayNext
  <2>5. CASE op \notin {"initializeGateway", "enable", "initializeCounter"}
    <3>1. /\ UNCHANGED <<gatewayVars, replayVars, processed>>
          /\ \/ InitializeSignerRegistry(k, Operator, <<Wallet>>, 0)
             \/ op = "addKey" /\ AddSigner(k, Operator, FreshKey(i, Current(i).type))
             \/ AddSigner(k, Operator, Wallet)
             \/ UpdateThreshold(k, Operator, 0)
             \/ UpdateSigners(k, Operator, <<Wallet>>, 0)
             \/ SetRegistryEnabled(k, Operator, TRUE)
             \/ RemoveSigner(k, Operator, Wallet)
      BY <1>3, <2>5 DEF Administration, Administer
    <3>2. op = "addKey" => FreshKey(i, Current(i).type) \in Signers
      BY <1>1, <1>2
    <3> HIDE DEF k, op
    <3>3. RegistriesNext
      BY <1>1, <2>2, <3>1, <3>2 DEF RegistriesNext
    <3> QED
      BY <3>1, <3>3 DEF Next
  <2> QED
    BY <2>3, <2>4, <2>5
<1>4. CASE Messaging(i, Current(i))
  <2> DEFINE m == MessageOf(i)
             list == ListOf(i)
             project == {<<"project", DestOf(i)>>}
  <2>1. m \in Traffic /\ list \in SignatureLists /\ RequestOf(i) \in SendRequests
    BY RunTyped, ScriptInputsAssumption DEF RequestOf
  <2>2. ASSUME ProcessMessage(Operator, m, list, project)
        PROVE  Next
    <3>1. project \in ProjectChoices
      BY <2>2 DEF ProcessMessage, Processable, ProjectChoices
    <3> QED
      BY <1>1, <2>1, <2>2, <3>1 DEF Next
  <2>3. ASSUME CreateTxPda(Operator, m, list), UNCHANGED <<gatewayVars, registries, processed>>
        PROVE  Next
    BY <1>1, <2>1, <2>3 DEF Next, ReplayNext
  <2>4. ASSUME SendMessage(Chain, RequestOf(i)), UNCHANGED <<registries, replayVars, processed>>
        PROVE  Next
    BY <1>1, <2>1, <2>4 DEF Next, GatewaysNext
  <2> QED
    BY <1>4, <2>2, <2>3, <2>4 DEF Messaging
<1> QED
  BY <1>3, <1>4 DEF Perform

\* What a call does to registries, PDAs and processed messages: only addKey, TX1
\* and the TX2 of a two-layer script get through to them.
LEMMA CallEffects ==
  ASSUME ScriptsInv, NEW i \in Scripts, Perform(i, Current(i))
  PROVE  /\ Current(i).op = "addKey" =>
              /\ KindOf(i) \in {"two", "three"}
              /\ Current(i).type \in {"chain", "project"}
              /\ AddSigner(Registry(Current(i).type), Operator, FreshKey(i, Current(i).type))
              /\ UNCHANGED <<txPdas, processed>>
         /\ Current(i).op = "tx1" =>
              /\ CreateTxPda(Operator, MessageOf(i), ListOf(i))
              /\ UNCHANGED <<registries, processed>>
         /\ Current(i).op = "tx2" =>
              /\ KindOf(i) = "two"
              /\ ProcessMessage(Operator, MessageOf(i), ListOf(i), {<<"project", DestOf(i)>>})
              /\ UNCHANGED registries
         /\ Current(i).op \notin {"addKey", "tx1", "tx2"} => UNCHANGED <<registries, txPdas, processed>>
<1>1. InOrder(CallsOf(i), KindOf(i), at[i]) /\ Current(i) = CallsOf(i)[at[i]]
  BY RunTyped DEF ScriptsInv
<1>2. CASE Current(i).op = "addKey"
  BY <1>1, <1>2, ScriptKinds DEF InOrder, Perform, Administration, Administer, Messaging, replayVars
<1>3. CASE Current(i).op = "tx1"
  BY <1>3 DEF Perform, Administration, Messaging
<1>4. CASE Current(i).op = "tx2"
  <2>1. /\ Fits("tx2", FieldsOf[KindOf(i)], Len(ListOf(i)))
        /\ ProcessMessage(Operator, MessageOf(i), ListOf(i), {<<"project", DestOf(i)>>})
    BY <1>4 DEF Perform, Administration, Messaging
  <2>2. KindOf(i) \in {"two", "three", "devnet"}
    BY <1>1, <1>4, ScriptKinds DEF InOrder
  <2> QED
    BY <1>4, <2>1, <2>2, ThreeSignaturesTooLarge DEF ProcessMessage
<1>5. CASE Current(i).op \notin {"addKey", "tx1", "tx2"}
  <2>1. CASE KindOf(i) = "simple"
    <3>1. Current(i).type = "via"
      BY <1>1, <2>1 DEF InOrder
    <3>2. CASE Administration(i, Current(i))
      BY <1>5, <3>1, <3>2, NothingAdministered
    <3>3. CASE Messaging(i, Current(i))
      BY <1>5, <2>1, <3>3, NothingSigned DEF Messaging, replayVars
    <3> QED
      BY <3>2, <3>3 DEF Perform
  <2>2. CASE KindOf(i) # "simple"
    <3>1. Current(i).op = "takeId"
      BY <1>1, <1>5, <2>2 DEF InOrder
    <3> QED
      BY <3>1 DEF Perform, Administration, Messaging
  <2> QED
    BY <2>1, <2>2
<1> QED
  BY <1>2, <1>3, <1>4, <1>5

-----------------------------------------------------------------------------
(* Where a call leaves its run *)

\* The other runs stay where they are, and all positions in range.
Moved(i) ==
  /\ at' \in [Scripts -> 1 .. Len(SimpleTest)]
  /\ \A j \in Scripts : at'[j] <= Len(CallsOf(j))
  /\ status' \in [Scripts -> {"running", "done", "failed"}]
  /\ \A j \in Scripts \ {i} : at'[j] = at[j] /\ status'[j] = status[j]
  /\ clock' = clock

\* A position in the calls of a run is one that the type invariant allows.
LEMMA MoveTyped ==
  ASSUME ScriptsTypeOK, NEW i \in Scripts, NEW position \in 1 .. Len(CallsOf(i)),
         NEW end \in {"running", "done", "failed"}, MoveTo(i, position, end)
  PROVE  Moved(i) /\ at'[i] = position /\ status'[i] = end
<1>1. position \in 1 .. Len(SimpleTest)
  <2>1. Len(SimpleTest) = 14
    BY DEF SimpleTest
  <2>2. Len(CallsOf(i)) \in 1 .. 14
    BY CallOrder
  <2>3. \A limit \in 1 .. 14 : 1 .. limit \subseteq 1 .. 14
    OBVIOUS
  <2> QED
    BY <2>1, <2>2, <2>3
<1>2. /\ at \in [Scripts -> 1 .. Len(SimpleTest)]
      /\ \A j \in Scripts : at[j] <= Len(CallsOf(j))
      /\ status \in [Scripts -> {"running", "done", "failed"}]
  BY DEF ScriptsTypeOK
<1>3. position <= Len(CallsOf(i))
  BY CallOrder
<1> QED
  BY <1>1, <1>2, <1>3 DEF MoveTo, Moved

\* A call that succeeds takes its run to the next one, or to the end.
LEMMA ProceedMoves ==
  ASSUME ScriptsTypeOK, NEW i \in Scripts, Proceed(i)
  PROVE  /\ Moved(i)
         /\ \/ at[i] = Len(CallsOf(i)) /\ at'[i] = at[i] /\ status'[i] = "done"
            \/ at[i] < Len(CallsOf(i)) /\ at'[i] = at[i] + 1 /\ status'[i] = "running"
<1>1. at[i] \in 1 .. Len(CallsOf(i)) /\ Len(CallsOf(i)) \in Nat
  BY RunTyped, CallOrder
<1>2. CASE at[i] = Len(CallsOf(i))
  BY <1>1, <1>2, MoveTyped DEF Proceed
<1>3. CASE at[i] # Len(CallsOf(i))
  <2>1. at[i] + 1 \in 1 .. Len(CallsOf(i)) /\ at[i] < Len(CallsOf(i))
    BY <1>1, <1>3
  <2>2. MoveTo(i, at[i] + 1, "running")
    BY <1>3 DEF Proceed
  <2> QED
    BY <2>1, <2>2, MoveTyped
<1> QED
  BY <1>2, <1>3

\* An error ends a test script where it is, simple-test goes on.
LEMMA CatchMoves ==
  ASSUME ScriptsTypeOK, NEW i \in Scripts, Catch(i)
  PROVE  /\ Moved(i)
         /\ KindOf(i) # "simple" => at'[i] = at[i] /\ status'[i] = "failed"
<1>1. at[i] \in 1 .. Len(CallsOf(i))
  BY RunTyped
<1>2. CASE KindOf(i) # "simple"
  BY <1>1, <1>2, MoveTyped DEF Catch
<1>3. CASE KindOf(i) = "simple"
  <2>1. DOMAIN SimpleTest = 1 .. Len(CallsOf(i))
    BY <1>3 DEF CallsOf, SimpleTest
  <2>2. PICK position \in 1 .. Len(CallsOf(i)), end \in {"running", "done"} : MoveTo(i, position, end)
    BY <1>1, <1>3, <2>1 DEF Catch
  <2> QED
    BY <1>3, <2>2, MoveTyped
<1> QED
  BY <1>2, <1>3

\* What a run knows of itself after a call that succeeded ...
LEMMA AfterSuccess ==
  ASSUME ScriptsTypeOK, NEW i \in Scripts, Proceed(i)
  PROVE  /\ Current(i).op \notin {"tx1", "tx2"} => ~ Past(i)'
         /\ Current(i).op = "tx1" =>
              IF KindOf(i) = "single" THEN Current(i)'.op = "tx1" /\ status'[i] = "done"
              ELSE Current(i)'.op = "tx2" /\ status'[i] = "running"
         /\ Current(i).op = "tx2" => Current(i)'.op = "tx2" /\ status'[i] = "done"
<1>1. /\ InOrder(CallsOf(i), KindOf(i), at[i]) /\ InOrder(CallsOf(i), KindOf(i), at'[i])
      /\ Current(i) = CallsOf(i)[at[i]] /\ Current(i)' = CallsOf(i)[at'[i]]
      /\ at[i] \in Nat /\ Len(CallsOf(i)) \in Nat
  <2>1. at[i] \in 1 .. Len(CallsOf(i)) /\ Len(CallsOf(i)) \in Nat
    BY RunTyped, CallOrder
  <2>2. at'[i] \in 1 .. Len(CallsOf(i))
    BY <2>1, ProceedMoves
  <2> QED
    BY <2>1, <2>2, CallOrder DEF Current
<1>2. \/ at[i] = Len(CallsOf(i)) /\ at'[i] = at[i] /\ status'[i] = "done"
      \/ at[i] < Len(CallsOf(i)) /\ at'[i] = at[i] + 1 /\ status'[i] = "running"
  BY ProceedMoves
<1>3. CASE KindOf(i) = "simple"
  BY <1>1, <1>3 DEF InOrder, Past
<1>4. CASE KindOf(i) # "simple"
  BY <1>1, <1>2, <1>4 DEF InOrder, Past
<1> QED
  BY <1>3, <1>4

\* ... and after one that failed, or was thought to have.
LEMMA AfterError ==
  ASSUME ScriptsTypeOK, NEW i \in Scripts, Running(i), Catch(i)
  PROVE  /\ KindOf(i) # "simple" =>
              Current(i)' = Current(i) /\ status'[i] = "failed" /\ (Past(i)' <=> Past(i))
         /\ KindOf(i) = "simple" => ~ Past(i) /\ ~ Past(i)'
<1>1. CASE KindOf(i) # "simple"
  BY <1>1, CatchMoves DEF Current, Past, Running
<1>2. CASE KindOf(i) = "simple"
  <2>1. at'[i] \in 1 .. Len(CallsOf(i))
    <3>1. at'[i] \in 1 .. Len(SimpleTest)
      BY CatchMoves DEF Moved
    <3>2. CallsOf(i) = SimpleTest
      BY <1>2 DEF CallsOf
    <3> QED
      BY <3>1, <3>2
  <2> QED
    BY <1>2, <2>1, RunTyped, CallOrder DEF InOrder, Past, Current
<1> QED
  BY <1>1, <1>2

-----------------------------------------------------------------------------
(* PDAs and runs *)

\* What the three invariants say of PDAs and runs together.
RunsInv == Accounted /\ IdsDiffer /\ StrandedHasCause

\* A run that stays as it is.
Still(j) == at'[j] = at[j] /\ status'[j] = status[j] /\ ids'[j] = ids[j]

\* A run that has nothing at stake moves.
Free(j) == Running(j) /\ ~ Past(j) /\ ~ Past(j)'

\* A run fails in its TX2.
GivesUp(j) == Running(j) /\ Past(j) /\ at'[j] = at[j] /\ status'[j] = "failed" /\ ids'[j] = ids[j]

\* A run whose message is what TX1 or TX2 acts on knows about the same message after.
LEMMA StillFacts ==
  ASSUME NEW j \in Scripts, Still(j)
  PROVE  /\ MessageOf(j)' = MessageOf(j)
         /\ Current(j)' = Current(j)
         /\ Past(j)' <=> Past(j)
         /\ losses' \in Nat /\ losses \in Nat /\ losses <= losses' /\ Holds(j) => Holds(j)'
BY DEF Still, MessageOf, MessageWith, Current, Past, Holds

\* While no PDA and no message is touched, runs may start, fail and end.
LEMMA QuietStep ==
  ASSUME RunsInv, ScriptsTypeOK, UNCHANGED <<txPdas, processed>>,
         losses' \in Nat, losses <= losses',
         \A j \in Scripts : Still(j) \/ Free(j) \/ GivesUp(j)
  PROVE  RunsInv'
<1>1. ASSUME NEW j \in Scripts, Past(j)'
      PROVE  /\ Past(j) /\ ids'[j] = ids[j]
             /\ MessageOf(j)' = MessageOf(j) /\ Current(j)' = Current(j)
             /\ Still(j) \/ GivesUp(j)
  BY <1>1, StillFacts DEF Still, Free, GivesUp, MessageOf, MessageWith, Current
<1>2. Accounted'
  <2> SUFFICES ASSUME NEW j \in Scripts, Past(j)'
               PROVE  /\ KindOf(j) \in AcceptablePayloads
                      /\ \/ Waiting(j)'
                         \/ /\ processed'[MessageOf(j)'] = 1
                            /\ KindOf(j) = "two" /\ status'[j] # "running"
                      /\ status'[j] = "done" => (Waiting(j)' <=> Current(j)'.op = "tx1")
    BY DEF Accounted
  <2>1. Past(j) /\ MessageOf(j)' = MessageOf(j) /\ Current(j)' = Current(j)
    BY <1>1
  <2>2. Waiting(j)' <=> Waiting(j)
    BY <2>1 DEF Waiting, Pending
  <2>3. status'[j] = status[j] \/ status'[j] = "failed"
    BY <1>1 DEF Still, GivesUp
  <2> QED
    BY <2>1, <2>2, <2>3 DEF RunsInv, Accounted
<1>3. IdsDiffer'
  BY <1>1 DEF RunsInv, IdsDiffer
<1>4. StrandedHasCause'
  <2> SUFFICES ASSUME NEW m \in Traffic, Pending(m)'
               PROVE  \E j \in Scripts : SameAddress(MessageOf(j)', m) /\ Holds(j)'
    BY DEF StrandedHasCause, SameAddress, AddressOf
  <2>1. PICK j \in Scripts : SameAddress(MessageOf(j), m) /\ Holds(j)
    BY DEF Pending, RunsInv, StrandedHasCause
  <2>2. CASE Still(j)
    BY <2>1, <2>2, StillFacts DEF ScriptsTypeOK
  <2>3. CASE Free(j)
    BY <2>1, <2>3 DEF Free, Holds, Running, Past
  <2>4. CASE GivesUp(j)
    BY <2>1, <2>4 DEF GivesUp, Holds, Running, Past, Current, MessageOf, MessageWith
  <2> QED
    BY <2>1, <2>2, <2>3, <2>4
<1> QED
  BY <1>2, <1>3, <1>4 DEF RunsInv

\* The PDA of a message with another id is not the one that TX1 or TX2 touches.
LEMMA OtherAddress ==
  ASSUME ScriptsTypeOK, NEW i \in Scripts, NEW j \in Scripts
  PROVE  AddressOf(MessageOf(i)) = AddressOf(MessageOf(j)) <=> ids[i] = ids[j]
BY RunTyped

\* TX1 lands: the id is above those of all runs past TX1, and its PDA is open.
LEMMA Tx1Lands ==
  ASSUME ScriptsInv, NEW i \in Scripts, CreateTxPda(Operator, MessageOf(i), ListOf(i)),
         UNCHANGED processed
  PROVE  LET m == MessageOf(i) IN
         /\ KindOf(i) \in AcceptablePayloads
         /\ \A j \in Scripts : Past(j) => ids[j] # ids[i]
         /\ txPdas'[AddressOf(m)] # NoAccount /\ processed[m] = 0
         /\ \A a \in Addresses : a # AddressOf(m) => txPdas'[a] = txPdas[a]
<1> DEFINE m == MessageOf(i)
<1>0. Inv /\ ScriptsTypeOK /\ Accounted
  BY DEF ScriptsInv
<1>1. /\ m \in Traffic /\ m.source = Chain /\ m.txId = ids[i] /\ m.payload = KindOf(i)
      /\ ids[i] \in Nat /\ AddressOf(m) \in Addresses /\ ids[i] # NoAccount
  BY <1>0, RunTyped, TrafficTyped, MessagesAssumption
<1> HIDE DEF m
<1>2. /\ m.payload \in AcceptablePayloads
      /\ ids[i] > counters[Chain]
      /\ txPdas' = [txPdas EXCEPT ![AddressOf(m)] = m.txId]
  BY <1>1 DEF CreateTxPda, Admissible, IsNewer, m
<1>3. /\ txPdas \in [Addresses -> TxIds \cup {NoAccount}]
      /\ processed \in [Traffic -> Nat]
      /\ counters[Chain] # NoAccount => counters[Chain] \in Nat
  BY <1>0, ScriptsAssumption, MessagesAssumption DEF Inv, TypeOK, ReplayTypeOK, TxIds
<1>4. ASSUME NEW n \in Traffic, n.source = Chain, Pending(n) \/ processed[n] > 0
      PROVE  n.txId # ids[i]
  <2>1. counters[Chain] # NoAccount /\ n.txId <= counters[Chain]
    BY <1>0, <1>4 DEF Inv, ReplayInv, CounterDominates
  <2> QED
    BY <1>1, <1>2, <1>3, <2>1, TrafficTyped
<1>5. ASSUME NEW j \in Scripts, Past(j)
      PROVE  ids[j] # ids[i]
  <2>1. /\ MessageOf(j) \in Traffic /\ MessageOf(j).source = Chain /\ MessageOf(j).txId = ids[j]
    BY <1>0, RunTyped
  <2>2. Pending(MessageOf(j)) \/ processed[MessageOf(j)] > 0
    BY <1>0, <1>5 DEF Accounted, Waiting
  <2> QED
    BY <1>4, <2>1, <2>2
<1>6. processed[m] = 0
  <2>1. ~ (processed[m] > 0) /\ processed[m] \in Nat
    BY <1>1, <1>3, <1>4
  <2> QED
    BY <2>1
<1> QED
  BY <1>1, <1>2, <1>3, <1>5, <1>6 DEF m

\* Runs with other ids do not notice that a PDA is opened or closed.
LEMMA OthersAccounted ==
  ASSUME ScriptsInv, NEW i \in Scripts, NEW j \in Scripts, Still(j), Past(j), ids[j] # ids[i],
         \A a \in Addresses : a # AddressOf(MessageOf(i)) => txPdas'[a] = txPdas[a],
         \A m \in Traffic : m # MessageOf(i) => processed'[m] = processed[m]
  PROVE  /\ KindOf(j) \in AcceptablePayloads
         /\ \/ Waiting(j)'
            \/ processed'[MessageOf(j)'] = 1 /\ KindOf(j) = "two" /\ status'[j] # "running"
         /\ status'[j] = "done" => (Waiting(j)' <=> Current(j)'.op = "tx1")
<1>0. ScriptsTypeOK /\ Accounted
  BY DEF ScriptsInv
<1>1. MessageOf(j)' = MessageOf(j) /\ Current(j)' = Current(j)
  BY StillFacts
<1>2. /\ MessageOf(j) \in Traffic /\ AddressOf(MessageOf(j)) \in Addresses
      /\ AddressOf(MessageOf(j)) # AddressOf(MessageOf(i)) /\ MessageOf(j) # MessageOf(i)
  BY <1>0, RunTyped, TrafficTyped, OtherAddress
<1>3. Waiting(j)' <=> Waiting(j)
  BY <1>1, <1>2 DEF Waiting, Pending
<1>4. processed'[MessageOf(j)] = processed[MessageOf(j)] /\ status'[j] = status[j]
  BY <1>2 DEF Still
<1> QED
  BY <1>0, <1>1, <1>3, <1>4 DEF Accounted

\* After a TX1 that landed the run knows that it waits for its TX2, or the answer
\* got lost; the others are not concerned.
LEMMA Tx1Step ==
  ASSUME ScriptsInv, NEW i \in Scripts, Running(i), Current(i).op = "tx1",
         CreateTxPda(Operator, MessageOf(i), ListOf(i)), UNCHANGED processed, UNCHANGED ids,
         losses' \in Nat, losses <= losses', \A j \in Scripts \ {i} : Still(j),
         \/ Current(i)'.op = "tx2" /\ status'[i] = "running"
         \/ Current(i)'.op = "tx1" /\ status'[i] = "done"
         \/ Current(i)'.op = "tx1" /\ status'[i] = "failed" /\ losses' > 0
  PROVE  RunsInv'
<1> DEFINE m == MessageOf(i)
<1>0. ScriptsTypeOK /\ Accounted /\ IdsDiffer /\ StrandedHasCause
  BY DEF ScriptsInv
<1>1. /\ KindOf(i) \in AcceptablePayloads
      /\ \A j \in Scripts : Past(j) => ids[j] # ids[i]
      /\ txPdas'[AddressOf(m)] # NoAccount /\ processed[m] = 0
      /\ \A a \in Addresses : a # AddressOf(m) => txPdas'[a] = txPdas[a]
  BY Tx1Lands
<1>2. MessageOf(i)' = m /\ Waiting(i)'
  BY <1>1 DEF MessageOf, MessageWith, Waiting, Pending
<1>3. \A j \in Scripts \ {i} : Past(j)' => Past(j) /\ ids'[j] # ids'[i]
  BY <1>1, StillFacts
<1>4. Accounted'
  <2> SUFFICES ASSUME NEW j \in Scripts, Past(j)'
               PROVE  /\ KindOf(j) \in AcceptablePayloads
                      /\ \/ Waiting(j)'
                         \/ processed'[MessageOf(j)'] = 1 /\ KindOf(j) = "two" /\ status'[j] # "running"
                      /\ status'[j] = "done" => (Waiting(j)' <=> Current(j)'.op = "tx1")
    BY DEF Accounted
  <2>1. CASE j = i
    BY <1>1, <1>2, <2>1
  <2>2. CASE j # i
    BY <1>1, <1>3, <2>2, OthersAccounted
  <2> QED
    BY <2>1, <2>2
<1>5. IdsDiffer'
  BY <1>0, <1>3 DEF IdsDiffer
<1>6. StrandedHasCause'
  <2> SUFFICES ASSUME NEW n \in Traffic, Pending(n)'
               PROVE  \E j \in Scripts : SameAddress(MessageOf(j)', n) /\ Holds(j)'
    BY DEF StrandedHasCause, SameAddress, AddressOf
  <2>1. CASE AddressOf(n) = AddressOf(m)
    <3>1. SameAddress(MessageOf(i)', n)
      BY <1>2, <2>1 DEF SameAddress
    <3>2. Holds(i)'
      BY DEF Holds
    <3> QED
      BY <3>1, <3>2
  <2>2. CASE AddressOf(n) # AddressOf(m)
    <3>1. Pending(n)
      BY <1>1, <2>2, TrafficTyped DEF Pending
    <3>2. PICK j \in Scripts : SameAddress(MessageOf(j), n) /\ Holds(j)
      BY <1>0, <3>1 DEF StrandedHasCause
    <3>3. j # i
      BY <3>2 DEF Holds, Running
    <3> QED
      BY <1>0, <3>2, <3>3, StillFacts DEF ScriptsTypeOK
  <2> QED
    BY <2>1, <2>2
<1> QED
  BY <1>4, <1>5, <1>6 DEF RunsInv

\* After a TX2 that landed its run is over, as a success or with the answer lost.
LEMMA Tx2Step ==
  ASSUME ScriptsInv, NEW i \in Scripts, Running(i), Current(i).op = "tx2", KindOf(i) = "two",
         ProcessMessage(Operator, MessageOf(i), ListOf(i), {<<"project", DestOf(i)>>}),
         UNCHANGED ids, losses' \in Nat, losses <= losses', \A j \in Scripts \ {i} : Still(j),
         Current(i)'.op = "tx2", status'[i] \in {"done", "failed"}
  PROVE  RunsInv'
<1> DEFINE m == MessageOf(i)
<1>0. Inv /\ ScriptsTypeOK /\ Accounted /\ IdsDiffer /\ StrandedHasCause
  BY DEF ScriptsInv
<1>1. m \in Traffic /\ AddressOf(m) \in Addresses /\ Past(i)
  BY <1>0, RunTyped, TrafficTyped DEF Past
<1>2. processed[m] = 0 /\ KindOf(i) \in AcceptablePayloads
  BY <1>0, <1>1 DEF Accounted, Waiting, Running
<1>3. /\ txPdas'[AddressOf(m)] = NoAccount
      /\ \A a \in Addresses : a # AddressOf(m) => txPdas'[a] = txPdas[a]
      /\ processed'[m] = 1
      /\ \A n \in Traffic : n # m => processed'[n] = processed[n]
  <2>1. /\ txPdas \in [Addresses -> TxIds \cup {NoAccount}]
        /\ processed \in [Traffic -> Nat]
    BY <1>0 DEF Inv, TypeOK, ReplayTypeOK
  <2>2. /\ txPdas' = [txPdas EXCEPT ![AddressOf(m)] = NoAccount]
        /\ processed' = [processed EXCEPT ![m] = @ + 1]
    BY DEF ProcessMessage, CloseTxPda
  <2> HIDE DEF m
  <2> QED
    BY <1>1, <1>2, <2>1, <2>2
<1>4. MessageOf(i)' = m /\ ~ Waiting(i)'
  BY <1>3 DEF MessageOf, MessageWith, Waiting, Pending
<1>5. \A j \in Scripts \ {i} : Past(j)' => Past(j) /\ ids[j] # ids[i] /\ ids'[j] # ids'[i]
  BY <1>0, <1>1, StillFacts DEF IdsDiffer
<1>6. Accounted'
  <2> SUFFICES ASSUME NEW j \in Scripts, Past(j)'
               PROVE  /\ KindOf(j) \in AcceptablePayloads
                      /\ \/ Waiting(j)'
                         \/ processed'[MessageOf(j)'] = 1 /\ KindOf(j) = "two" /\ status'[j] # "running"
                      /\ status'[j] = "done" => (Waiting(j)' <=> Current(j)'.op = "tx1")
    BY DEF Accounted
  <2>1. CASE j = i
    BY <1>2, <1>3, <1>4, <2>1
  <2>2. CASE j # i
    BY <1>3, <1>5, <2>2, OthersAccounted
  <2> QED
    BY <2>1, <2>2
<1>7. IdsDiffer'
  BY <1>0, <1>5 DEF IdsDiffer
<1>8. StrandedHasCause'
  <2> SUFFICES ASSUME NEW n \in Traffic, Pending(n)'
               PROVE  \E j \in Scripts : SameAddress(MessageOf(j)', n) /\ Holds(j)'
    BY DEF StrandedHasCause, SameAddress, AddressOf
  <2>1. AddressOf(n) # AddressOf(m)
    BY <1>3 DEF Pending
  <2>2. Pending(n)
    BY <1>3, <2>1, TrafficTyped DEF Pending
  <2>3. PICK j \in Scripts : SameAddress(MessageOf(j), n) /\ Holds(j)
    BY <1>0, <2>2 DEF StrandedHasCause
  <2>4. j # i
    BY <2>1, <2>3 DEF SameAddress
  <2> QED
    BY <1>0, <2>3, <2>4, StillFacts DEF ScriptsTypeOK
<1> QED
  BY <1>6, <1>7, <1>8 DEF RunsInv

-----------------------------------------------------------------------------
(* Registries *)

\* What DeploymentOnlyGrows says of one registry in one step.
Grows(k) ==
  RegistryExists(k) =>
    /\ IsPrefix(registries[k].signers, registries'[k].signers)
    /\ registries'[k] = [registries[k] EXCEPT !.signers = registries'[k].signers]

\* A registry that is not touched has not changed.
LEMMA UntouchedGrows ==
  ASSUME Inv, NEW k \in RegistryKeys, registries'[k] = registries[k]
  PROVE  Grows(k)
<1> SUFFICES ASSUME RegistryExists(k)
             PROVE  /\ IsPrefix(registries[k].signers, registries[k].signers)
                    /\ registries[k] = [registries[k] EXCEPT !.signers = registries[k].signers]
  BY DEF Grows
<1>1. registries[k] \in RegistryAccount
  BY DEF Inv, TypeOK, RegistriesTypeOK, RegistryExists
<1>2. registries[k].signers \in Seq(Signers)
  BY <1>1 DEF RegistryAccount
<1>3. /\ DOMAIN registries[k].signers \subseteq DOMAIN registries[k].signers
      /\ Len(registries[k].signers) <= Len(registries[k].signers)
  BY <1>2
<1> QED
  BY <1>1, <1>2, <1>3 DEF RegistryAccount, IsPrefix

\* Appending a key to a vector keeps what it had, in place.
LEMMA AppendKeeps ==
  ASSUME NEW S, NEW s \in Seq(S), NEW x \in S
  PROVE  /\ IsPrefix(s, Append(s, x))
         /\ Contains(Append(s, x), x)
         /\ \A y : Contains(s, y) => Contains(Append(s, x), y)
         /\ s # <<>> => Append(s, x) # <<>> /\ Append(s, x)[1] = s[1]
<1>1. /\ Len(s) \in Nat
      /\ Len(Append(s, x)) = Len(s) + 1
      /\ Append(s, x)[Len(s) + 1] = x
      /\ \A j \in 1 .. Len(s) : Append(s, x)[j] = s[j]
      /\ Append(s, x) \in Seq(S)
  OBVIOUS
<1>2. Contains(Append(s, x), x) /\ \A y : Contains(s, y) => Contains(Append(s, x), y)
  BY <1>1 DEF Contains
<1>3. s # <<>> => Append(s, x) # <<>> /\ Append(s, x)[1] = s[1]
  BY <1>1
<1>4. IsPrefix(s, Append(s, x))
  BY <1>1 DEF IsPrefix
<1> QED
  BY <1>2, <1>3, <1>4

\* addKey appends to the chain or the project registry, and that is all that ever
\* happens to a registry.
LEMMA AddKeyStep ==
  ASSUME Inv, Untampered, NEW type \in {"chain", "project"}, NEW s \in Signers,
         AddSigner(Registry(type), Operator, s)
  PROVE  /\ Untampered'
         /\ \A k \in RegistryKeys : Grows(k) /\ (RegistryExists(k)' <=> RegistryExists(k))
         /\ \A k \in RegistryKeys : \A x : RegistryExists(k) /\ Contains(registries[k].signers, x) =>
              Contains(registries'[k].signers, x)
         /\ RegistryExists(Registry(type))' /\ Contains(registries'[Registry(type)].signers, s)
<1> DEFINE k   == Registry(type)
           old == registries[k]
           new == [old EXCEPT !.signers = Append(old.signers, s)]
<1>1. k \in RegistryKeys /\ k[1] # "via"
  BY ChainRegistries
<1>2. /\ registries \in [RegistryKeys -> RegistryAccount \cup {NoAccount}]
      /\ RegistryExists(k)
      /\ old \in RegistryAccount
      /\ registries' = [registries EXCEPT ![k].signers = Append(@, s)]
  BY <1>1 DEF AddSigner, MayAdminister, RegistryExists, Inv, TypeOK, RegistriesTypeOK
<1>3. /\ old.signers \in Seq(Signers)
      /\ Append(old.signers, s) \in Seq(Signers)
  BY <1>2 DEF RegistryAccount
<1>4. /\ registries'[k] = new
      /\ \A other \in RegistryKeys \ {k} : registries'[other] = registries[other]
  BY <1>1, <1>2
<1>5. /\ new \in RegistryAccount
      /\ new.signers = Append(old.signers, s)
      /\ new.authority = old.authority /\ new.required = old.required /\ new.enabled = old.enabled
      /\ new = [old EXCEPT !.signers = new.signers]
      /\ new # NoAccount
  BY <1>2, <1>3, NoRegistryAssumption DEF RegistryAccount
<1>6. /\ IsPrefix(old.signers, new.signers)
      /\ Contains(new.signers, s)
      /\ \A x : Contains(old.signers, x) => Contains(new.signers, x)
      /\ old.signers # <<>> => new.signers # <<>> /\ new.signers[1] = old.signers[1]
  BY <1>3, <1>5, AppendKeeps
<1> HIDE DEF k, old, new
<1>7. Grows(k)
  BY <1>4, <1>5, <1>6 DEF Grows, old
<1>8. \A x \in RegistryKeys : RegistryExists(x)' <=> RegistryExists(x)
  BY <1>2, <1>4, <1>5 DEF RegistryExists
<1>9. Untampered'
  <2>1. AsDeployed(k, old)
    BY <1>1, <1>2 DEF Untampered, old
  <2>2. AsDeployed(k, new)
    BY <1>1, <1>5, <1>6, <2>1 DEF AsDeployed
  <2>3. ASSUME NEW x \in RegistryKeys, RegistryExists(x)'
        PROVE  AsDeployed(x, registries'[x])
    BY <1>4, <1>8, <2>2, <2>3 DEF Untampered
  <2>4. \A x \in RegistryKeys, t \in RegistryTypes : RegistryExists(x)' => RegistryExists(Registry(t))'
    BY <1>8, ChainRegistries DEF Untampered, RegistryTypes
  <2> QED
    BY <2>3, <2>4 DEF Untampered, AsDeployed, RegistryExists, Registry
<1> QED
  BY <1>1, <1>2, <1>4, <1>6, <1>7, <1>8, <1>9, UntouchedGrows DEF k, old

-----------------------------------------------------------------------------
(* The inductive invariant *)

\* The gateway and the registries that setup leaves behind.
SetupGateway == [authority |-> Operator, enabled |-> TRUE]

SetupRegistry == [authority |-> Operator, signers |-> <<Wallet>>, required |-> 1, enabled |-> TRUE]

\* They are accounts of their types.
LEMMA SetupAccounts ==
  /\ SetupGateway \in GatewayAccount /\ SetupGateway # NoAccount
  /\ SetupRegistry \in RegistryAccount /\ SetupRegistry # NoAccount
<1>1. Operator \in Authorities /\ Wallet \in Signers
  BY ScriptsAssumption
<1>2. SetupGateway \in GatewayAccount
  BY <1>1 DEF SetupGateway, GatewayAccount
<1>3. SetupRegistry \in RegistryAccount
  <2>1. <<Wallet>> \in Seq(Signers)
    BY <1>1
  <2> QED
    BY <1>1, <2>1 DEF SetupRegistry, RegistryAccount
<1> QED
  BY <1>2, <1>3, NoGatewayAssumption, NoRegistryAssumption

\* What setup leaves behind satisfies the program's invariant.
LEMMA DeployedFacts ==
  ASSUME Deployed
  PROVE  Inv /\ Untampered /\ \A m \in Traffic : ~ Pending(m)
<1>1. /\ Operator \in Authorities /\ Chain \in ChainIds
      /\ Len(<<Wallet>>) = 1 /\ <<Wallet>>[1] = Wallet /\ <<Wallet>> # <<>>
  BY ScriptsAssumption
<1>2. /\ gateways = [c \in ChainIds |-> IF c = Chain THEN SetupGateway ELSE NoAccount]
      /\ registries = [k \in RegistryKeys |-> IF k[2] = Chain THEN SetupRegistry ELSE NoAccount]
  BY DEF Deployed, SetupGateway, SetupRegistry
<1>3. GatewaysTypeOK
  <2>1. sent = {}
    BY DEF Deployed
  <2> QED
    BY <1>2, <2>1, SetupAccounts DEF GatewaysTypeOK
<1>4. RegistriesTypeOK
  BY <1>2, SetupAccounts DEF RegistriesTypeOK
<1>5. ReplayTypeOK
  <2>1. 0 \in TxIds
    BY MessagesAssumption DEF TxIds
  <2> QED
    BY <2>1 DEF Deployed, ReplayTypeOK
<1>6. processed \in [Traffic -> Nat] /\ \A m \in Traffic : processed[m] = 0
  BY DEF Deployed
<1>7. IsGatewayAuthority(Operator)
  <2>1. gateways[Chain] = SetupGateway
    BY <1>1, <1>2
  <2> QED
    BY <1>1, <2>1, SetupAccounts DEF IsGatewayAuthority, Administers, SetupGateway
<1>8. \A k \in RegistryKeys :
        (RegistryExists(k) <=> k[2] = Chain) /\ (RegistryExists(k) => registries[k] = SetupRegistry)
  BY <1>2, SetupAccounts DEF RegistryExists
<1>9. /\ SetupRegistry.authority = Operator /\ SetupRegistry.signers = <<Wallet>>
      /\ SetupRegistry.required = 1 /\ SetupRegistry.enabled
  BY DEF SetupRegistry
<1>10. RegistryInv
  <2>1. \A k \in RegistryKeys : RegistryExists(k) =>
          registries[k].authority = Operator /\ registries[k].required = 1 /\ Len(registries[k].signers) = 1
    BY <1>1, <1>8, <1>9
  <2>2. 1 \in 1 .. 1 /\ 1 <= MaxSigners
    BY CallerInputsAssumption
  <2> QED
    BY <1>7, <2>1, <2>2 DEF RegistryInv, RegistryThreshold, RegistryAdministrable
<1>11. \A m \in Traffic : ~ Pending(m)
  BY TrafficTyped DEF Pending, Deployed
<1>12. ReplayInv
  BY <1>6, <1>11 DEF ReplayInv, AtMostOnce, PendingNotProcessed, CounterDominates
<1>13. Untampered
  BY <1>1, <1>8, <1>9, ChainRegistries DEF Untampered, AsDeployed, RegistryTypes, Registry
<1> QED
  BY <1>3, <1>4, <1>5, <1>6, <1>10, <1>11, <1>12, <1>13 DEF Inv, TypeOK

\* The invariant holds after setup and on a new chain.
LEMMA ScriptsInitially == ScriptsInit => ScriptsInv
<1> SUFFICES ASSUME ScriptsInit PROVE ScriptsInv
  OBVIOUS
<1>1. Inv /\ Untampered /\ \A m \in Traffic : ~ Pending(m)
  <2>1. CASE Init
    BY <2>1, Initially, TrafficTyped
       DEF Init, RegistriesInit, ReplayInit, Untampered, RegistryExists, Pending
  <2> QED
    BY <2>1, DeployedFacts DEF ScriptsInit
<1>2. ScriptsTypeOK
  <2>1. \A i \in Scripts : Len(CallsOf(i)) \in 1 .. 14
    BY CallOrder
  <2>2. Len(SimpleTest) = 14
    BY DEF SimpleTest
  <2>3. /\ at \in [Scripts -> 1 .. 14]
        /\ \A i \in Scripts : at[i] <= Len(CallsOf(i))
    <3>1. at = [i \in Scripts |-> 1] /\ 1 \in 1 .. 14
      BY DEF ScriptsInit
    <3>2. \A limit \in 1 .. 14 : 1 <= limit
      OBVIOUS
    <3> QED
      BY <2>1, <3>1, <3>2
  <2>4. /\ status \in [Scripts -> {"running", "done", "failed"}]
        /\ ids \in [Scripts -> 0 .. MaxTxId]
        /\ clock \in 1 .. MaxTxId
        /\ losses \in 0 .. MaxLosses
    BY ScriptsAssumption, MessagesAssumption DEF ScriptsInit
  <2> QED
    BY <1>1, <2>2, <2>3, <2>4 DEF ScriptsTypeOK, Inv
<1>3. \A i \in Scripts : at[i] = 1 /\ status[i] = "running" /\ ~ Past(i)
  BY <1>2, RunTyped, ScriptKinds DEF ScriptsInit, InOrder, Past
<1> QED
  BY <1>1, <1>2, <1>3
     DEF ScriptsInv, KeyRegistered, Accounted, IdsDiffer, DoneAtEnd, StrandedHasCause

\* The steps of the scripts and of the operator are steps of the program.
LEMMA StepsOfTheProgram ==
  ASSUME ScriptsTypeOK, [ScriptsNext]_scriptsVars
  PROVE  [Next]_vars
<1>1. ASSUME NEW enabled \in BOOLEAN, Switch(enabled)
      PROVE  Next
  BY <1>1, ScriptsAssumption DEF Switch, Next, GatewaysNext
<1>2. CASE UNCHANGED scriptsVars
  BY <1>2 DEF scriptsVars, vars
<1> QED
  BY <1>1, <1>2, CallsAreInstructions
     DEF ScriptsNext, TakeId, Succeed, Fail, Lose, Tick

\* Keys that are registered stay registered.
KeysKept ==
  \A k \in RegistryKeys : \A x : RegistryExists(k) /\ Contains(registries[k].signers, x) =>
    RegistryExists(k)' /\ Contains(registries'[k].signers, x)

\* A call that lands, whether its script gets to know or not.
LEMMA CallStep ==
  ASSUME ScriptsInv, NEW i \in Scripts, Running(i), Perform(i, Current(i)), UNCHANGED ids,
         losses' \in Nat, losses <= losses', \A j \in Scripts \ {i} : Still(j),
         Current(i).op \notin {"tx1", "tx2"} => ~ Past(i)',
         Current(i).op = "tx1" =>
           \/ Current(i)'.op = "tx2" /\ status'[i] = "running"
           \/ Current(i)'.op = "tx1" /\ status'[i] = "done"
           \/ Current(i)'.op = "tx1" /\ status'[i] = "failed" /\ losses' > 0,
         Current(i).op = "tx2" => Current(i)'.op = "tx2" /\ status'[i] \in {"done", "failed"}
  PROVE  /\ RunsInv'
         /\ Untampered'
         /\ KeysKept
         /\ Current(i).op = "addKey" =>
              /\ registries'[Registry(Current(i).type)] # NoAccount
              /\ Contains(registries'[Registry(Current(i).type)].signers, FreshKey(i, Current(i).type))
<1>0. Inv /\ ScriptsTypeOK /\ Untampered /\ RunsInv
  BY DEF ScriptsInv, RunsInv
<1>1. ASSUME UNCHANGED registries
      PROVE  Untampered' /\ KeysKept
  BY <1>0, <1>1 DEF Untampered, AsDeployed, RegistryExists, KeysKept
<1>2. ASSUME Current(i).op \notin {"tx1", "tx2"}, UNCHANGED <<txPdas, processed>>
      PROVE  RunsInv'
  <2>1. Free(i)
    BY <1>2 DEF Free, Past
  <2> QED
    BY <1>0, <1>2, <2>1, QuietStep
<1>3. CASE Current(i).op = "addKey"
  <2> DEFINE type == Current(i).type
  <2>1. /\ type \in {"chain", "project"}
        /\ AddSigner(Registry(type), Operator, FreshKey(i, type))
        /\ UNCHANGED <<txPdas, processed>>
    BY <1>3, CallEffects
  <2>2. FreshKey(i, type) \in Signers
    BY <2>1, ScriptsAssumption DEF RegistryTypes
  <2> HIDE DEF type
  <2>3. /\ Untampered' /\ KeysKept
        /\ registries'[Registry(type)] # NoAccount /\ Contains(registries'[Registry(type)].signers, FreshKey(i, type))
    <3>1. /\ Untampered'
          /\ \A k \in RegistryKeys : RegistryExists(k)' <=> RegistryExists(k)
          /\ \A k \in RegistryKeys : \A x : RegistryExists(k) /\ Contains(registries[k].signers, x) =>
               Contains(registries'[k].signers, x)
          /\ registries'[Registry(type)] # NoAccount
          /\ Contains(registries'[Registry(type)].signers, FreshKey(i, type))
      <4>1. \A t \in {"chain", "project"}, s \in Signers : AddSigner(Registry(t), Operator, s) =>
              /\ Untampered'
              /\ \A k \in RegistryKeys : RegistryExists(k)' <=> RegistryExists(k)
              /\ \A k \in RegistryKeys : \A x : RegistryExists(k) /\ Contains(registries[k].signers, x) =>
                   Contains(registries'[k].signers, x)
              /\ registries'[Registry(t)] # NoAccount
              /\ Contains(registries'[Registry(t)].signers, s)
        BY <1>0, AddKeyStep DEF RegistryExists
      <4> QED
        BY <2>1, <2>2, <4>1
    <3> QED
      BY <3>1 DEF KeysKept
  <2>4. RunsInv'
    BY <1>2, <1>3, <2>1
  <2> QED
    BY <2>3, <2>4 DEF type
<1>4. CASE Current(i).op = "tx1"
  <2>1. CreateTxPda(Operator, MessageOf(i), ListOf(i)) /\ UNCHANGED <<registries, processed>>
    BY <1>4, CallEffects
  <2>2. RunsInv'
    BY <1>4, <2>1, Tx1Step
  <2> QED
    BY <1>1, <1>4, <2>1, <2>2
<1>5. CASE Current(i).op = "tx2"
  <2>1. /\ KindOf(i) = "two"
        /\ ProcessMessage(Operator, MessageOf(i), ListOf(i), {<<"project", DestOf(i)>>})
        /\ UNCHANGED registries
    BY <1>5, CallEffects
  <2>2. RunsInv'
    BY <1>5, <2>1, Tx2Step
  <2> QED
    BY <1>1, <1>5, <2>1, <2>2
<1>6. CASE Current(i).op \notin {"addKey", "tx1", "tx2"}
  BY <1>1, <1>2, <1>6, CallEffects
<1> QED
  BY <1>3, <1>4, <1>5, <1>6

\* A call that did not land and whose error is caught.
LEMMA ErrorStep ==
  ASSUME ScriptsInv, NEW i \in Scripts, Running(i), Catch(i), UNCHANGED <<txPdas, processed, ids>>,
         losses' \in Nat, losses <= losses'
  PROVE  RunsInv'
<1>0. ScriptsTypeOK /\ RunsInv
  BY DEF ScriptsInv, RunsInv
<1>1. \A j \in Scripts \ {i} : Still(j)
  BY <1>0, CatchMoves DEF Moved, Still
<1>2. Free(i) \/ GivesUp(i)
  BY <1>0, AfterError, CatchMoves DEF Free, GivesUp
<1> QED
  BY <1>0, <1>1, <1>2, QuietStep

\* What a call leaves of the rest, given how it moved its run.
LEMMA RestKept ==
  ASSUME ScriptsInv, NEW i \in Scripts, Moved(i), KeysKept,
         status'[i] = "done" => at'[i] = Len(CallsOf(i)) \/ KindOf(i) = "simple",
         KindOf(i) = "two" /\ at[i] = 1 /\ at'[i] > 1 =>
           /\ RegistryExists(Registry("chain"))'
           /\ Contains(registries'[Registry("chain")].signers, FreshKey(i, "chain"))
  PROVE  KeyRegistered' /\ DoneAtEnd'
<1>0. ScriptsTypeOK /\ KeyRegistered /\ DoneAtEnd
  BY DEF ScriptsInv
<1>1. DoneAtEnd'
  BY <1>0 DEF DoneAtEnd, Moved
<1>2. ASSUME NEW j \in Scripts, KindOf(j) = "two", at'[j] > 1
      PROVE  RegistryExists(Registry("chain"))' /\ Contains(registries'[Registry("chain")].signers, FreshKey(j, "chain"))
  <2>1. CASE at[j] > 1
    BY <1>0, <1>2, <2>1, ChainRegistries DEF KeyRegistered, KeysKept
  <2>2. CASE ~ (at[j] > 1)
    <3>1. at[j] = 1
      <4>1. at[j] \in 1 .. Len(CallsOf(j)) /\ Len(CallsOf(j)) \in Nat
        BY <1>0, RunTyped, CallOrder
      <4> QED
        BY <2>2, <4>1
    <3>2. j = i
      BY <1>2, <2>2 DEF Moved
    <3> QED
      BY <1>2, <3>1, <3>2
  <2> QED
    BY <2>1, <2>2
<1>3. KeyRegistered'
  BY <1>2 DEF KeyRegistered, RegistryExists, Registry
<1> QED
  BY <1>1, <1>3

\* The clock's time becomes the id of a run that has not used one yet.
LEMMA TakeIdStep ==
  ASSUME ScriptsInv, NEW i \in Scripts, TakeId(i)
  PROVE  ScriptsInv'
<1>0. /\ Inv /\ ScriptsTypeOK /\ Untampered /\ RunsInv /\ losses \in Nat
      /\ at[i] \in 1 .. Len(CallsOf(i)) /\ InOrder(CallsOf(i), KindOf(i), at[i])
      /\ Current(i) = CallsOf(i)[at[i]]
  BY RunTyped DEF ScriptsInv, RunsInv, ScriptsTypeOK
<1>1. /\ Running(i) /\ Current(i).op = "takeId" /\ Proceed(i)
      /\ UNCHANGED vars /\ losses' = losses
      /\ ids' = [ids EXCEPT ![i] = clock]
  BY DEF TakeId
<1>2. Moved(i)
  BY <1>0, <1>1, ProceedMoves
<1>3. ids' \in [Scripts -> 0 .. MaxTxId] /\ \A j \in Scripts \ {i} : ids'[j] = ids[j]
  <2>1. clock \in 0 .. MaxTxId
    BY <1>0, MessagesAssumption DEF ScriptsTypeOK
  <2> QED
    BY <1>0, <1>1, <2>1 DEF ScriptsTypeOK
<1>4. UNCHANGED <<gateways, sent, registries, counters, txPdas, rent, processed>>
  BY <1>1 DEF vars
<1>5. RunsInv'
  <2>1. \A j \in Scripts \ {i} : Still(j)
    BY <1>2, <1>3 DEF Moved, Still
  <2>2. Free(i)
    BY <1>0, <1>1, AfterSuccess DEF Free, Past
  <2> QED
    BY <1>0, <1>1, <1>4, <2>1, <2>2, QuietStep
<1>6. KeyRegistered' /\ DoneAtEnd'
  <2>1. KeysKept
    BY <1>4 DEF KeysKept, RegistryExists
  <2>2. KindOf(i) = "two" => at[i] # 1
    BY <1>0, <1>1 DEF InOrder
  <2>3. status'[i] = "done" => at'[i] = Len(CallsOf(i))
    BY <1>0, <1>1, ProceedMoves
  <2> QED
    BY <1>2, <2>1, <2>2, <2>3, RestKept
<1>7. Untampered'
  BY <1>4 DEF ScriptsInv, Untampered, AsDeployed, RegistryExists
<1>8. Inv'
  BY <1>0, <1>1, Inductive
<1>9. ScriptsTypeOK'
  BY <1>0, <1>1, <1>2, <1>3, <1>8 DEF ScriptsTypeOK, Moved, Inv
<1> QED
  BY <1>5, <1>6, <1>7, <1>8, <1>9 DEF ScriptsInv, RunsInv

\* A call that the script sees succeed.
LEMMA SucceedStep ==
  ASSUME ScriptsInv, NEW i \in Scripts, Succeed(i)
  PROVE  ScriptsInv'
<1>0. /\ Inv /\ ScriptsTypeOK /\ losses \in Nat
      /\ at[i] \in 1 .. Len(CallsOf(i)) /\ InOrder(CallsOf(i), KindOf(i), at[i])
      /\ Current(i) = CallsOf(i)[at[i]]
  BY RunTyped DEF ScriptsInv, ScriptsTypeOK
<1>1. /\ Running(i) /\ Perform(i, Current(i)) /\ Proceed(i)
      /\ ids' = ids /\ losses' = losses
  BY DEF Succeed
<1>2. Moved(i) /\ \A j \in Scripts \ {i} : Still(j)
  BY <1>0, <1>1, ProceedMoves DEF Moved, Still
<1>3. /\ RunsInv' /\ Untampered' /\ KeysKept
      /\ Current(i).op = "addKey" =>
           /\ registries'[Registry(Current(i).type)] # NoAccount
           /\ Contains(registries'[Registry(Current(i).type)].signers, FreshKey(i, Current(i).type))
  <2>1. /\ Current(i).op \notin {"tx1", "tx2"} => ~ Past(i)'
        /\ Current(i).op = "tx1" =>
             \/ Current(i)'.op = "tx2" /\ status'[i] = "running"
             \/ Current(i)'.op = "tx1" /\ status'[i] = "done"
        /\ Current(i).op = "tx2" => Current(i)'.op = "tx2" /\ status'[i] \in {"done", "failed"}
    BY <1>0, <1>1, AfterSuccess
  <2>2. losses' \in Nat /\ losses <= losses'
    BY <1>0, <1>1
  <2> QED
    BY <1>1, <1>2, <2>1, <2>2, CallStep
<1>4. KeyRegistered' /\ DoneAtEnd'
  <2>1. KindOf(i) = "two" /\ at[i] = 1 => Current(i).op = "addKey" /\ Current(i).type = "chain"
    BY <1>0 DEF InOrder
  <2>2. KindOf(i) = "two" /\ at[i] = 1 =>
          /\ RegistryExists(Registry("chain"))'
          /\ Contains(registries'[Registry("chain")].signers, FreshKey(i, "chain"))
    <3> SUFFICES ASSUME Current(i).type = "chain", Current(i).op = "addKey"
                 PROVE  /\ RegistryExists(Registry("chain"))'
                        /\ Contains(registries'[Registry("chain")].signers, FreshKey(i, "chain"))
      BY <2>1
    <3> QED
      BY <1>3 DEF RegistryExists, Registry
  <2>3. status'[i] = "done" => at'[i] = Len(CallsOf(i))
    BY <1>0, <1>1, ProceedMoves
  <2> QED
    BY <1>2, <1>3, <2>2, <2>3, RestKept
<1>5. Inv'
  BY <1>0, <1>1, CallsAreInstructions, Inductive
<1>6. ScriptsTypeOK'
  BY <1>0, <1>1, <1>2, <1>5 DEF ScriptsTypeOK, Moved, Inv
<1> QED
  BY <1>3, <1>4, <1>5, <1>6 DEF ScriptsInv, RunsInv

\* A call that the script sees fail, whether it landed or not.
LEMMA FailStep ==
  ASSUME ScriptsInv, NEW i \in Scripts, Fail(i) \/ Lose(i)
  PROVE  ScriptsInv'
<1>0. /\ Inv /\ ScriptsTypeOK /\ Untampered
      /\ at[i] \in 1 .. Len(CallsOf(i)) /\ InOrder(CallsOf(i), KindOf(i), at[i])
      /\ losses \in 0 .. MaxLosses /\ MaxLosses \in Nat
  BY RunTyped, ScriptsAssumption DEF ScriptsInv, ScriptsTypeOK
<1>1. /\ Running(i) /\ Catch(i) /\ ids' = ids
      /\ \/ UNCHANGED vars /\ losses' = losses
         \/ (Perform(i, Current(i)) \/ UNCHANGED vars) /\ losses' = losses + 1 /\ losses < MaxLosses
  BY DEF Fail, Lose
<1>2. Moved(i) /\ \A j \in Scripts \ {i} : Still(j)
  BY <1>0, <1>1, CatchMoves DEF Moved, Still
<1>3. losses' \in 0 .. MaxLosses /\ losses' \in Nat /\ losses <= losses'
  BY <1>0, <1>1
<1>4. RunsInv' /\ Untampered' /\ KeysKept
  <2>1. CASE UNCHANGED vars
    <3>1. UNCHANGED <<registries, txPdas, processed, ids>>
      BY <1>1, <2>1 DEF vars
    <3>2. RunsInv'
      BY <1>1, <1>3, <3>1, ErrorStep
    <3> QED
      BY <1>0, <3>1, <3>2 DEF Untampered, AsDeployed, RegistryExists, KeysKept
  <2>2. CASE Perform(i, Current(i)) /\ losses' = losses + 1
    <3>1. /\ KindOf(i) # "simple" =>
                Current(i)' = Current(i) /\ status'[i] = "failed" /\ (Past(i)' <=> Past(i))
          /\ KindOf(i) = "simple" => ~ Past(i)'
      BY <1>0, <1>1, AfterError
    <3>2. KindOf(i) = "simple" => Current(i).op \notin {"tx1", "tx2"}
      BY <1>0 DEF InOrder, Current
    <3>3. Current(i).op \notin {"tx1", "tx2"} => ~ Past(i)'
      BY <3>1 DEF Past
    <3>4. losses' > 0
      BY <1>0, <2>2
    <3> QED
      BY <1>1, <1>2, <1>3, <2>2, <3>1, <3>2, <3>3, <3>4, CallStep
  <2> QED
    BY <1>1, <2>1, <2>2
<1>5. KeyRegistered' /\ DoneAtEnd'
  <2>1. KindOf(i) # "simple" => at'[i] = at[i] /\ status'[i] = "failed"
    BY <1>0, <1>1, CatchMoves
  <2> QED
    BY <1>2, <1>4, <2>1, RestKept
<1>6. Inv'
  BY <1>0, <1>1, CallsAreInstructions, Inductive
<1>7. ScriptsTypeOK'
  BY <1>0, <1>1, <1>2, <1>3, <1>6 DEF ScriptsTypeOK, Moved, Inv
<1> QED
  BY <1>4, <1>5, <1>6, <1>7 DEF ScriptsInv, RunsInv

\* The operator's switch and the clock concern no run.
LEMMA OutsideStep ==
  ASSUME ScriptsInv, Tick \/ (\E enabled \in BOOLEAN : Switch(enabled)) \/ UNCHANGED scriptsVars
  PROVE  ScriptsInv'
<1>1. /\ UNCHANGED <<registries, txPdas, processed, at, status, ids, losses>>
      /\ clock' = clock \/ (clock < MaxTxId /\ clock' = clock + 1)
  BY DEF Tick, Switch, scriptsVars, vars, replayVars
<1>2. [Next]_vars
  BY StepsOfTheProgram DEF ScriptsInv, ScriptsNext
<1>3. Inv'
  BY <1>2, Inductive DEF ScriptsInv
<1>4. ScriptsTypeOK'
  <2>1. clock' \in 1 .. MaxTxId
    BY <1>1, MessagesAssumption DEF ScriptsInv, ScriptsTypeOK
  <2> QED
    BY <1>1, <1>3, <2>1 DEF ScriptsInv, ScriptsTypeOK, Inv
<1>5. RunsInv'
  <2>1. losses \in Nat /\ losses <= losses
    BY ScriptsAssumption DEF ScriptsInv, ScriptsTypeOK
  <2>2. \A j \in Scripts : Still(j)
    BY <1>1 DEF Still
  <2> QED
    BY <1>1, <2>1, <2>2, QuietStep DEF ScriptsInv, RunsInv
<1>6. Untampered' /\ KeyRegistered' /\ DoneAtEnd'
  BY <1>1 DEF ScriptsInv, Untampered, AsDeployed, RegistryExists, KeyRegistered, DoneAtEnd
<1> QED
  BY <1>3, <1>4, <1>5, <1>6 DEF ScriptsInv, RunsInv

\* Whatever the scripts, the operator and the clock do keeps the invariant.
LEMMA ScriptsInductive ==
  ASSUME ScriptsInv, [ScriptsNext]_scriptsVars
  PROVE  ScriptsInv'
BY TakeIdStep, SucceedStep, FailStep, OutsideStep DEF ScriptsNext

\* All of it holds in every state that the scripts can bring about.
THEOREM ScriptsInvariance == ScriptsSpec => []ScriptsInv
<1>1. ScriptsInit => ScriptsInv
  BY ScriptsInitially
<1>2. ScriptsInv /\ [ScriptsNext]_scriptsVars => ScriptsInv'
  BY ScriptsInductive
<1> QED
  BY <1>1, <1>2, PTL DEF ScriptsSpec

-----------------------------------------------------------------------------
(* What the scripts may rely on *)

\* The type invariant of NetworkScripts.
THEOREM ScriptsTypeCorrect == ScriptsSpec => []ScriptsTypeOK
<1>1. ScriptsInv => ScriptsTypeOK
  BY DEF ScriptsInv
<1> QED
  BY <1>1, ScriptsInvariance, PTL

\* What the scripts do to the chain is what the program's instructions allow to
\* anybody, so all that is proved of the program's steps holds for theirs.
THEOREM ScriptsCallTheProgram == ScriptsSpec => [][Next]_vars
<1>1. ScriptsTypeOK /\ [ScriptsNext]_scriptsVars => [Next]_vars
  BY StepsOfTheProgram
<1> QED
  BY <1>1, ScriptsTypeCorrect, PTL DEF ScriptsSpec

\* Against a network with lost answers, and whatever the scripts try, the ids of a
\* source chain are still admitted in order and delivered at most once.
THEOREM ScriptsDeliver == ScriptsSpec => ImplementsDelivery
<1>1. ScriptsInit => Inv /\ PendingIsTraffic /\ Delivery!Init
  <2> SUFFICES ASSUME ScriptsInit PROVE PendingIsTraffic /\ Delivery!Init
    BY ScriptsInitially DEF ScriptsInv
  <2>1. pendingIds = {} /\ processedIds = {}
    BY DEF ScriptsInit, Deployed, Init, ReplayInit, pendingIds, processedIds
  <2> QED
    BY <2>1 DEF PendingIsTraffic, Delivery!Init
<1>2. ScriptsInv /\ [ScriptsNext]_scriptsVars => [Next]_vars
  BY StepsOfTheProgram DEF ScriptsInv
<1>3. ScriptsInv => Inv
  BY DEF ScriptsInv
<1> QED
  BY <1>1, <1>2, <1>3, ScriptsInvariance, PendingIsTrafficInductive, StepsDeliver, PTL
     DEF ScriptsSpec, ImplementsDelivery, Delivery!Spec

\* A script that ends well tells the truth: its message was processed, or its PDA
\* is open if it is test-single-signature (test-single-signature.ts:62).
THEOREM ReportedSuccessIsReal == ScriptsSpec => []SuccessIsReal
<1>1. ScriptsInv => SuccessIsReal
  <2> SUFFICES ASSUME ScriptsInv, NEW i \in Scripts, status[i] = "done", KindOf(i) # "simple"
               PROVE  /\ KindOf(i) \in {"two", "three", "devnet"} => processed[MessageOf(i)] = 1
                      /\ KindOf(i) = "single" => Pending(MessageOf(i)) /\ processed[MessageOf(i)] = 0
    BY DEF SuccessIsReal
  <2>1. /\ InOrder(CallsOf(i), KindOf(i), at[i]) /\ Current(i) = CallsOf(i)[at[i]]
        /\ at[i] = Len(CallsOf(i)) /\ Len(CallsOf(i)) \in Nat
    BY RunTyped, CallOrder DEF ScriptsInv, DoneAtEnd
  <2>2. Current(i).op = IF KindOf(i) = "single" THEN "tx1" ELSE "tx2"
    BY <2>1 DEF InOrder
  <2>3. Past(i)
    BY <2>2 DEF Past
  <2> QED
    BY <2>2, <2>3 DEF ScriptsInv, Accounted, Waiting
<1> QED
  BY <1>1, ScriptsInvariance, PTL

\* Behind every open PDA is a run that can be named.
THEOREM OpenPdasHaveCauses == ScriptsSpec => []StrandedHasCause
<1>1. ScriptsInv => StrandedHasCause
  BY DEF ScriptsInv
<1> QED
  BY <1>1, ScriptsInvariance, PTL

\* With three signatures TX2 is out of reach whatever the chain's state, and no
\* other run frees the PDA (sdk.ts:235).
THEOREM LargeRunsAlwaysStrand == ScriptsSpec => []LargeRunsStrand
<1>1. ScriptsInv => LargeRunsStrand
  BY DEF ScriptsInv, Accounted, Past, Waiting, LargeRunsStrand
<1> QED
  BY <1>1, ScriptsInvariance, PTL

\* The scripts append keys to the chain and project registries; nothing else
\* that they try on registries gets through (signer_registry.rs:237).
THEOREM DeploymentNeverDamaged == ScriptsSpec => DeploymentOnlyGrows
<1>1. ASSUME ScriptsInv, [ScriptsNext]_scriptsVars, NEW k \in RegistryKeys
      PROVE  Grows(k)
  <2>1. Inv /\ Untampered
    BY <1>1 DEF ScriptsInv
  <2>2. CASE UNCHANGED registries
    BY <2>1, <2>2, UntouchedGrows
  <2>3. ASSUME NEW i \in Scripts, Perform(i, Current(i))
        PROVE  Grows(k)
    <3>1. CASE Current(i).op = "addKey"
      <4>1. /\ Current(i).type \in {"chain", "project"}
            /\ AddSigner(Registry(Current(i).type), Operator, FreshKey(i, Current(i).type))
        BY <1>1, <2>3, <3>1, CallEffects
      <4>2. FreshKey(i, Current(i).type) \in Signers
        BY <4>1, ScriptsAssumption DEF RegistryTypes
      <4>3. \A type \in {"chain", "project"}, s \in Signers :
              AddSigner(Registry(type), Operator, s) => Grows(k)
        BY <2>1, AddKeyStep
      <4> QED
        BY <4>1, <4>2, <4>3
    <3>2. CASE Current(i).op # "addKey"
      BY <1>1, <2>2, <2>3, <3>2, CallEffects
    <3> QED
      BY <3>1, <3>2
  <2> QED
    BY <1>1, <2>2, <2>3
       DEF ScriptsNext, TakeId, Succeed, Fail, Lose, Tick, Switch, scriptsVars, vars
<1>2. ScriptsInv /\ [ScriptsNext]_scriptsVars =>
        [\A k \in RegistryKeys : RegistryExists(k) =>
           /\ IsPrefix(registries[k].signers, registries'[k].signers)
           /\ registries'[k] = [registries[k] EXCEPT !.signers = registries'[k].signers]]_scriptsVars
  BY <1>1 DEF Grows
<1> QED
  BY <1>2, ScriptsInvariance, PTL DEF ScriptsSpec, DeploymentOnlyGrows

\* The wallet and a fresh key satisfy the three registries of Chain.
LEMMA TwoKeysSuffice ==
  ASSUME NEW key \in Signers \ {Wallet}, NEW valid, {Wallet, key} \subseteq valid,
         NEW layers, \A layer \in layers : layer.enabled /\ layer.required = 1 /\ Contains(layer.signers, Wallet),
         \E layer \in layers : Contains(layer.signers, key)
  PROVE  ValidateThreeLayerSignatures(<<Wallet, key>>, valid, layers)
<1> DEFINE list == <<Wallet, key>>
<1>1. /\ DOMAIN list = {1, 2} /\ Len(list) = 2
      /\ list[1] = Wallet /\ list[2] = key
  OBVIOUS
<1> HIDE DEF list
<1>2. Len(list) \in 1 .. MaxSignatures /\ Len(list) >= MinSignatures
  BY <1>1, ScriptsAssumption
<1>3. SignersDiffer(list)
  BY <1>1 DEF SignersDiffer, IsInjective
<1>4. \A i \in DOMAIN list : list[i] \in valid
  BY <1>1
<1>5. \A layer \in layers : IsSigner(layer, Wallet)
  BY DEF IsSigner
<1>6. \A i \in DOMAIN list : \E layer \in layers : IsSigner(layer, list[i])
  BY <1>1, <1>5 DEF IsSigner
<1>7. ASSUME NEW layer \in layers
      PROVE  MeetsThreshold(list, layer)
  <2>1. 1 \in Tally(list, layer)
    BY <1>1, <1>5 DEF Tally
  <2>2. IsFiniteSet(Tally(list, layer))
    <3>1. IsFiniteSet(1 .. Len(list))
      <4>1. Wallet \in Signers
        BY ScriptsAssumption
      <4>2. list \in Seq(Signers)
        BY <4>1 DEF list
      <4> QED
        BY <4>2, PositionsFinite
    <3>2. Tally(list, layer) \subseteq 1 .. Len(list)
      BY <1>1 DEF Tally
    <3> QED
      BY <3>1, <3>2, FS_Subset
  <2>3. Cardinality(Tally(list, layer)) \in Nat /\ Cardinality(Tally(list, layer)) # 0
    BY <2>1, <2>2, FS_CardinalityType, FS_EmptySet
  <2> QED
    BY <2>3 DEF MeetsThreshold
<1> QED
  BY <1>2, <1>3, <1>4, <1>6, <1>7 DEF ValidateThreeLayerSignatures, list

\* A two-layer run that got past TX1 gets through TX2 as soon as the gateway is
\* on: no other run takes its PDA, its key or its registries away.
THEOREM PreparedRunsGetThrough == ScriptsSpec => []PreparedStaysProcessable
<1>1. ScriptsInv => PreparedStaysProcessable
  <2> SUFFICES ASSUME ScriptsInv, NEW i \in Scripts,
                      KindOf(i) = "two", Running(i), Current(i).op = "tx2", IsEnabled(Chain)
               PROVE  Processable(MessageOf(i), ListOf(i), {Registry("project")})
    BY DEF PreparedStaysProcessable
  <2> DEFINE m   == MessageOf(i)
             key == FreshKey(i, "chain")
             keys == LayerKeys(m) \cup {Registry("project")}
  <2>1. /\ m \in Traffic /\ m.source = Chain /\ m.dest = Chain /\ m.txId = ids[i]
        /\ AddressOf(m) = <<Chain, ids[i]>> /\ AddressOf(m) \in Addresses
    BY RunTyped, TrafficTyped DEF ScriptsInv, MessageOf, MessageWith, DestOf
  <2>2. Waiting(i) /\ m.payload \in AcceptablePayloads
    BY RunTyped DEF ScriptsInv, Accounted, Past, Running
  <2>3. HoldsPda(m)
    BY <2>1, <2>2 DEF ScriptsInv, Inv, TypeOK, ReplayTypeOK, HoldsPda, Waiting, Pending
  <2>4. ListOf(i) = <<Wallet, key>> /\ key \in Signers \ {Wallet}
    BY ScriptsAssumption DEF ListOf, RegistryTypes
  <2>5. {Wallet, key} \subseteq FoundValid(m)
    <3>1. ToSet(ListOf(i)) \X {m} \subseteq Evidence
      BY RunTyped, ScriptInputsAssumption DEF ScriptsInv, MessageOf
    <3>2. {Wallet, key} \subseteq ToSet(<<Wallet, key>>)
      BY DEF ToSet
    <3> HIDE DEF m, key
    <3>3. \A s \in {Wallet, key} : <<s, m>> \in Evidence
      BY <2>4, <3>1, <3>2
    <3> QED
      BY <3>3 DEF FoundValid
  <2>6. keys = {Registry("via"), Registry("chain"), Registry("project")}
    BY <2>1 DEF LayerKeys, Registry
  <2>7. /\ RegistryExists(Registry("chain")) /\ Contains(registries[Registry("chain")].signers, key)
    <3>1. at[i] \in 1 .. Len(CallsOf(i)) /\ Len(CallsOf(i)) \in Nat /\ at[i] # 1
      BY RunTyped, CallOrder DEF ScriptsInv, InOrder
    <3> QED
      BY <3>1 DEF ScriptsInv, KeyRegistered
  <2>8. \A k \in keys : k \in RegistryKeys /\ RegistryExists(k)
    BY <2>6, <2>7, ChainRegistries DEF ScriptsInv, Untampered, RegistryTypes
  <2>9. ASSUME NEW k \in keys
        PROVE  /\ registries[k].enabled /\ registries[k].required = 1
               /\ Contains(registries[k].signers, Wallet)
    <3>1. AsDeployed(k, registries[k])
      BY <2>8 DEF ScriptsInv, Untampered
    <3>2. registries[k].signers \in Seq(Signers)
      BY <2>8 DEF ScriptsInv, Inv, TypeOK, RegistriesTypeOK, RegistryAccount, RegistryExists
    <3>3. 1 \in 1 .. Len(registries[k].signers)
      BY <3>1, <3>2 DEF AsDeployed
    <3> QED
      BY <3>1, <3>3 DEF AsDeployed, Contains
  <2> HIDE DEF keys, m, key
  <2>10. ValidateThreeLayerSignatures(<<Wallet, key>>, FoundValid(m), {registries[k] : k \in keys})
    BY <2>4, <2>5, <2>6, <2>7, <2>9, TwoKeysSuffice
  <2>11. Processable(m, <<Wallet, key>>, {Registry("project")})
    BY <2>1, <2>2, <2>3, <2>8, <2>10 DEF Processable, keys
  <2> QED
    BY <2>4, <2>11 DEF m
<1> QED
  BY <1>1, ScriptsInvariance, PTL
=============================================================================
