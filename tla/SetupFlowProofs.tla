---------------------------- MODULE SetupFlowProofs ----------------------------
(***************************************************************************)
(* Theorems about setupChain, for any operators, chains and number of      *)
(* kills.                                                                  *)
(*                                                                         *)
(* The argument: accounts are only ever added, so what a run has passed    *)
(* stays there; and whoever creates anything of a chain but its gateway    *)
(* administers that gateway.                                               *)
(***************************************************************************)
EXTENDS SetupFlow, TLAPS

\* What setupChain has passed exists.
PassedExists ==
  \A i \in Invocations : \A n \in DOMAIN Accounts : n < at[i] => Exists(Accounts[n], i[2])

SetupInv == SetupTypeOK /\ PassedExists /\ OneOwner

Names == {"gateway", "counter"} \cup RegistryTypes

-----------------------------------------------------------------------------
(* One account *)

\* Creating an account of a chain makes it exist, takes nothing away, and leaves
\* the registries to the authority of their gateway.
LEMMA CreateAdds ==
  ASSUME TypeOK, OneOwner, NEW account \in Names, NEW o \in Authorities,
         NEW c \in ChainIds, MayCreate(account, o, c), Create(account, o, c)
  PROVE  /\ TypeOK' /\ OneOwner'
         /\ Exists(account, c)'
         /\ \A other \in Names, d \in ChainIds : Exists(other, d) => Exists(other, d)'
<1> USE DEF TypeOK, GatewaysTypeOK, RegistriesTypeOK, ReplayTypeOK
<1>1. CASE account = "gateway"
  <2> DEFINE created == [authority |-> o, enabled |-> TRUE]
  <2>1. /\ gateways[c] = NoAccount
        /\ gateways' = [gateways EXCEPT ![c] = created]
        /\ UNCHANGED <<sent, registries, counters, txPdas, rent, processed>>
    BY <1>1 DEF Create, InitializeGateway, IsFree, replayVars, RegistryTypes
  <2>2. created \in GatewayAccount
    BY DEF GatewayAccount
  <2> HIDE DEF created
  <2>3. created # NoAccount
    BY <2>2, NoGatewayAssumption
  <2> USE <2>3
  <2>4. TypeOK'
    BY <2>1, <2>2
  <2>5. gateways'[c] # NoAccount /\ \A d \in ChainIds \ {c} : gateways'[d] = gateways[d]
    BY <2>1, <2>2
  <2>6. OneOwner'
    BY <2>1, <2>5, RegistryKeysAssumption DEF OneOwner, RegistryExists, Administers
  <2>7. \A other \in Names, d \in ChainIds : Exists(other, d) => Exists(other, d)'
    BY <2>1, <2>5 DEF Exists, RegistryExists
  <2> QED
    BY <1>1, <2>4, <2>5, <2>6, <2>7 DEF Exists
<1>2. CASE account = "counter"
  <2>1. /\ counters' = [counters EXCEPT ![c] = 0]
        /\ UNCHANGED <<gateways, sent, registries, txPdas, rent, processed>>
    BY <1>2 DEF Create, InitializeCounter, gatewayVars, RegistryTypes
  <2>2. 0 \in TxIds /\ 0 # NoAccount
    BY MessagesAssumption DEF TxIds
  <2>3. TypeOK'
    BY <2>1, <2>2
  <2>4. counters'[c] # NoAccount /\ \A d \in ChainIds \ {c} : counters'[d] = counters[d]
    BY <2>1, <2>2
  <2>5. OneOwner'
    BY <2>1 DEF OneOwner, RegistryExists, Administers
  <2>6. \A other \in Names, d \in ChainIds : Exists(other, d) => Exists(other, d)'
    BY <2>1, <2>4 DEF Exists, RegistryExists
  <2> QED
    BY <1>2, <2>3, <2>4, <2>5, <2>6 DEF Exists
<1>3. CASE account \in RegistryTypes
  <2> DEFINE k == <<account, c>>
             created == [authority |-> o, signers |-> <<KeyOf(o)>>,
                         required |-> SetupThreshold, enabled |-> TRUE]
  <2>1. /\ registries' = [registries EXCEPT ![k] = created]
        /\ UNCHANGED <<gateways, sent, counters, txPdas, rent, processed>>
    BY <1>3 DEF Create, InitializeSignerRegistry, gatewayVars, replayVars, RegistryTypes
  <2>2. k \in RegistryKeys
    BY <1>3, SetupAssumption
  <2>3. created.authority = o /\ Administers(o, c)
    BY <1>3 DEF MayCreate, RegistryTypes
  <2>4. <<KeyOf(o)>> \in Seq(Signers)
    BY SetupAssumption, CallerInputsAssumption
  <2>5. created \in RegistryAccount
    BY <2>4 DEF RegistryAccount, SetupThreshold
  <2> HIDE DEF created
  <2>6. created # NoAccount
    BY <2>5, NoRegistryAssumption
  <2> USE <2>5, <2>6
  <2>7. TypeOK'
    BY <2>1, <2>2
  <2>8. registries'[k] = created /\ \A x \in RegistryKeys \ {k} : registries'[x] = registries[x]
    BY <2>1, <2>2
  <2>9. OneOwner'
    BY <2>1, <2>2, <2>3, <2>8 DEF OneOwner, RegistryExists, Administers
  <2>10. \A x \in RegistryKeys : RegistryExists(x) => RegistryExists(x)'
    BY <2>2, <2>8 DEF RegistryExists
  <2>11. \A other \in Names, d \in ChainIds : Exists(other, d) => Exists(other, d)'
    BY <2>1, <2>10, SetupAssumption DEF Exists, Names
  <2>12. Exists(account, c)'
    BY <1>3, <2>2, <2>8 DEF Exists, RegistryExists, RegistryTypes
  <2> QED
    BY <2>7, <2>9, <2>11, <2>12
<1> QED
  BY <1>1, <1>2, <1>3 DEF Names

\* The accounts of a chain by their positions, and an invocation by its parts.
LEMMA SetupTyped ==
  /\ Len(Accounts) = 5 /\ Returned = 6 /\ Failed = -1 /\ DOMAIN Accounts = 1 .. 5
  /\ \A n \in 1 .. 5 : Accounts[n] \in Names
  /\ \A i \in Invocations : i[1] \in Authorities /\ i[2] \in ChainIds
BY DEF Accounts, Returned, Failed, Names, RegistryTypes, Invocations

\* At the start no invocation has passed anything.
LEMMA SetupInitially == SetupInit => SetupInv
<1> SUFFICES ASSUME SetupInit PROVE SetupInv
  OBVIOUS
<1> USE DEF SetupInit, Init, GatewaysInit, RegistriesInit, ReplayInit
<1>1. SetupTypeOK
  BY MessagesAssumption, SetupAssumption, SetupTyped
     DEF SetupTypeOK, TypeOK, GatewaysTypeOK, RegistriesTypeOK, ReplayTypeOK, TxIds
<1>2. PassedExists
  BY SetupTyped DEF PassedExists
<1>3. OneOwner
  BY DEF OneOwner, RegistryExists
<1> QED
  BY <1>1, <1>2, <1>3 DEF SetupInv

\* An invocation that moves to a place before which everything exists.
LEMMA MoveKeeps ==
  ASSUME SetupInv, NEW i \in Invocations, NEW position \in Failed .. Returned,
         at' = [at EXCEPT ![i] = position],
         interruptions' \in 0 .. MaxInterruptions,
         TypeOK', OneOwner',
         \A other \in Names, d \in ChainIds : Exists(other, d) => Exists(other, d)',
         \A n \in DOMAIN Accounts : n < position => n < at[i] \/ Exists(Accounts[n], i[2])'
  PROVE  SetupInv'
<1>1. SetupTypeOK'
  BY DEF SetupInv, SetupTypeOK
<1>2. PassedExists'
  <2> SUFFICES ASSUME NEW o \in Invocations, NEW n \in DOMAIN Accounts, n < at'[o]
               PROVE  Exists(Accounts[n], o[2])'
    BY DEF PassedExists
  <2>1. at'[o] = IF o = i THEN position ELSE at[o]
    BY DEF SetupInv, SetupTypeOK
  <2>2. n < at[o] => Exists(Accounts[n], o[2])
    BY DEF SetupInv, PassedExists
  <2>3. Accounts[n] \in Names /\ o[2] \in ChainIds
    BY SetupTyped
  <2> QED
    BY <2>1, <2>2, <2>3
<1> QED
  BY <1>1, <1>2 DEF SetupInv

\* No step of any setupChain breaks the invariant.
LEMMA SetupInductive ==
  ASSUME SetupInv, [SetupNext]_setupVars
  PROVE  SetupInv'
<1>1. TypeOK /\ OneOwner
  BY DEF SetupInv, SetupTypeOK
<1>2. ASSUME UNCHANGED vars
      PROVE  /\ TypeOK' /\ OneOwner'
             /\ \A other \in Names, d \in ChainIds : Exists(other, d) => Exists(other, d)'
  BY <1>1, <1>2
     DEF vars, TypeOK, GatewaysTypeOK, RegistriesTypeOK, ReplayTypeOK,
         OneOwner, RegistryExists, Administers, Exists
<1>3. ASSUME NEW i \in Invocations,
             Start(i) \/ Advance(i) \/ Interrupt(i)
      PROVE  SetupInv'
  <2>1. /\ at[i] \in -1 .. 6 /\ interruptions \in 0 .. MaxInterruptions
        /\ at \in [Invocations -> -1 .. 6]
        /\ i[1] \in Authorities /\ i[2] \in ChainIds
    BY SetupTyped DEF SetupInv, SetupTypeOK
  <2>2. /\ \A n \in DOMAIN Accounts : ~(n < 0) /\ ~(n < 1)
        /\ \A n \in DOMAIN Accounts : n < at[i] + 1 => n < at[i] \/ n = at[i]
        /\ \A n \in DOMAIN Accounts : ~(n < Failed)
        /\ 0 \in Failed .. Returned /\ 1 \in Failed .. Returned /\ Failed \in Failed .. Returned
    BY <2>1, SetupTyped
  <2>3. CASE Start(i)
    <3>1. UNCHANGED vars /\ at' = [at EXCEPT ![i] = 1] /\ interruptions' = interruptions
      BY <2>3 DEF Start, GoTo
    <3> QED
      BY <2>1, <2>2, <3>1, <1>2, MoveKeeps
  <2>4. CASE Throw(i)
    <3>1. UNCHANGED vars /\ at' = [at EXCEPT ![i] = Failed] /\ interruptions' = interruptions
      BY <2>4 DEF Throw, GoTo
    <3> QED
      BY <2>1, <2>2, <3>1, <1>2, MoveKeeps
  <2>5. ASSUME Running(i)
        PROVE  /\ at[i] \in DOMAIN Accounts /\ Current(i) \in Names
               /\ at[i] + 1 \in Failed .. Returned
    BY <2>1, <2>5, SetupTyped DEF Running, Current
  <2>6. ASSUME Running(i), NEW account \in Names, account = Current(i), Exists(account, i[2])',
               TypeOK', OneOwner',
               \A other \in Names, d \in ChainIds : Exists(other, d) => Exists(other, d)',
               GoTo(i, at[i] + 1)
        PROVE  SetupInv'
    <3>1. \A n \in DOMAIN Accounts : n < at[i] + 1 => n < at[i] \/ Exists(Accounts[n], i[2])'
      BY <2>2, <2>6 DEF Current
    <3>2. at' = [at EXCEPT ![i] = at[i] + 1] /\ interruptions' = interruptions
      BY <2>6 DEF GoTo
    <3> QED
      BY <2>1, <2>5, <2>6, <3>1, <3>2, MoveKeeps
  <2>7. CASE CreateNext(i)
    <3>1. PICK account \in Names : account = Current(i)
      BY <2>5, <2>7 DEF CreateNext
    <3>2. Running(i) /\ MayCreate(account, i[1], i[2]) /\ Create(account, i[1], i[2])
      BY <2>7, <3>1 DEF CreateNext
    <3> QED
      BY <1>1, <2>1, <2>6, <2>7, <3>1, <3>2, CreateAdds DEF CreateNext
  <2>8. CASE SkipExisting(i)
    <3>1. PICK account \in Names : account = Current(i)
      BY <2>5, <2>8 DEF SkipExisting
    <3>2. Running(i) /\ Exists(account, i[2]) /\ UNCHANGED vars /\ GoTo(i, at[i] + 1)
      BY <2>8, <3>1 DEF SkipExisting
    <3> QED
      BY <1>2, <2>1, <2>6, <3>1, <3>2
  <2>9. CASE Interrupt(i)
    <3>1. /\ Running(i) /\ interruptions' \in 0 .. MaxInterruptions
          /\ at' = [at EXCEPT ![i] = 0]
      BY <2>1, <2>9, SetupAssumption DEF Interrupt
    <3>2. PICK account \in Names : account = Current(i)
      BY <2>5, <3>1
    <3>3. /\ TypeOK' /\ OneOwner'
          /\ \A other \in Names, d \in ChainIds : Exists(other, d) => Exists(other, d)'
      <4>1. CASE UNCHANGED vars
        BY <4>1, <1>2
      <4>2. CASE MayCreate(account, i[1], i[2]) /\ Create(account, i[1], i[2])
        BY <4>2, <1>1, <2>1, CreateAdds
      <4> QED
        BY <2>9, <3>2, <4>1, <4>2 DEF Interrupt
    <3> QED
      BY <2>1, <2>2, <3>1, <3>3, MoveKeeps
  <2> QED
    BY <1>3, <2>3, <2>4, <2>7, <2>8, <2>9 DEF Advance
<1>4. CASE UNCHANGED setupVars
  BY <1>2, <1>4 DEF setupVars, SetupInv, SetupTypeOK, PassedExists, Exists, RegistryExists, vars
<1>5. ASSUME NEW c \in ChainIds, NEW o \in Authorities, NEW enabled \in BOOLEAN, Switch(c, o, enabled)
      PROVE  SetupInv'
  <2>1. /\ gateways[c] \in GatewayAccount
        /\ gateways' = [gateways EXCEPT ![c].enabled = enabled]
        /\ UNCHANGED <<sent, registries, counters, txPdas, rent, processed, at, interruptions>>
    BY <1>1, <1>5 DEF Switch, SetSystemEnabled, Administers, TypeOK, GatewaysTypeOK, replayVars
  <2> DEFINE switched == [gateways[c] EXCEPT !.enabled = enabled]
  <2>2. switched \in GatewayAccount /\ switched.authority = gateways[c].authority
    BY <2>1 DEF GatewayAccount
  <2> HIDE DEF switched
  <2>3. /\ gateways' = [gateways EXCEPT ![c] = switched]
        /\ switched # NoAccount
    BY <2>1, <2>2, NoGatewayAssumption DEF switched
  <2>4. gateways'[c] = switched /\ \A d \in ChainIds \ {c} : gateways'[d] = gateways[d]
    BY <1>1, <2>3 DEF TypeOK, GatewaysTypeOK
  <2>5. SetupTypeOK'
    BY <1>1, <2>1, <2>2, <2>3
       DEF SetupInv, SetupTypeOK, TypeOK, GatewaysTypeOK, RegistriesTypeOK, ReplayTypeOK
  <2>6. OneOwner'
    BY <1>1, <2>1, <2>2, <2>3, <2>4, RegistryKeysAssumption, NoGatewayAssumption
       DEF OneOwner, RegistryExists, Administers
  <2>7. \A other \in Names, d \in ChainIds : Exists(other, d) => Exists(other, d)'
    BY <2>1, <2>3, <2>4 DEF Exists, RegistryExists
  <2>8. PassedExists'
    BY <2>1, <2>7, SetupTyped DEF SetupInv, PassedExists
  <2> QED
    BY <2>5, <2>6, <2>8 DEF SetupInv
<1> QED
  BY <1>3, <1>4, <1>5 DEF SetupNext

-----------------------------------------------------------------------------
(* Theorems *)

\* The invariant holds whatever runs are started, fail or are killed.
THEOREM SetupInvariance == SetupSpec => []SetupInv
BY SetupInitially, SetupInductive, PTL DEF SetupSpec

\* Types.
THEOREM SetupTypeCorrect == SetupSpec => []SetupTypeOK
BY SetupInvariance, PTL DEF SetupInv

\* When setupChain returns all five accounts of the chain exist.
THEOREM ReturnMeansReady == SetupSpec => []ReturnedMeansReady
<1>1. SetupInv => ReturnedMeansReady
  BY SetupTyped DEF SetupInv, PassedExists, ReturnedMeansReady, Ready
<1> QED
  BY <1>1, SetupInvariance, PTL

\* The registries of a chain belong to the authority of its gateway.
THEOREM SetupHasOneOwner == SetupSpec => []OneOwner
BY SetupInvariance, PTL DEF SetupInv

\* Whatever setupChain does, and whenever it is killed, it does by calls of the
\* program's instructions.
LEMMA SetupStepsAreCalls ==
  ASSUME SetupTypeOK, [SetupNext]_setupVars
  PROVE  [Next]_vars
<1>1. ASSUME NEW i \in Invocations, Create(Current(i), i[1], i[2])
      PROVE  Next
  <2>1. i[1] \in Authorities /\ i[2] \in ChainIds
    BY SetupTyped
  <2>2. CASE /\ InitializeGateway(i[2], i[1])
             /\ UNCHANGED <<registries, replayVars, processed>>
    BY <2>1, <2>2 DEF Next, GatewaysNext
  <2>3. CASE /\ InitializeCounter(i[2], i[1])
             /\ UNCHANGED <<gatewayVars, registries, processed>>
    BY <2>1, <2>3 DEF Next, ReplayNext
  <2>4. ASSUME NEW type \in RegistryTypes,
               InitializeSignerRegistry(<<type, i[2]>>, i[1], <<KeyOf(i[1])>>, SetupThreshold),
               UNCHANGED <<gatewayVars, replayVars, processed>>
        PROVE  Next
    <3>1. /\ <<type, i[2]>> \in RegistryKeys
          /\ <<KeyOf(i[1])>> \in SignerLists
          /\ SetupThreshold \in Thresholds
      BY <2>1, SetupAssumption DEF SetupThreshold
    <3>2. RegistriesNext
      BY <2>1, <2>4, <3>1 DEF RegistriesNext
    <3> QED
      BY <2>4, <3>2 DEF Next
  <2> QED
    BY <1>1, <2>2, <2>3, <2>4 DEF Create
<1>2. ASSUME NEW c \in ChainIds, NEW o \in Authorities, NEW enabled \in BOOLEAN, Switch(c, o, enabled)
      PROVE  Next
  BY <1>2 DEF Switch, Next, GatewaysNext
<1>3. CASE UNCHANGED vars
  BY <1>3
<1> QED
  BY <1>1, <1>2, <1>3
     DEF SetupNext, Start, Advance, CreateNext, SkipExisting, Throw, Interrupt, setupVars

\* The setup workflow implements the program: whatever is proved of the program
\* for any callers holds of a deployment while it is set up.
THEOREM SetupImplementsProgram == SetupSpec => Spec
<1>1. SetupInit => Init
  BY DEF SetupInit
<1>2. SetupTypeOK /\ [SetupNext]_setupVars => [Next]_vars
  BY SetupStepsAreCalls
<1> QED
  BY <1>1, <1>2, SetupTypeCorrect, PTL DEF SetupSpec, Spec
=============================================================================
