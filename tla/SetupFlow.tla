------------------------------- MODULE SetupFlow -------------------------------
(***************************************************************************)
(* The deployment workflow tools/setup.ts over the program: setupChain     *)
(* creates the gateway, the counter and the three registries of a chain in *)
(* five transactions.  It takes an account that is "already in use" for    *)
(* its own and goes on; any other error, or a kill, ends it half way, and  *)
(* it may be started again.  Several operators may set up the same chains, *)
(* and switch their gateways on and off meanwhile.                         *)
(***************************************************************************)
EXTENDS MessageGateway

CONSTANTS
  KeyOf(_),         \* the wallet of an operator as a signer
  MaxInterruptions  \* how often a run is killed, all together

\* setupChain passes a list of its wallet alone and a threshold of 1.
ASSUME SetupAssumption ==
  /\ \A o \in Authorities : <<KeyOf(o)>> \in SignerLists
  /\ 1 \in Thresholds
  /\ RegistryTypes \X ChainIds \subseteq RegistryKeys
  /\ MaxInterruptions \in Nat

VARIABLES
  at,            \* the transaction each setupChain is at; 0 before it is started
                 \* and after it was killed
  interruptions  \* kills so far

setupVars == <<vars, at, interruptions>>

\* Faulty variant, for mutation: the default of initializeRegistry in the SDK.
DefaultThreshold == 0

SetupThreshold == 1

Accounts == <<"gateway", "counter", "via", "chain", "project">>

\* setupChain has returned; it has thrown.
Returned == Len(Accounts) + 1
Failed == -1

Invocations == Authorities \X ChainIds

SetupTypeOK ==
  /\ TypeOK
  /\ at \in [Invocations -> Failed .. Returned]
  /\ interruptions \in 0 .. MaxInterruptions

SetupInit ==
  /\ Init
  /\ at = [i \in Invocations |-> 0]
  /\ interruptions = 0

-----------------------------------------------------------------------------
Exists(account, c) ==
  CASE account = "gateway" -> gateways[c] # NoAccount
    [] account = "counter" -> counters[c] # NoAccount
    [] OTHER -> RegistryExists(<<account, c>>)

\* Faulty variant, for mutation: any gateway of the operator will do.
MayCreateWithAnyGateway(account, o, c) ==
  CASE account = "gateway" -> TRUE
    [] account = "counter" -> IsGatewayAuthority(o) /\ IsEnabled(c) /\ c > 0
    [] OTHER -> IsGatewayAuthority(o) /\ ValidConfiguration(<<KeyOf(o)>>, SetupThreshold)

\* The SDK passes the gateway of the same chain to every instruction.
MayCreate(account, o, c) ==
  CASE account = "gateway" -> TRUE
    [] account = "counter" -> Administers(o, c) /\ IsEnabled(c) /\ c > 0
    [] OTHER -> Administers(o, c) /\ ValidConfiguration(<<KeyOf(o)>>, SetupThreshold)

Create(account, o, c) ==
  \/ /\ account = "gateway"
     /\ InitializeGateway(c, o)
     /\ UNCHANGED <<registries, replayVars, processed>>
  \/ /\ account = "counter"
     /\ InitializeCounter(c, o)
     /\ UNCHANGED <<gatewayVars, registries, processed>>
  \/ /\ account \in RegistryTypes
     /\ InitializeSignerRegistry(<<account, c>>, o, <<KeyOf(o)>>, SetupThreshold)
     /\ UNCHANGED <<gatewayVars, replayVars, processed>>

Running(i) == at[i] \in 1 .. Len(Accounts)

Current(i) == Accounts[at[i]]

GoTo(i, position) == at' = [at EXCEPT ![i] = position] /\ UNCHANGED interruptions

Start(i) == at[i] \in {0, Failed} /\ GoTo(i, 1) /\ UNCHANGED vars

CreateNext(i) ==
  /\ Running(i)
  /\ MayCreate(Current(i), i[1], i[2])
  /\ Create(Current(i), i[1], i[2])
  /\ GoTo(i, at[i] + 1)

\* Faulty variant, for mutation: every error is taken for "already in use".
SkipAnyError(i) ==
  /\ Running(i)
  /\ Exists(Current(i), i[2]) \/ ~MayCreate(Current(i), i[1], i[2])
  /\ GoTo(i, at[i] + 1)
  /\ UNCHANGED vars

\* The init of the account comes before any other check of the instruction, so
\* an account of anybody reads "already in use".
SkipExisting(i) ==
  /\ Running(i)
  /\ Exists(Current(i), i[2])
  /\ GoTo(i, at[i] + 1)
  /\ UNCHANGED vars

\* Any other error is thrown on; for the owner of the gateway that is the counter
\* while the gateway is switched off.
Throw(i) ==
  /\ Running(i)
  /\ ~Exists(Current(i), i[2])
  /\ ~MayCreate(Current(i), i[1], i[2])
  /\ GoTo(i, Failed)
  /\ UNCHANGED vars

\* The process is killed, or the answer is lost and the SDK throws something else;
\* the transaction under way may land nevertheless.
Interrupt(i) ==
  /\ Running(i)
  /\ interruptions < MaxInterruptions
  /\ interruptions' = interruptions + 1
  /\ at' = [at EXCEPT ![i] = 0]
  /\ \/ MayCreate(Current(i), i[1], i[2]) /\ Create(Current(i), i[1], i[2])
     \/ UNCHANGED vars

\* setSystemEnabled of the SDK, which an operator calls by other means.
Switch(c, o, enabled) ==
  /\ SetSystemEnabled(c, o, enabled)
  /\ UNCHANGED <<registries, replayVars, processed, at, interruptions>>

Advance(i) == CreateNext(i) \/ SkipExisting(i) \/ Throw(i)

SetupNext ==
  \/ \E i \in Invocations : Start(i) \/ Advance(i) \/ Interrupt(i)
  \/ \E c \in ChainIds, o \in Authorities, enabled \in BOOLEAN : Switch(c, o, enabled)

\* A run that is not killed gets an answer to its transaction sooner or later.
SetupFairness == \A i \in Invocations : WF_setupVars(Advance(i))

SetupSpec == SetupInit /\ [][SetupNext]_setupVars /\ SetupFairness

-----------------------------------------------------------------------------
Ready(c) == \A n \in DOMAIN Accounts : Exists(Accounts[n], c)

\* When setupChain returns the chain is set up, whoever set up what and whatever
\* happened to earlier runs.
ReturnedMeansReady == \A i \in Invocations : at[i] = Returned => Ready(i[2])

\* Whoever created the gateway of a chain owns all its registries: two operators
\* who set up one chain at a time never share it.
OneOwner ==
  \A k \in RegistryKeys : RegistryExists(k) => Administers(registries[k].authority, k[2])

\* The owner of a gateway always gets through: whatever earlier runs and other
\* operators left behind or do meanwhile, its setupChain returns unless it is
\* killed or the gateway is switched off while it runs (setup.ts:18-49,
\* initialize_counter.rs:91).  The counter of chain 0 is always refused.
OwnerGetsThrough ==
  \A i \in Invocations :
    Running(i) /\ Administers(i[1], i[2]) /\ i[2] # 0
      ~> at[i] \in {0, Returned} \/ ~IsEnabled(i[2])

\* test-devnet-signatures.ts:18, 76-85: the wallet "is the signer in all registries"
\* and its signatures are enough for TX2.  Stated for any vector at all: on chains
\* that one operator set up, some vector of valid entries is accepted.
SetupAcceptsSignatures ==
  \A o \in Authorities, source, dest \in ChainIds :
    at[<<o, source>>] = Returned /\ at[<<o, dest>>] = Returned =>
      \E list \in SignatureLists :
        ValidateThreeLayerSignatures(list, ToSet(list),
          {registries[<<"via", dest>>], registries[<<"chain", source>>],
           registries[<<"project", dest>>]})
=============================================================================
