------------------------------ MODULE Gateways ------------------------------
(***************************************************************************)
(* The gateway accounts of the Solana program message_gateway_v4 and the   *)
(* instructions that only touch them: initialize_gateway,                  *)
(* set_system_enabled and send_message.                                    *)
(*                                                                         *)
(* A gateway lives at the address derived from ["gateway", chain_id], so   *)
(* the accounts are a function of the chain id; an address that holds no   *)
(* account maps to NoAccount.  An instruction is one atomic transaction:   *)
(* when a check fails the transaction aborts and changes nothing, so a     *)
(* failed call is a stuttering step.                                       *)
(***************************************************************************)
EXTENDS Integers, FiniteSets

CONSTANTS
  Authorities,  \* the keys that sign administrative transactions
  ChainIds,     \* the chain ids in use (u64)
  NoAccount,    \* what an address holds before an account is created there
  SendRequests  \* what users ask send_message to emit:
                \* [txId, dest, recipientSize, dataSize]

ASSUME ChainIdsAssumption == ChainIds \subseteq Nat

GatewayAccount == [authority : Authorities, enabled : BOOLEAN]

ASSUME NoGatewayAssumption == NoAccount \notin GatewayAccount

ASSUME SendRequestsAssumption ==
  SendRequests \subseteq [txId : Nat, dest : ChainIds, recipientSize : Nat, dataSize : Nat]

VARIABLES
  gateways,  \* the account at each gateway address
  sent       \* the SendRequested events emitted so far, each with its gateway's chain

gatewayVars == <<gateways, sent>>

GatewaysTypeOK ==
  /\ gateways \in [ChainIds -> GatewayAccount \cup {NoAccount}]
  /\ sent \subseteq ChainIds \X SendRequests

GatewaysInit ==
  /\ gateways = [c \in ChainIds |-> NoAccount]
  /\ sent = {}

-----------------------------------------------------------------------------
\* Faulty variant, for mutation: init_if_needed in place of init.
InitIfNeeded(accounts, address) == TRUE

\* The Anchor constraint init: the address must not hold an account yet.
IsFree(accounts, address) == accounts[address] = NoAccount

MaxRecipientSize == 64
MaxOnChainDataSize == 1024

\* The Anchor constraint has_one = authority on the gateway account.
Administers(a, c) == gateways[c] # NoAccount /\ gateways[c].authority = a

\* The key is the authority of some gateway: the caller chooses which gateway
\* account it passes, and most administrative instructions accept any.
IsGatewayAuthority(a) == \E c \in ChainIds : Administers(a, c)

IsEnabled(c) == gateways[c] # NoAccount /\ gateways[c].enabled

\* Faulty variant, for mutation: the authority is left at zero, nobody's key.
AuthorityNotSet(c, a) ==
  /\ IsFree(gateways, c)
  /\ gateways' = [gateways EXCEPT ![c] = [authority |-> NoAccount, enabled |-> TRUE]]
  /\ UNCHANGED sent

\* Anybody may create the gateway of a chain, once; the creator becomes its
\* authority, and no instruction ever changes that.
InitializeGateway(c, a) ==
  /\ IsFree(gateways, c)
  /\ gateways' = [gateways EXCEPT ![c] = [authority |-> a, enabled |-> TRUE]]
  /\ UNCHANGED sent

SetSystemEnabled(c, a, enabled) ==
  /\ Administers(a, c)
  /\ gateways' = [gateways EXCEPT ![c].enabled = enabled]
  /\ UNCHANGED sent

\* The request only leaves an event behind: the caller chooses the tx_id, and
\* nothing records which ids were already sent.
SendMessage(c, request) ==
  /\ IsEnabled(c)
  /\ request.recipientSize \in 1 .. MaxRecipientSize
  /\ request.dataSize \in 1 .. MaxOnChainDataSize
  /\ sent' = sent \cup {<<c, request>>}
  /\ UNCHANGED gateways

GatewaysNext ==
  \/ \E c \in ChainIds, a \in Authorities : InitializeGateway(c, a)
  \/ \E c \in ChainIds, a \in Authorities, enabled \in BOOLEAN : SetSystemEnabled(c, a, enabled)
  \/ \E c \in ChainIds, request \in SendRequests : SendMessage(c, request)
=============================================================================
