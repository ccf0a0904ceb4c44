-------------------------- MODULE MCSignatureEvidence --------------------------
(***************************************************************************)
(* Bounds for SignatureEvidence: messages that differ only in where one    *)
(* field ends and the next begins, one with a field that the program finds *)
(* too long, and one whose id is too wide.                                 *)
(***************************************************************************)
EXTENDS SignatureEvidence

CONSTANTS k1, k2

Message(txId, sender, recipient, data) ==
  [txId |-> txId, source |-> 2, dest |-> 1, sender |-> sender, recipient |-> recipient,
   onChainData |-> data, offChainData |-> <<>>]

EvidenceMessages ==
  { Message(258, <<7>>, <<>>, <<0>>), Message(258, <<>>, <<7>>, <<0>>),
    Message(513, <<0, 0, 0>>, <<>>, <<>>),
    Message(65536, <<7>>, <<>>, <<0>>) }

KeySymmetry == Permutations(Keys)

\* What fits is what bytes can hold: Unsigned, stated by shifting, has the numbers
\* below the power of 256.
ASSUME WidthsAreBytes ==
  \A width \in 0 .. 2, n \in {0, 1, 255, 256, 257, 65535, 65536} :
    n \in Unsigned(width) <=> n < 256 ^ width
=============================================================================
