-------------------------- MODULE AtMostOnceDelivery --------------------------
(***************************************************************************)
(* What the two-transaction pattern promises, without accounts, counters   *)
(* or signatures: the ids of a source chain are admitted in increasing     *)
(* order, and an admitted id is delivered at most once.                    *)
(***************************************************************************)
EXTENDS Integers

CONSTANT Ids  \* pairs <<source chain, tx_id>>

VARIABLES
  pending,   \* admitted and not yet delivered
  delivered  \* delivered; nothing leaves this set

Init == pending = {} /\ delivered = {}

Admit(id) ==
  /\ \A other \in pending \cup delivered : other[1] = id[1] => other[2] < id[2]
  /\ pending' = pending \cup {id}
  /\ UNCHANGED delivered

Deliver(id) ==
  /\ id \in pending
  /\ pending' = pending \ {id}
  /\ delivered' = delivered \cup {id}

Next == \E id \in Ids : Admit(id) \/ Deliver(id)

Spec == Init /\ [][Next]_<<pending, delivered>>
=============================================================================
