------------------------- MODULE FulfilmentContract -------------------------
(***************************************************************************)
(* What the payment service promises about the goods of a payment, without *)
(* rows, locks, webhooks or workers: a payment is unpaid until its money   *)
(* is accepted (then the goods are owed) or refused (then it is void), and *)
(* owed goods are handed out once.  A payment is "excused" from the moment *)
(* a request writes over a row that changed after the request read it:     *)
(* nothing is promised about it any more.                                  *)
(***************************************************************************)
EXTENDS Naturals

CONSTANT Payments

VARIABLES
    phase,       \* where each payment stands
    delivered    \* how often the goods of each payment were handed out

contractVars == <<phase, delivered>>

Phases == {"unpaid", "owed", "fulfilled", "void", "excused"}

ContractInit ==
    /\ phase = [p \in Payments |-> "unpaid"]
    /\ delivered = [p \in Payments |-> 0]

\* Phase changes that hand out nothing.
Advance(p, from, to) ==
    /\ phase[p] = from
    /\ phase' = [phase EXCEPT ![p] = to]
    /\ UNCHANGED delivered

Accept(p) == Advance(p, "unpaid", "owed")

Refuse(p) == Advance(p, "unpaid", "void")

\* The only step of a payment still under the contract that hands out goods.
Deliver(p) ==
    /\ phase[p] = "owed"
    /\ phase' = [phase EXCEPT ![p] = "fulfilled"]
    /\ delivered' = [delivered EXCEPT ![p] = @ + 1]

Excuse(p) ==
    /\ phase[p] # "excused"
    /\ phase' = [phase EXCEPT ![p] = "excused"]
    /\ UNCHANGED delivered

Unbound(p) ==
    /\ phase[p] = "excused"
    /\ UNCHANGED phase
    /\ delivered' = [delivered EXCEPT ![p] = @ + 1]

ContractNext ==
    \E p \in Payments :
        Accept(p) \/ Refuse(p) \/ Deliver(p) \/ Excuse(p) \/ Unbound(p)

ContractSpec == ContractInit /\ [][ContractNext]_contractVars
=============================================================================
