--------------------------- MODULE RefundContract ---------------------------
(***************************************************************************)
(* What the refund service promises, without requests, reviews, statuses   *)
(* or calls in flight: a request is paid back once and all of them within  *)
(* the price; tickets and units are taken for what was paid back, and do   *)
(* not come back; each unit is taken once, though the shelf may be too     *)
(* full for it; and a payment is closed as refunded when all of it was     *)
(* returned.  A request whose row was written past the workflow is         *)
(* "excused": it may be paid back again, and take what it was not made     *)
(* for.  A payment by bank is returned by hand: the contract says nothing  *)
(* of its money.                                                           *)
(***************************************************************************)
EXTENDS Naturals, FiniteSets, FiniteSetsExt

CONSTANTS
    Attendees,     \* one ticket each
    Buyer,         \* the attendee whose order was paid as well
    Units,         \* units of that order
    Price,         \* what was paid
    Requests,      \* names of requests
    Selections     \* what a request may select, and its amount

VARIABLES
    byStripe,      \* was the payment made with Stripe?
    returned,      \* the refunds made
    lost,          \* attendees whose ticket was taken
    out,           \* units the buyer has
    shelf,         \* units taken back
    wasted,        \* units taken that found no room on the shelf
    closed,        \* does the payment count as refunded?
    excused,       \* the excused requests
    doubled        \* units were taken of an order that had none left

contractVars == <<byStripe, returned, lost, out, shelf, wasted, closed, excused, doubled>>

ContractInit ==
    /\ byStripe \in BOOLEAN
    /\ returned = {} /\ lost = {} /\ excused = {}
    /\ out = Units /\ shelf = 0 /\ wasted = 0
    /\ closed = FALSE /\ doubled = FALSE

Amounts(R) == MapThenSumSet(LAMBDA x : x.chosen.amount, R)

\* The payment is closed as refunded only when all of it was returned.
Closes == closed' \in BOOLEAN /\ (byStripe /\ closed' => Amounts(returned) >= Price)

Settle ==
    /\ Closes
    /\ UNCHANGED <<byStripe, returned, lost, out, shelf, wasted, excused, doubled>>

PayBack(x) ==
    /\ byStripe
    /\ x \in [req : Requests, key : Nat, chosen : Selections] \ returned
    /\ x.req \in excused \/ \A y \in returned : y.req # x.req
    /\ Amounts(returned \cup {x}) <= Price
    /\ returned' = returned \cup {x}
    /\ UNCHANGED <<byStripe, lost, out, shelf, wasted, closed, excused, doubled>>

\* The units a selection may take: its own, or the whole order of the buyer.
MayTake(c) ==
    CASE c.units > 0                    -> 0 .. c.units
      [] c.units = 0 /\ Buyer \in c.who -> 0 .. Units
      [] OTHER                          -> {0}

\* n units leave the buyer, of which the shelf has room for k.
TakeUnits(n) ==
    /\ n <= out /\ out' = out - n
    /\ \E k \in 0 .. n : shelf' = shelf + k /\ wasted' = wasted + n - k
    /\ doubled' = doubled

\* n units are put back that the buyer has not got, or not after the rest is taken.
TakeTwice(n) ==
    /\ out = 0 \/ excused # {}
    /\ out' = 0 /\ doubled' = TRUE
    /\ \E k \in 0 .. out : shelf' = shelf + k + n /\ wasted' = wasted + out - k

\* Was a selection paid back, or a request that may take anything?
PaidFor(c) == \E x \in returned : x.chosen = c \/ x.req \in excused

Take(c) ==
    /\ byStripe => PaidFor(c)
    /\ lost \subseteq lost' /\ lost' \subseteq lost \cup c.who
    /\ \E n \in MayTake(c) : TakeUnits(n) \/ (out \in MayTake(c) /\ TakeTwice(n))
    /\ Closes
    /\ UNCHANGED <<byStripe, returned, excused>>

Excuse(r) ==
    /\ excused' = excused \cup {r}
    /\ UNCHANGED <<byStripe, returned, lost, out, shelf, wasted, closed, doubled>>

ContractNext ==
    \/ Settle
    \/ \E x \in returned' : PayBack(x)
    \/ \E c \in Selections : Take(c)
    \/ \E r \in Requests : Excuse(r)

ContractSpec == ContractInit /\ [][ContractNext]_contractVars

-----------------------------------------------------------------------------
(* What the contract comes to.                                              *)

ContractTypeOK ==
    /\ byStripe \in BOOLEAN /\ closed \in BOOLEAN /\ doubled \in BOOLEAN
    /\ returned \subseteq [req : Requests, key : Nat, chosen : Selections]
    /\ IsFiniteSet(returned)
    /\ lost \subseteq Attendees /\ excused \subseteq Requests
    /\ out \in 0 .. Units /\ shelf \in Nat /\ wasted \in Nat

\* The money: once for a request, never more than the price, all before it counts.
MoneyBack ==
    /\ \A x, y \in returned : x.req = y.req /\ x.req \notin excused => x = y
    /\ Amounts(returned) <= Price
    /\ byStripe /\ closed => Amounts(returned) >= Price

\* The goods: each unit once, and nothing that was not paid for.
GoodsBack ==
    /\ doubled \/ shelf + wasted + out = Units
    /\ byStripe =>
          /\ \A m \in lost : \E x \in returned : m \in x.chosen.who \/ x.req \in excused
          /\ shelf + wasted > 0 =>
                \E x \in returned : \/ Buyer \in x.chosen.who \/ x.chosen.units > 0
                                    \/ x.req \in excused

ContractInv == ContractTypeOK /\ MoneyBack /\ GoodsBack
=============================================================================
