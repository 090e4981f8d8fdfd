--------------------------- MODULE OrderContract ---------------------------
(***************************************************************************)
(* What the order service promises about the stock of an order, without    *)
(* holds, payments, row locks or requests in flight.  An order is a cart   *)
(* whose units move with the stock, then it is held with its units fixed,  *)
(* and in the end it is closed, once, and the units it took are put back   *)
(* or written off.  Closing may take two steps: the books are moved, then  *)
(* the order is closed if they balance.  An order is "excused" from the    *)
(* moment a request writes over what changed after the request read it, or *)
(* dies between the two steps: nothing is promised about it any more.      *)
(***************************************************************************)
EXTENDS Integers

CONSTANTS
    Orders,
    MaxQuantity    \* units an order may have

VARIABLES
    phase,      \* where each order stands
    units,      \* units it has a claim to
    taken,      \* units taken from stock for it, less those put back
    lost,       \* units written off
    charged     \* units its customer was charged for

contractVars == <<phase, units, taken, lost, charged>>

Phases == {"none", "cart", "held", "closing", "closed", "gone", "excused"}

ContractInit ==
    /\ phase = [o \in Orders |-> "none"]
    /\ units = [o \in Orders |-> 0]
    /\ taken = [o \in Orders |-> 0]
    /\ lost = [o \in Orders |-> 0]
    /\ charged = [o \in Orders |-> 0]

Moves(o, from, to) ==
    /\ phase[o] \in from
    /\ phase' = [phase EXCEPT ![o] = to]

Claims(o, n) == units' = [units EXCEPT ![o] = n]

\* The units of the order are put back into stock or written off.
Returned(o) ==
    \/ /\ taken' = [taken EXCEPT ![o] = @ - units[o]]
       /\ UNCHANGED lost
    \/ /\ lost' = [lost EXCEPT ![o] = @ + units[o]]
       /\ UNCHANGED taken

Open(o) ==
    /\ Moves(o, {"none"}, "cart")
    /\ UNCHANGED <<units, taken, lost, charged>>

\* Units move between stock and cart.
Fill(o) ==
    /\ phase[o] = "cart"
    /\ \E n \in 0..MaxQuantity :
          /\ Claims(o, n)
          /\ taken' = [taken EXCEPT ![o] = @ + n - units[o]]
    /\ UNCHANGED <<phase, lost, charged>>

\* The last unit leaves the cart, and the cart with it.
Empty(o) ==
    /\ Moves(o, {"cart"}, "gone")
    /\ Claims(o, 0)
    /\ taken' = [taken EXCEPT ![o] = @ - units[o]]
    /\ UNCHANGED <<lost, charged>>

Submit(o) ==
    /\ Moves(o, {"cart"}, "held")
    /\ UNCHANGED <<units, taken, lost, charged>>

Bill(o) ==
    /\ Moves(o, {"cart"}, "held")
    /\ charged' = [charged EXCEPT ![o] = units[o]]
    /\ UNCHANGED <<units, taken, lost>>

\* An order that comes with a booking is held, and charged for, from the start.
Reserve(o) ==
    /\ Moves(o, {"none"}, "held")
    /\ \E n \in 1..MaxQuantity :
          /\ Claims(o, n)
          /\ taken' = [taken EXCEPT ![o] = @ + n]
          /\ charged' = [charged EXCEPT ![o] = n]
    /\ UNCHANGED lost

Close(o) ==
    /\ Moves(o, {"cart", "held"}, "closed")
    /\ Returned(o)
    /\ Claims(o, 0)
    /\ UNCHANGED charged

\* Closing in two steps.
BeginClosing(o) ==
    /\ Moves(o, {"cart", "held"}, "closing")
    /\ Returned(o)
    /\ UNCHANGED <<units, charged>>

FinishClosing(o) ==
    /\ Moves(o, {"closing"}, "closed")
    /\ taken[o] = lost[o]
    /\ Claims(o, 0)
    /\ UNCHANGED <<taken, lost, charged>>

\* A deleted order writes off what it still holds.
Discard(o) ==
    /\ Moves(o, {"cart", "held", "closed"}, "gone")
    /\ Claims(o, 0)
    /\ lost' = [lost EXCEPT ![o] = @ + units[o]]
    /\ UNCHANGED <<taken, charged>>

\* The books of this order may change in any way, those of the others do not.
AnyBooks(o) ==
    /\ units' \in [Orders -> 0..MaxQuantity] /\ taken' \in [Orders -> Int]
    /\ lost' \in [Orders -> Nat] /\ charged' \in [Orders -> 0..MaxQuantity]
    /\ \A k \in Orders \ {o} :
          /\ units'[k] = units[k] /\ taken'[k] = taken[k]
          /\ lost'[k] = lost[k] /\ charged'[k] = charged[k]

\* Whatever else happens between the two steps of closing.
Intrude(o) ==
    /\ phase[o] = "closing"
    /\ lost'[o] >= lost[o]
    /\ AnyBooks(o)
    /\ UNCHANGED phase

Excuse(o) ==
    /\ phase' = [phase EXCEPT ![o] = "excused"]
    /\ AnyBooks(o)

ContractNext ==
    \E o \in Orders :
        \/ Open(o) \/ Fill(o) \/ Empty(o) \/ Submit(o) \/ Bill(o) \/ Reserve(o)
        \/ Close(o) \/ BeginClosing(o) \/ FinishClosing(o) \/ Discard(o)
        \/ Intrude(o) \/ Excuse(o)

ContractSpec == ContractInit /\ [][ContractNext]_contractVars

-----------------------------------------------------------------------------
(* What the contract comes to.                                              *)

ContractTypeOK ==
    /\ phase \in [Orders -> Phases]
    /\ units \in [Orders -> 0..MaxQuantity] /\ taken \in [Orders -> Int]
    /\ lost \in [Orders -> Nat] /\ charged \in [Orders -> 0..MaxQuantity]

\* The stock an order took is in its claim or written off.
Balanced ==
    \A o \in Orders :
        phase[o] \notin {"closing", "excused"} => taken[o] = units[o] + lost[o]

\* A charged order keeps what was charged for until it is closed.
ChargedIsHeld ==
    \A o \in Orders :
        phase[o] = "held" /\ charged[o] # 0 => units[o] = charged[o]

\* An order without a claim: not opened yet, closed or gone.
Empties ==
    \A o \in Orders : phase[o] \in {"none", "closed", "gone"} => units[o] = 0

ContractInv ==
    /\ ContractTypeOK /\ Balanced /\ ChargedIsHeld /\ Empties
    /\ \A o \in Orders : phase[o] \in {"none", "cart"} => charged[o] = 0
=============================================================================
