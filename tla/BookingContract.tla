-------------------------- MODULE BookingContract --------------------------
(***************************************************************************)
(* What the booking service promises about an intent, without seats, rows, *)
(* locks or requests in flight: one payment makes its booking, whoever     *)
(* else paid for it; only that payment is given tickets, once; and what    *)
(* counts as served has both.  An intent is "excused" from the moment a    *)
(* request writes over its row with one read before: it may have forgotten *)
(* its booking and make another, but no payment is given tickets twice.    *)
(***************************************************************************)
EXTENDS Naturals

CONSTANTS Intents, Payments

VARIABLES
    made,        \* the payments that made a booking of each intent
    bookings,    \* how many bookings there are of each intent
    tickets,     \* how often tickets were made for each payment
    served,      \* payments that count as fulfilled
    excused      \* the excused intents

contractVars == <<made, bookings, tickets, served, excused>>

ContractInit ==
    /\ made = [i \in Intents |-> {}]
    /\ bookings = [i \in Intents |-> 0]
    /\ tickets = [p \in Payments |-> 0]
    /\ served = {}
    /\ excused = {}

Makes(i, p) ==
    /\ \A k \in Intents : p \notin made[k]
    /\ made[i] = {} \/ i \in excused
    /\ made' = [made EXCEPT ![i] = @ \cup {p}]
    /\ bookings' = [bookings EXCEPT ![i] = @ + 1]

IsGivenTickets(p) ==
    /\ tickets[p] = 0
    /\ tickets' = [tickets EXCEPT ![p] = 1]

CountsAsServed(p) ==
    /\ p \notin served
    /\ served' = served \cup {p}

\* The booking first, its tickets when the payment is fulfilled.
Book(i, p) == Makes(i, p) /\ UNCHANGED <<tickets, served, excused>>

\* Both at a checkout that is paid.
BookWithTickets(i, p) ==
    Makes(i, p) /\ IsGivenTickets(p) /\ UNCHANGED <<served, excused>>

\* Both when the payment is fulfilled.
BookAndServe(i, p) ==
    Makes(i, p) /\ IsGivenTickets(p) /\ CountsAsServed(p) /\ UNCHANGED excused

\* The booking is there, the tickets may be.
Serve(i, p) ==
    /\ p \in made[i]
    /\ CountsAsServed(p)
    /\ IsGivenTickets(p) \/ (tickets[p] = 1 /\ UNCHANGED tickets)
    /\ UNCHANGED <<made, bookings, excused>>

Excuse(i) ==
    /\ excused' = excused \cup {i}
    /\ UNCHANGED <<made, bookings, tickets, served>>

ContractNext ==
    \/ \E i \in Intents, p \in Payments :
          \/ Book(i, p) \/ BookWithTickets(i, p) \/ BookAndServe(i, p) \/ Serve(i, p)
    \/ \E i \in Intents : Excuse(i)

ContractSpec == ContractInit /\ [][ContractNext]_contractVars

-----------------------------------------------------------------------------
(* What the contract comes to.                                              *)

ContractTypeOK ==
    /\ made \in [Intents -> SUBSET Payments] /\ bookings \in [Intents -> Nat]
    /\ tickets \in [Payments -> Nat]
    /\ served \subseteq Payments /\ excused \subseteq Intents

\* An intent has one booking, made by one payment.
MadeOnce ==
    \A i \in Intents \ excused :
        /\ bookings[i] <= 1
        /\ \A p, q \in made[i] : p = q

\* A payment with tickets made a booking; it is given them once.
TicketsFollow ==
    \A p \in Payments :
        /\ tickets[p] <= 1
        /\ tickets[p] > 0 => \E i \in Intents : p \in made[i]

\* What counts as served has a booking and tickets.
ServedHasBoth ==
    \A p \in served : tickets[p] = 1 /\ \E i \in Intents : p \in made[i]

ContractInv ==
    /\ ContractTypeOK /\ MadeOnce /\ TicketsFollow /\ ServedHasBoth
    /\ \A i \in Intents :
          /\ made[i] # {} => bookings[i] > 0
          /\ bookings[i] > 0 /\ i \notin excused => made[i] # {}
=============================================================================
