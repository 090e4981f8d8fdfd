--------------------------- MODULE BookingIntents ---------------------------
(***************************************************************************)
(* Booking intents and the checkout that turns them into bookings          *)
(* (apps/bookings).  An intent reserves seats of an event for a while; a   *)
(* checkout makes a payment for it; the booking, its attendees and their   *)
(* tickets are made at checkout or when the payment is fulfilled.          *)
(*                                                                         *)
(*   - checkout, preview and finalisation lock the intent row: one step;   *)
(*   - creating, updating, cancelling and deleting an intent, booking from *)
(*     it directly, and the cleanup tasks read first and write later,      *)
(*     without a lock: a read step and a write step of a worker.           *)
(*                                                                         *)
(* How a payment becomes paid is PaymentFulfilment's subject.              *)
(***************************************************************************)
EXTENDS Integers, FiniteSets, FiniteSetsExt

CONSTANTS
    Intents,      \* intent ids that may be used
    OwnerOf,      \* who makes each intent (made_by)
    Payments,     \* payment ids that may be used
    Workers,      \* web processes and Celery workers
    Capacity,     \* effective_maximum_attendance of the event
    MaxSeats,     \* seats a new intent may ask for (20)
    MaxRequests   \* bound: unlocked requests ever made

ASSUME CapacityAssumption ==
    /\ Capacity \in Nat /\ MaxSeats \in Nat \ {0} /\ MaxRequests \in Nat
    /\ DOMAIN OwnerOf = Intents
ASSUME IntentsAssumption == IsFiniteSet(Intents)

VARIABLES
    intent,      \* the BookingIntent rows
    payment,     \* the Payment rows of checkouts
    attendees,   \* number_of_attendees of the event
    job,         \* the request each worker is in the middle of
    requests,    \* unlocked requests made so far
    bookings,    \* history: bookings that checkouts of each intent made
    tickets,     \* history: times tickets were made for each payment
    raced,       \* history: seats were granted on a count that had changed
    overwritten, \* history: a stale row was saved over each intent
    unreserved   \* history: attendees were added that held no seats any more

vars == <<intent, payment, attendees, job, requests,
          bookings, tickets, raced, overwritten, unreserved>>

history     == <<bookings, tickets, raced, overwritten, unreserved>>
requestVars == <<job, requests>>

Absent == [status |-> "absent", held |-> FALSE, seats |-> 0, booked |-> FALSE]

Rows == [status : {"absent", "pending", "completed", "expired", "cancelled", "deleted"},
         held   : BOOLEAN,           \* expires_at is in the future
         seats  : 0..Capacity,       \* intended_ticket_count
         booked : BOOLEAN]           \* completed_booking is set

\* "open" waits for Stripe, "offline" for a bank transfer; "paid" is COMPLETED
\* and not yet fulfilled.  final is booking_finalized in the metadata.
NoPayment   == [status |-> "none"]
PaymentRows == {NoPayment} \cup
    [status : {"open", "offline", "paid", "fulfilled", "review", "void"},
     of     : Intents,
     seats  : 1..Capacity,      \* attendees in the metadata
     final  : BOOLEAN]

Idle == [op |-> "idle"]
Jobs == {Idle}
        \cup [op : {"create"}, of : Intents, seats : 1..Capacity, taken : Nat]
        \cup [op : {"update"}, of : Intents, seats : 1..Capacity, taken : Nat, snap : Rows]
        \cup [op : {"checkout", "preview"}, of : Intents, seats : 1..Capacity]
        \cup [op : {"cancel", "delete", "book", "retire"}, of : Intents]
        \cup [op : {"expire"}, rows : SUBSET Intents]

Pending(i) == intent[i].status = "pending"
Active(i)  == Pending(i) /\ intent[i].held
Exists(i)  == intent[i].status \notin {"absent", "deleted"}

-----------------------------------------------------------------------------
(* Seats.                                                                   *)

SeatsOf(S) == MapThenSumSet(LAMBDA i : intent[i].seats, S)

Holding == {i \in Intents : Active(i)}

\* number_of_attendees and pending_intent_capacity
Taken == attendees + SeatsOf(Holding)

\* _can_reserve_capacity, the update serializer: the intent itself is left out.
FitsBeside(i, n) == attendees + SeatsOf(Holding \ {i}) + n <= Capacity

\* The last check of can_create_booking, of an intent whose expires_at has
\* just been moved on: available_capacity has counted it already.
RoomForBooking(i) ==
    attendees + SeatsOf(Holding \cup {i}) + intent[i].seats <= Capacity

\* Mutation: an intent may ask for no seats.
AnySeats == 0..MaxSeats

\* validate_intended_ticket_count, of new intents only.
AllowedSeats == 1..MaxSeats

-----------------------------------------------------------------------------
Init ==
    /\ intent = [i \in Intents |-> Absent]
    /\ payment = [p \in Payments |-> NoPayment]
    /\ attendees = 0
    /\ job = [w \in Workers |-> Idle]
    /\ requests = 0
    /\ bookings = [i \in Intents |-> 0]
    /\ tickets = [p \in Payments |-> 0]
    /\ raced = FALSE
    /\ overwritten = [i \in Intents |-> FALSE]
    /\ unreserved = FALSE

SetIntent(i, r)  == intent' = [intent EXCEPT ![i] = r]
SetPayment(p, r) == payment' = [payment EXCEPT ![p] = r]
SetJob(w, j)     == job' = [job EXCEPT ![w] = j]

-----------------------------------------------------------------------------
(* Requests that read, decide and write later without a lock.               *)

Ask(w, j) ==
    /\ job[w] = Idle
    /\ requests < MaxRequests
    /\ requests' = requests + 1
    /\ SetJob(w, j)

Read(w, j) == Ask(w, j) /\ UNCHANGED <<intent, payment, attendees, history>>

Answer(w, op) ==
    /\ job[w].op = op
    /\ SetJob(w, Idle)
    /\ UNCHANGED <<payment, requests, bookings, tickets, unreserved>>

OthersOfOwner(i) == {k \in Holding : OwnerOf[k] = OwnerOf[i]}

\* BookingIntentCreateSerializer: the serializer counts the customer's other
\* intents, which then expire; the model counts again before it inserts.
ReadForCreate(w, i) ==
    /\ intent[i] = Absent
    /\ \A v \in Workers : job[v].op = "create" => job[v].of # i
    /\ \E n \in AllowedSeats :
          /\ FitsBeside(i, n)
          /\ intent' = [k \in Intents |-> IF k \in OthersOfOwner(i)
                                          THEN [intent[k] EXCEPT !.status = "expired"]
                                          ELSE intent[k]]
          /\ Ask(w, [op |-> "create", of |-> i, seats |-> n,
                     taken |-> Taken - SeatsOf(OthersOfOwner(i))])
    /\ UNCHANGED <<payment, attendees, history>>

Insert(w, i) ==
    /\ Answer(w, "create") /\ job[w].of = i
    /\ SetIntent(i, [status |-> "pending", held |-> TRUE, seats |-> job[w].seats, booked |-> FALSE])
    /\ raced' = (raced \/ Taken # job[w].taken)
    /\ UNCHANGED <<attendees, overwritten>>

\* BookingIntentUpdateSerializer: fewer seats need no check.
ReadForUpdate(w, i) ==
    /\ Active(i)
    /\ \E n \in 1..Capacity :
          /\ n > intent[i].seats => FitsBeside(i, n)
          /\ Read(w, [op |-> "update", of |-> i, seats |-> n, taken |-> Taken, snap |-> intent[i]])

\* save() of the instance that was read: every column, and a row that was
\* deleted in the meantime comes back.
SaveUpdate(w, i) ==
    /\ Answer(w, "update") /\ job[w].of = i
    /\ SetIntent(i, [job[w].snap EXCEPT !.seats = job[w].seats])
    /\ raced' = (raced \/ Taken # job[w].taken)
    /\ overwritten' = [overwritten EXCEPT ![i] = @ \/ intent[i] # job[w].snap]
    /\ UNCHANGED attendees

ReadForCancel(w, i) == Active(i) /\ Read(w, [op |-> "cancel", of |-> i])

ReadForDelete(w, i) == Pending(i) /\ Read(w, [op |-> "delete", of |-> i])

\* POST /bookings/?intent=: a booking without attendees.
ReadForBooking(w, i) ==
    Active(i) /\ RoomForBooking(i) /\ Read(w, [op |-> "book", of |-> i])

\* expire_specific_intent
ReadForRetire(w, i) ==
    Pending(i) /\ ~intent[i].held /\ Read(w, [op |-> "retire", of |-> i])

\* save(update_fields=["status"]), which fails when the row is gone.
SaveStatus(i, status) ==
    IF Exists(i) THEN SetIntent(i, [intent[i] EXCEPT !.status = status]) ELSE UNCHANGED intent

WriteStatus(w, i) ==
    /\ \/ Answer(w, "cancel") /\ SaveStatus(i, "cancelled")
       \/ Answer(w, "delete") /\ SaveStatus(i, "deleted")
       \/ Answer(w, "book")   /\ SaveStatus(i, "completed")
       \/ Answer(w, "retire") /\ SaveStatus(i, "deleted")
    /\ job[w].of = i
    /\ UNCHANGED <<attendees, raced, overwritten>>

\* process_expired_booking_intents takes the lapsed ones,
\* cleanup_abandoned_intents those made over an hour ago.
ReadForExpire(w) ==
    \E S \in SUBSET {i \in Intents : Pending(i)} :
        S # {} /\ Read(w, [op |-> "expire", rows |-> S])

\* bulk_update(["status"]) writes whatever the rows have become; the soft
\* delete that follows selects pending rows again and finds none of them.
ExpireRows(w) ==
    /\ Answer(w, "expire")
    /\ intent' = [i \in Intents |-> IF i \in job[w].rows /\ Exists(i)
                                    THEN [intent[i] EXCEPT !.status = "expired"]
                                    ELSE intent[i]]
    /\ UNCHANGED <<attendees, raced, overwritten>>

\* The serializer of checkout,
ReadForCheckout(w, i) ==
    /\ Active(i) /\ RoomForBooking(i)
    /\ Read(w, [op |-> "checkout", of |-> i, seats |-> intent[i].seats])

\* and the lighter one of its preview.
ReadForPreview(w, i) ==
    /\ Active(i)
    /\ Read(w, [op |-> "preview", of |-> i, seats |-> intent[i].seats])

\* A request that is refused, fails or dies.
Abort(w) ==
    /\ job[w] # Idle
    /\ SetJob(w, Idle)
    /\ UNCHANGED <<intent, payment, attendees, requests, history>>

-----------------------------------------------------------------------------
(* Checkout, payment and finalisation.                                      *)

\* _finalize_internal makes the booking and its n attendees, whatever has
\* become of the intent (row i as the transaction has left it so far).
MakeBooking(i, row, n) ==
    /\ SetIntent(i, [row EXCEPT !.booked = TRUE,
                                !.status = IF @ = "pending" THEN "completed" ELSE @])
    /\ attendees' = attendees + n
    /\ bookings' = [bookings EXCEPT ![i] = @ + 1]
    /\ unreserved' = (unreserved \/ ~(row.status = "pending" /\ row.held /\ n <= row.seats))

\* Mutation: tickets are made without looking for those of the payment.
MakeTicketsAgain(p) == tickets' = [tickets EXCEPT ![p] = @ + 1]

\* create_tickets_for_payment, once per payment.
MakeTickets(p) == tickets' = [tickets EXCEPT ![p] = IF @ = 0 THEN 1 ELSE @]

NewPayment(p, i, n, status, final) ==
    /\ payment[p] = NoPayment
    /\ SetPayment(p, [status |-> status, of |-> i, seats |-> n, final |-> final])

\* Mutation: the checks of the serializer are enough.
LockForCheckoutOnly(w, i) ==
    /\ job[w].op \in {"checkout", "preview"} /\ job[w].of = i
    /\ Pending(i)
    /\ SetJob(w, Idle)
    /\ UNCHANGED <<requests, raced, overwritten>>

\* The transaction locks the intent, moves expires_at on and checks again.
LockForCheckout(w, i) ==
    /\ job[w].op \in {"checkout", "preview"} /\ job[w].of = i
    /\ Pending(i) /\ RoomForBooking(i)
    /\ SetJob(w, Idle)
    /\ UNCHANGED <<requests, raced, overwritten>>

Extended(i) == [intent[i] EXCEPT !.held = TRUE]

Preview(w, i) ==
    /\ job[w].op = "preview"
    /\ LockForCheckout(w, i)
    /\ SetIntent(i, Extended(i))
    /\ UNCHANGED <<payment, attendees, bookings, tickets, unreserved>>

\* Nothing is booked until Stripe confirms.
CheckoutStripe(w, i, p) ==
    /\ job[w].op = "checkout"
    /\ LockForCheckout(w, i)
    /\ NewPayment(p, i, job[w].seats, "open", FALSE)
    /\ SetIntent(i, Extended(i))
    /\ UNCHANGED <<attendees, bookings, tickets, unreserved>>

\* The booking is made at once, its tickets when staff verify the transfer.
CheckoutTransfer(w, i, p) ==
    /\ job[w].op = "checkout"
    /\ LockForCheckout(w, i)
    /\ NewPayment(p, i, job[w].seats, "offline", TRUE)
    /\ MakeBooking(i, Extended(i), job[w].seats)
    /\ UNCHANGED tickets

\* Cash, nothing to pay, or Stripe has succeeded already.
CheckoutPaid(w, i, p) ==
    /\ job[w].op = "checkout"
    /\ LockForCheckout(w, i)
    /\ NewPayment(p, i, job[w].seats, "paid", TRUE)
    /\ MakeBooking(i, Extended(i), job[w].seats)
    /\ MakeTickets(p)

\* Stripe confirms, or staff verify the transfer.
Confirm(p) ==
    /\ payment[p].status \in {"open", "offline"}
    /\ SetPayment(p, [payment[p] EXCEPT !.status = "paid"])
    /\ UNCHANGED <<intent, attendees, requestVars, history>>

\* The customer, Stripe or staff give the payment up; its intent is not told.
Abandon(p) ==
    /\ payment[p].status \in {"open", "offline"}
    /\ SetPayment(p, [payment[p] EXCEPT !.status = "void"])
    /\ UNCHANGED <<intent, attendees, requestVars, history>>

\* fulfil_payment of a payment whose booking exists: tickets, if it has none.
FulfilFinal(p) ==
    /\ payment[p].status = "paid" /\ payment[p].final
    /\ SetPayment(p, [payment[p] EXCEPT !.status = "fulfilled"])
    /\ MakeTickets(p)
    /\ UNCHANGED <<intent, attendees, requestVars, bookings, raced, overwritten, unreserved>>

\* Mutation: a booking is made whether or not the intent has one.
FulfilDeferredAgain(p) ==
    /\ payment[p].status = "paid" /\ ~payment[p].final
    /\ LET i == payment[p].of
       IN  Exists(i) /\ MakeBooking(i, intent[i], payment[p].seats)
    /\ SetPayment(p, [payment[p] EXCEPT !.status = "fulfilled", !.final = TRUE])
    /\ MakeTickets(p)
    /\ UNCHANGED <<requestVars, raced, overwritten>>

\* fulfil_payment of a payment that has no booking yet.
FulfilDeferred(p) ==
    /\ payment[p].status = "paid" /\ ~payment[p].final
    /\ LET i == payment[p].of
       IN  Exists(i) /\ ~intent[i].booked /\ MakeBooking(i, intent[i], payment[p].seats)
    /\ SetPayment(p, [payment[p] EXCEPT !.status = "fulfilled", !.final = TRUE])
    /\ MakeTickets(p)
    /\ UNCHANGED <<requestVars, raced, overwritten>>

\* fulfil_payment rolls back and flags the payment: its intent is gone, has
\* another payment's booking (there are no selections to make tickets from),
\* a package or a price has changed, an order cannot be stocked.
FulfilFails(p) ==
    /\ payment[p].status = "paid"
    /\ SetPayment(p, [payment[p] EXCEPT !.status = "review"])
    /\ UNCHANGED <<intent, attendees, requestVars, history>>

\* Staff clear the flag; the sweeper tries again.
ClearReview(p) ==
    /\ payment[p].status = "review"
    /\ SetPayment(p, [payment[p] EXCEPT !.status = "paid"])
    /\ UNCHANGED <<intent, attendees, requestVars, history>>

\* expires_at passes, for the row and for the copies read from it.
Lapse(i) ==
    /\ Active(i)
    /\ SetIntent(i, [intent[i] EXCEPT !.held = FALSE])
    /\ job' = [w \in Workers |-> IF job[w].op = "update" /\ job[w].of = i
                                 THEN [job[w] EXCEPT !.snap.held = FALSE]
                                 ELSE job[w]]
    /\ UNCHANGED <<payment, attendees, requests, history>>

-----------------------------------------------------------------------------
ReadStep(w, i) ==
    \/ ReadForCreate(w, i) \/ ReadForUpdate(w, i) \/ ReadForCancel(w, i)
    \/ ReadForDelete(w, i) \/ ReadForBooking(w, i) \/ ReadForRetire(w, i)
    \/ ReadForCheckout(w, i) \/ ReadForPreview(w, i)

WriteStep(w, i) ==
    \/ Insert(w, i) \/ SaveUpdate(w, i) \/ WriteStatus(w, i) \/ Preview(w, i)

CheckoutStep(w, i, p) ==
    \/ CheckoutStripe(w, i, p) \/ CheckoutTransfer(w, i, p) \/ CheckoutPaid(w, i, p)

PaymentStep(p) ==
    \/ Confirm(p) \/ Abandon(p) \/ FulfilFinal(p) \/ FulfilDeferred(p)
    \/ FulfilFails(p) \/ ClearReview(p)

Next ==
    \/ \E w \in Workers, i \in Intents : ReadStep(w, i) \/ WriteStep(w, i)
    \/ \E w \in Workers, i \in Intents, p \in Payments : CheckoutStep(w, i, p)
    \/ \E w \in Workers : ReadForExpire(w) \/ ExpireRows(w) \/ Abort(w)
    \/ \E p \in Payments : PaymentStep(p)
    \/ \E i \in Intents : Lapse(i)

Spec == Init /\ [][Next]_vars

-----------------------------------------------------------------------------
(* Properties.                                                              *)

\* Every variable keeps its shape.
TypeOK ==
    /\ intent \in [Intents -> Rows]
    /\ payment \in [Payments -> PaymentRows]
    /\ attendees \in Nat
    /\ job \in [Workers -> Jobs]
    /\ requests \in 0..MaxRequests
    /\ bookings \in [Intents -> Nat]
    /\ tickets \in [Payments -> Nat]
    /\ raced \in BOOLEAN
    /\ overwritten \in [Intents -> BOOLEAN]
    /\ unreserved \in BOOLEAN

\* The event never has more attendees and reserved seats than it admits
\* (pending_intent_capacity, events.py 573-592), except through the holes the
\* locks leave: a count that changed before its seats were written, a stale row
\* saved over an intent, a payment fulfilled after its intent gave up the seats.
NeverOverbooked ==
    ~raced /\ ~unreserved /\ (\A i \in Intents : ~overwritten[i]) => Taken <= Capacity

\* The checkouts of an intent make one booking between them, however many
\* payments the customer started and Stripe captured (checkout_finaliser.py
\* 116-129), unless a stale row forgot the booking.
OneBooking == \A i \in Intents : ~overwritten[i] => bookings[i] <= 1

Ticketed(i) == {p \in Payments : payment[p] # NoPayment /\ payment[p].of = i /\ tickets[p] > 0}

\* Attendees get their tickets once: neither the checkout and the fulfilment of
\* a payment nor two payments of one intent make them twice.
TicketedOnce ==
    /\ \A p \in Payments : tickets[p] <= 1
    /\ \A i \in Intents : ~overwritten[i] => Cardinality(Ticketed(i)) <= 1

\* A payment counts as fulfilled only when its attendees have tickets and its
\* intent a booking; otherwise it is still owing or flagged for staff.
FulfilledHasTickets ==
    \A p \in Payments :
        payment[p].status = "fulfilled" =>
            payment[p].final /\ tickets[p] = 1 /\ bookings[payment[p].of] > 0

\* The payments whose checkout or fulfilment made a booking of the intent.
Makers(i) == {p \in Payments : payment[p] # NoPayment /\ payment[p].of = i /\ payment[p].final}

Contract == INSTANCE BookingContract
                WITH made    <- [i \in Intents |-> Makers(i)],
                     served  <- {p \in Payments : payment[p].status = "fulfilled"},
                     excused <- {i \in Intents : overwritten[i]}

\* Seen from outside, checkouts, fulfilments and their retries do what
\* BookingContract.tla promises, whatever is in flight: one payment makes the
\* booking of an intent, only that one is given tickets, and it counts as
\* fulfilled with both (checkout_finaliser.py, ticket_creator.py).
KeepsContract == Contract!ContractSpec
=============================================================================
