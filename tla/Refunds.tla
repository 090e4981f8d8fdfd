------------------------------ MODULE Refunds ------------------------------
(***************************************************************************)
(* Refund requests for one settled booking payment (apps/payments).  The   *)
(* payment covers one ticket for each attendee and one order line of the   *)
(* Buyer; a ticket and a unit of the line cost 1 each.                     *)
(*                                                                         *)
(* Every endpoint reads the request and its payment without a lock, checks *)
(* the status on that copy and opens a transaction.  The first write of    *)
(* the transaction is the UPDATE of the request's row, which a second one  *)
(* waits for, so what follows sees what the first one committed: a job     *)
(* reads in one step and commits in another.  Verifying talks to Stripe    *)
(* before that UPDATE, which makes the call a step of its own.             *)
(*                                                                         *)
(* RefundRequest.save() writes every column of the copy back, and draws a  *)
(* new tracking_reference, which is the idempotency key at Stripe.         *)
(*                                                                         *)
(* What a request acts on is kept twice: in associations of its own, and   *)
(* in its metadata, which a PATCH may replace.                             *)
(***************************************************************************)
EXTENDS Naturals, FiniteSets, FiniteSetsExt

CONSTANTS
    Attendees,     \* attendees of the booking, one ticket each
    Buyer,         \* the attendee whose order the payment covers
    Units,         \* units on the order line
    Asks,          \* what customers may ask for: attendees, units of the line
    Edits,         \* metadata a PATCH may write: what it names, its snapshot
    Methods,       \* payment methods considered: "stripe", "bank"
    MaxCalls,      \* bound: calls that create, PATCH or DELETE a request, or
                   \* cancel the buyer
    Workers        \* web processes

ASSUME AttendeesAssumption == IsFiniteSet(Attendees)
ASSUME BuyerAssumption == Buyer \in Attendees
ASSUME UnitsAssumption == Units \in Nat \ {0}
ASSUME AsksAssumption ==
    /\ Asks \subseteq [who : SUBSET Attendees, units : 0 .. Units]
    /\ \A a \in Asks : a.who # {} \/ a.units > 0
ASSUME MethodsAssumption == Methods \subseteq {"stripe", "bank"}
ASSUME BoundAssumption == MaxCalls \in Nat

VARIABLES
    method,      \* how the payment was made
    payment,     \* its status
    order,       \* status of the order and units left on its line
    restocked,   \* units put back on the shelf
    refused,     \* units of a refunded order that a full shelf did not take
    cancelled,   \* attendees whose ticket is cancelled
    request,     \* the RefundRequest rows
    returned,    \* the refunds Stripe has made on the charge
    job,         \* what each worker is in the middle of
    calls,       \* calls counted against MaxCalls so far
    rewritten,   \* history: requests whose row PATCH wrote again
    redirected,  \* history: requests whose metadata PATCH replaced
    invalidated, \* history: the order was put on hold with its attendee
    offTrack,    \* history: a request was closed or removed past the workflow, or
                 \* reviewed before its payment was marked
    overlapped   \* history: units were refunded on an order refunded as a whole

refundData    == <<payment, order, restocked, refused, cancelled>>
refundHistory == <<rewritten, redirected, invalidated, offTrack, overlapped>>
refundVars == <<method, refundData, request, returned, job, calls, refundHistory>>

Requests == 1 .. MaxCalls
Base     == Cardinality(Attendees) + Units       \* payment.base_amount

PaymentStatuses == {"COMPLETED", "PENDING_REFUND", "PARTIALLY_REFUNDED", "REFUNDED"}
OrderStatuses   == {"processing", "completed", "pending_refund",
                    "partially_refunded", "refunded"}
Refundable      == {"COMPLETED", "PARTIALLY_REFUNDED"}

\* A request is for attendees (their tickets and orders) or for units of the line.
Selections == [who : SUBSET Attendees, units : 0 .. Units, amount : 1 .. Base]

\* What the metadata names: tickets and units under a targeted scope, or whole
\* attendees.  It also holds the statuses to go back to when it is rejected.
Named     == [who : SUBSET Attendees, units : 0 .. Units]
NamesNone == [who |-> {}, units |-> 0]
Metadata  == [names : Named, wasPayment : PaymentStatuses \cup {"none"},
              wasOrder : OrderStatuses \cup {"none"}]

\* The associations: tickets, the order (for as many units), units of its line.
Links   == [tickets : SUBSET Attendees, order : 0 .. Units, units : 0 .. Units]
NoLinks == [tickets |-> {}, order |-> 0, units |-> 0]

Rows == [status : {"PENDING", "VERIFIED", "PROCESSED", "REJECTED"},
         active : BOOLEAN,
         chosen : Selections,                          \* as asked, and the amount
         meta   : Metadata,
         links  : Links,
         key    : Nat]                                 \* tracking_reference

ASSUME EditsAssumption == Edits \subseteq Metadata

Absent == [status |-> "absent", active |-> FALSE]      \* never created
Gone   == [status |-> "deleted", active |-> FALSE]

Idle == [op |-> "idle"]
Reviews == {"verify", "process", "reject"}
Refunded == [req : Requests, key : Nat, chosen : Selections]   \* at Stripe

Jobs == {Idle}
   \cup [op : {"create"}, via : {"refunds", "attendee"}, chosen : Selections,
         pay : PaymentStatuses]
   \cup [op : {"describe", "attach"}, req : Requests, chosen : Selections,
         pay : PaymentStatuses]
   \cup [op : {"mark"}, req : Requests, pay : PaymentStatuses]
   \cup [op : Reviews \cup {"edit"}, via : {"action", "patch"}, req : Requests,
         row : Rows, pay : PaymentStatuses, paid : BOOLEAN]

-----------------------------------------------------------------------------
RefundInit ==
    /\ method \in Methods
    /\ payment = "COMPLETED"
    /\ order \in [status : {"processing", "completed"}, units : {Units}]
    /\ restocked = 0 /\ refused = 0
    /\ cancelled = {}
    /\ request = [r \in Requests |-> Absent]
    /\ returned = {}
    /\ job = [w \in Workers |-> Idle]
    /\ calls = 0
    /\ rewritten = {} /\ redirected = {}
    /\ invalidated = FALSE /\ offTrack = FALSE /\ overlapped = FALSE

SetJob(w, j) == job' = [job EXCEPT ![w] = j]

\* ALLOWED_STATUS_TRANSITIONS among the statuses of a settled payment.
Allowed(status) == IF status = "REFUNDED" THEN {} ELSE PaymentStatuses

\* Payment.transition_to on the copy a job holds: a copy already there writes
\* nothing, a copy that may not go there raises and rolls everything back.
PaymentMoves(copy, new) ==
    IF copy = new THEN payment' = payment
                  ELSE new \in Allowed(copy) /\ payment' = new

Exists(r) == request[r].status \notin {"absent", "deleted"}
Active    == {r \in Requests : request[r].active}

\* The associations of a request go when it is deleted.
LinksOf(r) == IF Exists(r) THEN request[r].links ELSE NoLinks

\* unique_active_refund_per_payment: the database refuses a second active row.
MaySave(r, row) == row.active => Active \subseteq {r}

\* RefundRequest.save() of a whole row; the key is drawn anew.  A row deleted
\* meanwhile is inserted again, without its associations.
Save(r, row, links) ==
    /\ MaySave(r, row)
    /\ request' = [request EXCEPT ![r] =
                      [row EXCEPT !.key = @ + 1, !.links = links]]

\* Mutation: a refund of all but one counts as full.
IsFullRounded(c) == c.amount + 1 >= Base

IsFull(c) == c.amount = Base

\* Does what was asked for concern the order?
OnOrder(c) == Buyer \in c.who \/ c.units > 0

\* attach_associations: adds what the metadata names and is not there yet.
Attached(l, n) ==
    [tickets |-> l.tickets \cup n.who,
     order   |-> IF l.order = 0 /\ n.units = 0 /\ Buyer \in n.who
                 THEN order.units ELSE l.order,
     units   |-> IF l.units = 0 THEN n.units ELSE l.units]

\* Is the order, or its line, among what is added?
Adds(l, n) == Attached(l, n).order # l.order \/ Attached(l, n).units # l.units

\* associate_with raises when the associations would cost more than was paid.
MayAttach(l, n) ==
    LET new == Attached(l, n)
    IN  new = l \/ Cardinality(new.tickets) + new.order + new.units <= Base

\* Whole attendees are looked up by the metadata a second time.
ByName(n) == IF n.units = 0 THEN n.who ELSE {}

\* Does the order wait for what the associations and the metadata name?
Touches(l, n) == l.order > 0 \/ l.units > 0 \/ Buyer \in ByName(n)

BlockedStatus(status) ==
    IF status \in {"processing", "completed", "partially_refunded"}
    THEN "pending_refund" ELSE status

\* _transition_order_to_pending_refund, for an order that is concerned.
BlockOrder(concerned) ==
    order' = IF concerned THEN [order EXCEPT !.status = BlockedStatus(@)] ELSE order

-----------------------------------------------------------------------------
(* Creating a request.                                                      *)

\* What the tickets and orders of the chosen attendees, or units of the line
\* with or without tickets, cost: calculate_breakdown and its siblings.  What
\* was refunded before counts again, unless the line has fewer units since.
Breakdown(a) ==
    Cardinality(a.who) + (CASE a.units > 0                      -> a.units
                            [] a.units = 0 /\ Buyer \in a.who -> order.units
                            [] OTHER                            -> 0)

\* What the validation lets through: the breakdown, or for whole attendees the
\* amount of the payment, which is compared with nothing.
Offered ==
    LET ask(a, amount) == [who |-> a.who, units |-> a.units, amount |-> amount]
    IN {ask(a, Breakdown(a)) : a \in {x \in Asks : x.units <= order.units}}
         \cup {ask(a, Base) : a \in {x \in Asks : x.units = 0}}

\* RefundRequestCreateSerializer: the payment and its requests as they are now.
CreateRead(w, via, c) ==
    /\ job[w] = Idle
    /\ payment \in Refundable
    /\ Active = {}
    /\ c \in Offered
    /\ calls < MaxCalls /\ calls' = calls + 1
    /\ SetJob(w, [op |-> "create", via |-> via, chosen |-> c, pay |-> payment])
    /\ UNCHANGED <<method, refundData, request, returned, refundHistory>>

Names(c) == [who |-> c.who, units |-> c.units]

\* The metadata of a new request, with the rollback snapshot: the payment as it
\* was read, the order if it is associated now.
Described(l, c, pay) ==
    [names |-> Names(c), wasPayment |-> pay,
     wasOrder |-> IF Adds(l, Names(c)) THEN order.status ELSE "none"]

NewRow(c) ==
    [status |-> "PENDING", active |-> TRUE, chosen |-> c,
     meta |-> [names |-> NamesNone, wasPayment |-> "none", wasOrder |-> "none"],
     links |-> NoLinks, key |-> 0]

\* Whose turn it is: the first row never used.
NextRow(r) == request[r] = Absent /\ \A q \in Requests : q < r => request[q] # Absent

\* The refunds endpoint saves row, metadata and associations and marks the
\* payment in one transaction.
CreateCommit(w, r) ==
    LET j == job[w]
        c == j.chosen
    IN  /\ j.op = "create" /\ j.via = "refunds"
        /\ NextRow(r) /\ Active = {}
        /\ MayAttach(NoLinks, Names(c))
        /\ request' = [request EXCEPT ![r] =
               [NewRow(c) EXCEPT !.meta  = Described(NoLinks, c, j.pay),
                                 !.links = Attached(NoLinks, Names(c))]]
        /\ BlockOrder(Adds(NoLinks, Names(c)))
        /\ PaymentMoves(j.pay, "PENDING_REFUND")
        /\ SetJob(w, Idle)
        /\ UNCHANGED <<method, restocked, refused, cancelled, returned, calls,
                       refundHistory>>

\* The attendee endpoint has no transaction of its own: the row is there first,
InsertRow(w, r) ==
    LET j == job[w]
    IN  /\ j.op = "create" /\ j.via = "attendee"
        /\ NextRow(r) /\ Active = {}
        /\ request' = [request EXCEPT ![r] = NewRow(j.chosen)]
        /\ SetJob(w, [op |-> "describe", req |-> r, chosen |-> j.chosen, pay |-> j.pay])
        /\ UNCHANGED <<method, refundData, returned, calls, refundHistory>>

\* then its metadata,
Describe(w) ==
    LET j == job[w]
    IN  /\ j.op = "describe" /\ Exists(j.req)
        /\ request' = [request EXCEPT ![j.req].meta =
               [names |-> Names(j.chosen), wasPayment |-> "none", wasOrder |-> "none"]]
        /\ SetJob(w, [j EXCEPT !.op = "attach"])
        /\ UNCHANGED <<method, refundData, returned, calls, refundHistory>>

\* then the associations, which put the order on hold.
Attach(w) ==
    LET j == job[w]
        l == LinksOf(j.req)
        c == j.chosen
    IN  /\ j.op = "attach" /\ Exists(j.req)
        /\ MayAttach(l, Names(c))
        /\ request' = [request EXCEPT ![j.req].meta  = Described(l, c, j.pay),
                                      ![j.req].links = Attached(l, Names(c))]
        /\ BlockOrder(Adds(l, Names(c)))
        /\ SetJob(w, IF j.pay = "COMPLETED"
                     THEN [op |-> "mark", req |-> j.req, pay |-> j.pay] ELSE Idle)
        /\ UNCHANGED <<method, payment, restocked, refused, cancelled, returned, calls,
                       refundHistory>>

\* The attendee endpoint marks the payment, on the copy it read at the start.
MarkPayment(w) ==
    /\ job[w].op = "mark"
    /\ PaymentMoves(job[w].pay, "PENDING_REFUND")
    /\ SetJob(w, Idle)
    /\ UNCHANGED <<method, order, restocked, refused, cancelled, request, returned,
                   calls, refundHistory>>

-----------------------------------------------------------------------------
(* Reviewing a request, with the workflow's actions or with PATCH.          *)

\* The status each review wants to find on its copy.
Wants(op) == IF op = "process" THEN "VERIFIED" ELSE "PENDING"

ReviewRead(w, op, r) ==
    /\ job[w] = Idle
    /\ request[r].status = Wants(op)
    /\ SetJob(w, [op |-> op, via |-> "action", req |-> r, row |-> request[r],
                  pay |-> payment, paid |-> FALSE])
    /\ offTrack' = (offTrack \/ (op # "process" /\ payment # "PENDING_REFUND"))
    /\ UNCHANGED <<method, refundData, request, returned, calls, rewritten, redirected,
                   invalidated, overlapped>>

\* RefundRequestUpdateSerializer: a new verification_status calls the same
\* mark_... method, anything else ("edit") writes the metadata that was sent.
PatchRead(w, op, r) ==
    /\ job[w] = Idle
    /\ calls < MaxCalls /\ calls' = calls + 1
    /\ Exists(r)
    /\ op = "edit" \/ request[r].status = Wants(op)
    /\ SetJob(w, [op |-> op, via |-> "patch", req |-> r, row |-> request[r],
                  pay |-> payment, paid |-> FALSE])
    /\ UNCHANGED <<method, refundData, request, returned, refundHistory>>

\* What Stripe has paid back on the charge.
AtStripe == MapThenSumSet(LAMBDA x : x.chosen.amount, returned)

\* Mutation: the key differs from one call to the next.
KeyPerCall(j) == j.row.key + Cardinality(returned)

\* refund_service.create passes the tracking_reference of the copy.
IdempotencyKey(j) == j.row.key

\* mark_verified asks Stripe for the refund.  Stripe answers a key it knows
\* with the refund it made and refuses more than is left of the charge.
AskStripe(w) ==
    LET j   == job[w]
        new == [req |-> j.req, key |-> IdempotencyKey(j), chosen |-> j.row.chosen]
    IN
    /\ method = "stripe" /\ j.op = "verify" /\ ~j.paid
    /\ new \in returned \/ AtStripe + j.row.chosen.amount <= Base
    /\ returned' = returned \cup {new}
    /\ SetJob(w, [j EXCEPT !.paid = TRUE])
    /\ UNCHANGED <<method, refundData, request, calls, refundHistory>>

Reviewing(w, op, via) == job[w].op = op /\ job[w].via = via

\* Mutation: the refusal of Stripe is logged and the request verified.
ReadyUnpaid(w) == TRUE

\* mark_verified returns to the endpoint: Stripe is done, or not involved.
Ready(w) == method = "stripe" => job[w].paid

Verified(j) == [j.row EXCEPT !.status = "VERIFIED"]

\* apply_verify_block attaches what the metadata names now and puts the orders
\* on hold; then the payment: a request for part of it already counts as
\* partially refunded.
Verify(w) ==
    LET j     == job[w]
        names == j.row.meta.names
        links == LinksOf(j.req)
    IN
    /\ Reviewing(w, "verify", "action")
    /\ Ready(w)
    /\ MayAttach(links, names)
    /\ Save(j.req, Verified(j), Attached(links, names))
    /\ BlockOrder(Touches(Attached(links, names), names))
    /\ PaymentMoves(j.pay, IF IsFull(j.row.chosen) THEN "PENDING_REFUND"
                                                   ELSE "PARTIALLY_REFUNDED")
    /\ SetJob(w, Idle)
    /\ UNCHANGED <<method, restocked, refused, cancelled, returned, calls, refundHistory>>

Processed(j) == [j.row EXCEPT !.status = "PROCESSED", !.active = FALSE]

\* The order, the shelf, and whether units were put back twice.
Goods == [line |-> order, shelf |-> restocked, refused |-> refused, twice |-> overlapped]

\* Mutation: the last unit refunded puts the whole line back as well.
BackUnitsAndOrder(g, q) ==
    LET back == IF q < g.line.units THEN q ELSE g.line.units
        left == g.line.units - back
    IN  [g EXCEPT !.shelf = @ + back + (IF left = 0 THEN Units ELSE 0),
                  !.twice = @ \/ g.line.status = "refunded",
                  !.line  = [units |-> left,
                             status |-> IF left = 0 \/ g.line.status = "refunded"
                                        THEN "refunded" ELSE "partially_refunded"]]

\* Units of the line put back; if the shelf is full, this raises and all of the
\* review is rolled back (GiveUp).
BackUnits(g, q) ==
    LET back == IF q < g.line.units THEN q ELSE g.line.units
        left == g.line.units - back
    IN  [g EXCEPT !.shelf = @ + back,
                  !.twice = @ \/ g.line.status = "refunded",
                  !.line  = [units |-> left,
                             status |-> IF left = 0 \/ g.line.status = "refunded"
                                        THEN "refunded" ELSE "partially_refunded"]]

\* The order refunded as a whole.  Order.transition_to logs it when the shelf
\* has no room for the units, and closes the order all the same.
BackOrder(g, room) ==
    IF g.line.status = "refunded" THEN g
    ELSE [g EXCEPT !.line.status = "refunded",
                   !.shelf   = IF room THEN @ + g.line.units ELSE @,
                   !.refused = IF room THEN @ ELSE @ + g.line.units]

\* An order that is only named counts as refunded in part.
BackPart(g) ==
    IF g.line.status = "refunded" THEN g
    ELSE [g EXCEPT !.line.status = "partially_refunded"]

\* What the associations do, one after the other, then what the names do.
FinalizeUnits(l, g)       == IF l.units > 0 THEN BackUnits(g, l.units) ELSE g
FinalizeOrder(l, room, g) == IF l.order > 0 THEN BackOrder(g, room) ELSE g
FinalizeNamed(n, g)       == IF Buyer \in ByName(n) THEN BackPart(g) ELSE g

Finalized(l, n, room, orderFirst) ==
    FinalizeNamed(n, IF orderFirst
                     THEN FinalizeUnits(l, FinalizeOrder(l, room, Goods))
                     ELSE FinalizeOrder(l, room, FinalizeUnits(l, Goods)))

\* apply_process_finalize: the associations come in no particular order, and
\* sales and deliveries decide whether the shelf has room.
Finalize(l, n) ==
    /\ cancelled' = cancelled \cup l.tickets \cup ByName(n)
    /\ \E room, orderFirst \in BOOLEAN :
          LET g == Finalized(l, n, room, orderFirst)
          IN  /\ order' = g.line /\ restocked' = g.shelf
              /\ refused' = g.refused /\ overlapped' = g.twice

\* determine_payment_status_after_process sums the processed requests.
ProcessedTotal(rows) ==
    MapThenSumSet(LAMBDA r : rows[r].chosen.amount,
                  {r \in Requests : rows[r].status = "PROCESSED"})

Process(w) ==
    LET j == job[w] IN
    /\ Reviewing(w, "process", "action")
    /\ Save(j.req, Processed(j), LinksOf(j.req))
    /\ Finalize(LinksOf(j.req), j.row.meta.names)
    /\ PaymentMoves(j.pay,
           IF IsFull(j.row.chosen) \/ ProcessedTotal(request') >= Base
           THEN "REFUNDED" ELSE "PARTIALLY_REFUNDED")
    /\ SetJob(w, Idle)
    /\ UNCHANGED <<method, returned, calls, rewritten, redirected, invalidated, offTrack>>

Rejected(j) == [j.row EXCEPT !.status = "REJECTED", !.active = FALSE]

\* The order a rollback looks at: in the snapshot or associated.
Concerned(j) ==
    \/ j.row.meta.wasOrder # "none"
    \/ LinksOf(j.req).order > 0 \/ LinksOf(j.req).units > 0

\* Mutation: the rollback forgets the order.
RestoreNothing(j) == order' = order

\* Mutation: the snapshot is restored whether or not there is one.
RestoreSnapshot(j) == order' = [order EXCEPT !.status = j.row.meta.wasOrder]

\* apply_reject_rollback: an order still waiting for the refund goes back to
\* completed or partially refunded, whatever else it was before.
RestoreOrder(j) ==
    order' = IF Concerned(j) /\ order.status = "pending_refund"
             THEN [order EXCEPT !.status =
                      IF j.row.meta.wasOrder = "partially_refunded"
                      THEN "partially_refunded" ELSE "completed"]
             ELSE order

\* The payment as the snapshot has it; without one, as other requests left it.
Restored(j) ==
    LET others == {q \in Requests \ {j.req} : request[q].status = "PROCESSED"}
    IN  CASE j.row.meta.wasPayment # "none" -> j.row.meta.wasPayment
          [] j.row.meta.wasPayment = "none" /\ others # {} -> "PARTIALLY_REFUNDED"
          [] OTHER -> "COMPLETED"

\* A snapshot of another status is refused.
Reject(w) ==
    LET j == job[w] IN
    /\ Reviewing(w, "reject", "action")
    /\ Save(j.req, Rejected(j), LinksOf(j.req))
    /\ Restored(j) \in Refundable
    /\ RestoreOrder(j)
    /\ PaymentMoves(j.pay, Restored(j))
    /\ SetJob(w, Idle)
    /\ UNCHANGED <<method, restocked, refused, cancelled, returned, calls, refundHistory>>

\* What a PATCH may make of the copy.
Patched(j) ==
    CASE j.op = "verify"  -> {Verified(j)}
      [] j.op = "process" -> {Processed(j)}
      [] j.op = "reject"  -> {Rejected(j)}
      [] OTHER            -> {j.row} \cup {[j.row EXCEPT !.meta = m] : m \in Edits}

\* PATCH saves the row and leaves order, tickets and payment as they are.
Patch(w) ==
    LET j == job[w] IN
    /\ j.op \in Reviews \cup {"edit"} /\ j.via = "patch"
    /\ j.op = "verify" => Ready(w)
    /\ \E row \in Patched(j) :
          /\ Save(j.req, row, LinksOf(j.req))
          /\ redirected' = IF row.meta = j.row.meta THEN redirected
                                                   ELSE redirected \cup {j.req}
    /\ rewritten' = rewritten \cup {j.req}
    /\ offTrack' = (offTrack \/ j.op # "edit" \/ (request[j.req].active /\ ~j.row.active))
    /\ SetJob(w, Idle)
    /\ UNCHANGED <<method, refundData, returned, calls, invalidated, overlapped>>

\* DELETE takes any request, with its associations, and puts nothing back.
Delete(r) ==
    /\ Exists(r)
    /\ calls < MaxCalls /\ calls' = calls + 1
    /\ request' = [request EXCEPT ![r] = Gone]
    /\ offTrack' = TRUE
    /\ UNCHANGED <<method, refundData, returned, job, rewritten, redirected,
                   invalidated, overlapped>>

\* The request is answered with an error, or the worker dies: the transaction
\* rolls back, a refund already made at Stripe stays.
GiveUp(w) ==
    /\ job[w] # Idle
    /\ SetJob(w, Idle)
    /\ UNCHANGED <<method, refundData, request, returned, calls, refundHistory>>

\* charge.refunded under the payment's lock: counts what Stripe has returned
\* and touches neither requests nor orders.
ChargeRefunded ==
    /\ method = "stripe"
    /\ AtStripe >= Base
    /\ payment # "REFUNDED"
    /\ payment' = "REFUNDED"
    /\ UNCHANGED <<method, order, restocked, refused, cancelled, request, returned, job,
                   calls, refundHistory>>

\* Cancelling the buyer with invalidate puts the order on hold, once and
\* without a request (Attendee.invalidate).
Invalidate ==
    /\ calls < MaxCalls /\ calls' = calls + 1
    /\ ~invalidated /\ invalidated' = TRUE
    /\ BlockOrder(order.status \in {"processing", "completed"})
    /\ UNCHANGED <<method, payment, restocked, refused, cancelled, request, returned, job,
                   rewritten, redirected, offTrack, overlapped>>

-----------------------------------------------------------------------------
Creates(w) ==
    \/ \E via \in {"refunds", "attendee"}, c \in Offered : CreateRead(w, via, c)
    \/ \E r \in Requests : CreateCommit(w, r) \/ InsertRow(w, r)
    \/ Describe(w) \/ Attach(w) \/ MarkPayment(w)

Reads(w, r) ==
    \/ \E op \in Reviews : ReviewRead(w, op, r)
    \/ \E op \in Reviews \cup {"edit"} : PatchRead(w, op, r)

Commits(w) == AskStripe(w) \/ Verify(w) \/ Process(w) \/ Reject(w) \/ Patch(w)

RefundNext ==
    \/ \E w \in Workers :
           Creates(w) \/ (\E r \in Requests : Reads(w, r)) \/ Commits(w) \/ GiveUp(w)
    \/ \E r \in Requests : Delete(r)
    \/ ChargeRefunded
    \/ Invalidate

RefundSpec == RefundInit /\ [][RefundNext]_refundVars

-----------------------------------------------------------------------------
(* Properties.                                                              *)

\* Type invariant.
RefundTypeOK ==
    /\ method \in Methods
    /\ payment \in PaymentStatuses
    /\ order \in [status : OrderStatuses, units : 0 .. Units]
    /\ restocked \in Nat /\ refused \in Nat
    /\ cancelled \subseteq Attendees
    /\ request \in [Requests -> Rows \cup {Absent, Gone}]
    /\ returned \subseteq Refunded
    /\ job \in [Workers -> Jobs]
    /\ calls \in 0 .. MaxCalls
    /\ rewritten \subseteq Requests /\ redirected \subseteq Requests
    /\ invalidated \in BOOLEAN /\ offTrack \in BOOLEAN /\ overlapped \in BOOLEAN

\* Stripe pays a request back at most once, however many verifications run at
\* the same time, die after the call or are repeated: the tracking_reference
\* (payments/models/refunds.py:237) stays what it was until the request is
\* verified.  A PATCH in between draws a new one.
PaidBackOnce ==
    \A x, y \in returned : x.req = y.req /\ x.req \notin rewritten => x = y

\* A payment or an order waiting for the outcome of a refund has a request
\* that somebody can still decide (validate_payment at serializers.py:1318
\* refuses a new one for it), whatever PATCH wrote into its metadata, unless the
\* request was closed past the workflow: with PATCH, with DELETE, or by a review
\* that began while the attendee endpoint had not marked the payment yet; an
\* order also waits when it was put on hold with its attendee.
PendingIsDecidable ==
    \/ Active # {} \/ offTrack
    \/ payment # "PENDING_REFUND" /\ (order.status = "pending_refund" => invalidated)

\* Each unit is on the order line, back on the shelf or, with its order refunded
\* as a whole, refused by a full shelf (orders.py:394), never in two of these and
\* never in none, through full, partial, repeated and concurrent refunds: except
\* after a refund of single units met an order refunded as a whole, which
\* puts them back a second time (attendee_refunds.py:1042).
UnitsBalance ==
    overlapped
    \/ restocked + refused + (IF order.status = "refunded" THEN 0 ELSE order.units) = Units

\* A payment shown as refunded has really been paid back in full by Stripe,
\* whether a full request, the sum of partial ones or the webhook says so.
RefundedIsReturned ==
    method = "stripe" /\ payment = "REFUNDED" => AtStripe >= Base

\* Nobody loses a ticket, and no unit is taken back, but for a request whose
\* money Stripe has returned and that was made for them; only a request whose
\* metadata PATCH replaced (serializers.py:1640) may take what it was not made
\* for, and it too was paid back.
TakenIsReturned ==
    method = "stripe" =>
        /\ \A a \in cancelled :
              \E x \in returned : a \in x.chosen.who \/ x.req \in redirected
        /\ restocked + refused > 0 =>
              \E x \in returned : OnOrder(x.chosen) \/ x.req \in redirected

Contract == INSTANCE RefundContract
                WITH Price    <- Base,
                     byStripe <- method = "stripe",
                     lost     <- cancelled,
                     out      <- IF order.status = "refunded" THEN 0 ELSE order.units,
                     shelf    <- restocked,
                     wasted   <- refused,
                     closed   <- payment = "REFUNDED",
                     excused  <- rewritten,
                     doubled  <- overlapped

\* Seen from outside, whatever requests, reviews, PATCHes and retries are in
\* flight, refunds do what RefundContract.tla promises: Stripe pays a request
\* back once and in all no more than was paid, tickets and units are taken for
\* what was paid back or for a request that PATCH wrote again, and each unit is
\* taken once (attendee_refunds.py, refund_service.py).
KeepsContract == Contract!ContractSpec

\* The comment at payments/models/refunds.py:134, "Check if total refunds would
\* exceed payment amount": what was processed stays within the payment.
RefundedWithinPayment == ProcessedTotal(request) <= Base
=============================================================================
