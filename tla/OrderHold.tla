----------------------------- MODULE OrderHold -----------------------------
(***************************************************************************)
(* Orders for products, the stock they reserve and the hold that limits    *)
(* how long an unpaid order may keep it (apps/products, with the payment   *)
(* handlers that move orders).  One product variant stands for all: its    *)
(* stock is what orders compete for.                                       *)
(*                                                                         *)
(*   - expiry, checkout, extension, fulfilment and the cancellation of a   *)
(*     payment lock the order row: one step each;                          *)
(*   - submit, cancel, complete and staff edits work on an instance read   *)
(*     without a lock and save all its columns, after putting the stock    *)
(*     back in a statement of its own;                                     *)
(*   - a successful payment moves on an instance of its target that was    *)
(*     read without a lock, and staff decide about a payment read so;      *)
(*   - item requests check that the order is a draft on an unlocked read   *)
(*     and do not check again when they write.                             *)
(***************************************************************************)
EXTENDS Integers

CONSTANTS
    Orders,           \* order ids that may be used
    Workers,          \* web processes serving unlocked requests
    InitialStock,     \* stock of the variant at the start
    StockCap,         \* max_stock_quantity
    MaxQuantity,      \* units one attendee may have in an order
    HoldTime,         \* ORDER_HOLD_MINUTES, in ticks
    ExtensionTime,    \* ORDER_HOLD_EXTENSION_MINUTES
    MaxExtensions,    \* ORDER_HOLD_MAX_EXTENSIONS
    MaxHoldTime,      \* ORDER_HOLD_MAX_MINUTES
    CheckoutTime,     \* ORDER_CHECKOUT_HOLD_MINUTES
    RetryTime,        \* five minutes, when an expiry is put off
    ApprovalRequired, \* event_settings.orders_require_approval
    MaxRequests       \* bound: unlocked requests ever made

ASSUME StockAssumption ==
    /\ InitialStock \in Nat /\ StockCap \in Nat /\ InitialStock <= StockCap
    /\ MaxQuantity \in Nat \ {0}
ASSUME TimeAssumption ==
    /\ HoldTime \in Nat \ {0} /\ ExtensionTime \in Nat \ {0}
    /\ CheckoutTime \in Nat \ {0} /\ RetryTime \in Nat \ {0}
    /\ MaxExtensions \in Nat /\ MaxHoldTime \in Nat
ASSUME SettingsAssumption == ApprovalRequired \in BOOLEAN /\ MaxRequests \in Nat

VARIABLES
    order,      \* the Order rows
    qty,        \* units in the items of each order
    stock,      \* stock_quantity of the variant
    payment,    \* the payment made at checkout of each order
    target,     \* the order as the handler of the success event has read it
    job,        \* the unlocked request each worker is serving
    requests,   \* unlocked requests made so far
    ledger,     \* history: units taken from stock for an order, less those put back
    lost,       \* history: units neither in an item nor put back
    billed,     \* history: units the checkout charged for
    disturbed   \* history: an unlocked request met an order that had changed
                \* since it checked, or died between its two writes

vars == <<order, qty, stock, payment, target, job, requests, ledger, lost, billed,
          disturbed>>

stockVars   == <<qty, stock, ledger, lost>>
requestVars == <<job, requests>>

Open   == {"draft", "pending"}
Closed == {"cancelled", "refunded"}
Rest   == {"processing", "completed", "pending_refund", "partially_refunded"}
Live   == Open \cup Rest
Statuses == Live \cup Closed

\* ORDER_STATUS_TRANSITIONS
Allowed(status) ==
    CASE status = "draft"              -> {"pending", "cancelled"}
      [] status = "pending"            -> {"processing", "cancelled", "pending_refund"}
      [] status = "processing"         -> {"completed", "pending_refund", "refunded", "cancelled"}
      [] status = "completed"          -> {"pending_refund", "refunded", "cancelled"}
      [] status = "pending_refund"     -> {"partially_refunded", "refunded", "completed", "cancelled"}
      [] status = "partially_refunded" -> {"pending_refund", "refunded"}
      [] OTHER                         -> {}

\* Ticks until expires_at.
NoHold  == -1
MaxLeft == HoldTime + CheckoutTime + RetryTime + MaxHoldTime
Holds   == {NoHold} \cup 0..MaxLeft

Rows == [status : Statuses \cup {"absent", "deleted"},
         left   : Holds,
         ext    : 0..MaxExtensions,     \* extension_count
         paying : BOOLEAN,              \* payment_id is set
         package : BOOLEAN]             \* booking_package_id is set

Absent   == [status |-> "absent", left |-> NoHold, ext |-> 0, paying |-> FALSE,
             package |-> FALSE]
NewDraft == [Absent EXCEPT !.status = "draft"]

\* "open", "captured" and "canceled" are states of the PaymentIntent of a
\* PENDING Stripe payment; "offline" is a PENDING bank transfer or cash.
\* Staff declare a payment FAILED and leave its order as it is: "failed" while
\* the PaymentIntent can still be cancelled, "stuck" when there is none that
\* can.  "void" is a payment that ended together with its order.
Pending  == {"open", "captured", "canceled", "offline"}
Accepted == {"paid", "settled"}
Payments == Pending \cup Accepted \cup {"none", "failed", "stuck", "void"}

Unread  == [status |-> "unread"]
Targets == Rows \cup {Unread}

ItemOps  == {"add", "update", "remove"}
StaffOps == {"complete", "fail", "void"}
Idle     == [op |-> "idle"]
ItemJobs == [op : ItemOps, ord : Orders, seen : Statuses]
MoveJobs == [op : {"move"}, ord : Orders, snap : Rows, to : Statuses]
SaveJobs == [op : {"save"}, ord : Orders, snap : Rows, to : Statuses, units : 0..MaxQuantity]
StaffJobs  == [op : StaffOps, ord : Orders]
VerifyJobs == [op : {"verify", "moveOn"}, ord : Orders, snap : Rows]
Jobs == {Idle} \cup ItemJobs \cup MoveJobs \cup SaveJobs \cup StaffJobs \cup VerifyJobs

Status(o) == order[o].status
Exists(o) == Status(o) \in Statuses
IsOpen(o) == Status(o) \in Open

\* is_expired: only an open order has an active hold.
Lapsed(o) == IsOpen(o) /\ order[o].left = 0

-----------------------------------------------------------------------------
Init ==
    /\ order = [o \in Orders |-> Absent]
    /\ qty = [o \in Orders |-> 0]
    /\ stock = InitialStock
    /\ payment = [o \in Orders |-> "none"]
    /\ target = [o \in Orders |-> Unread]
    /\ job = [w \in Workers |-> Idle]
    /\ requests = 0
    /\ ledger = [o \in Orders |-> 0]
    /\ lost = [o \in Orders |-> 0]
    /\ billed = [o \in Orders |-> 0]
    /\ disturbed = [o \in Orders |-> FALSE]

SetOrder(o, r)   == order' = [order EXCEPT ![o] = r]
SetPayment(o, p) == payment' = [payment EXCEPT ![o] = p]
SetJob(w, j)     == job' = [job EXCEPT ![w] = j]
DisturbedIf(o, changed) == disturbed' = [disturbed EXCEPT ![o] = @ \/ changed]

\* Mutation: stock is taken without looking how much there is.
TakeUnchecked(o, n) ==
    /\ stock' = stock - n
    /\ ledger' = [ledger EXCEPT ![o] = @ + n]

\* decrement_stock (n > 0) or increment_stock (n < 0), which fails rather
\* than leave 0..StockCap.
Take(o, n) ==
    /\ stock - n \in 0..StockCap
    /\ stock' = stock - n
    /\ ledger' = [ledger EXCEPT ![o] = @ + n]

\* Mutation: the items of an open order only are put back.
RestoreOpenOnly(o) ==
    IF qty[o] = 0 \/ ~IsOpen(o)
    THEN UNCHANGED <<stock, ledger, lost>>
    ELSE Take(o, -qty[o]) /\ UNCHANGED lost

\* transition_to puts back the units of the items; an increment refused
\* at the cap is logged and the transition goes on.
Restore(o) ==
    IF stock + qty[o] <= StockCap
    THEN Take(o, -qty[o]) /\ UNCHANGED lost
    ELSE /\ lost' = [lost EXCEPT ![o] = @ + qty[o]]
         /\ UNCHANGED <<stock, ledger>>

-----------------------------------------------------------------------------
(* Steps that lock the order row, one transaction each.                     *)

\* The row changes and no stock moves.
SaveOrder(o, r) == SetOrder(o, r) /\ UNCHANGED stockVars

CancelOrder(o, r) ==
    /\ SetOrder(o, [r EXCEPT !.status = "cancelled"])
    /\ Restore(o)
    /\ UNCHANGED qty

KeepOrder == UNCHANGED <<order, stockVars>>

Unrelated == UNCHANGED <<requestVars, target, disturbed>>

\* Mutation: extensions are not counted.
ExtendUncounted(o) ==
    /\ IsOpen(o) /\ order[o].left > 0 /\ ~order[o].paying
    /\ order[o].left < MaxHoldTime
    /\ SaveOrder(o, [order[o] EXCEPT !.left = @ + 1])
    /\ Unrelated /\ UNCHANGED <<payment, billed>>

\* extend_hold: the cap on the total hold may cut the extension short.
Extend(o) ==
    /\ IsOpen(o) /\ order[o].left > 0 /\ ~order[o].paying
    /\ order[o].ext < MaxExtensions
    /\ \E t \in 1..ExtensionTime :
          /\ order[o].left + t <= MaxHoldTime
          /\ SaveOrder(o, [order[o] EXCEPT !.left = @ + t, !.ext = @ + 1])
    /\ Unrelated /\ UNCHANGED <<payment, billed>>

\* checkout of a draft with items and no payment.  Stripe gives the customer
\* a fresh hold; bank transfer and cash are not time limited; an order that
\* costs nothing goes straight to processing.
Checkout(o) ==
    /\ Status(o) = "draft" /\ ~Lapsed(o)
    /\ qty[o] > 0
    /\ \/ /\ ~order[o].paying
          /\ SaveOrder(o, [order[o] EXCEPT
                !.status = "pending", !.left = CheckoutTime, !.ext = 0, !.paying = TRUE])
          /\ SetPayment(o, "open")
       \/ /\ ~order[o].paying
          /\ SaveOrder(o, [order[o] EXCEPT !.status = "pending", !.left = NoHold, !.paying = TRUE])
          /\ SetPayment(o, "offline")
       \/ /\ SaveOrder(o, [order[o] EXCEPT !.status = "processing", !.left = NoHold])
          /\ UNCHANGED payment
    /\ billed' = [billed EXCEPT ![o] = qty[o]]
    /\ Unrelated

\* The finaliser of a booking creates the order of a package, submits it and
\* gives it the payment of the booking, in one transaction.  (The fulfilment
\* that finalises a booking goes on in the same transaction with Settle.)
PackageOrder(o) ==
    /\ Status(o) = "absent"
    /\ SetOrder(o, [Absent EXCEPT !.status = "pending", !.paying = TRUE, !.package = TRUE])
    /\ \E n \in 1..MaxQuantity :
          /\ Take(o, n)
          /\ qty' = [qty EXCEPT ![o] = n]
          /\ billed' = [billed EXCEPT ![o] = n]
    /\ \E p \in {"offline", "paid"} : SetPayment(o, p)
    /\ Unrelated /\ UNCHANGED lost

\* Stripe captures the money; no process of ours runs.
Capture(o) ==
    /\ payment[o] \in {"open", "failed"}
    /\ SetPayment(o, IF payment[o] = "open" THEN "captured" ELSE "stuck")
    /\ KeepOrder /\ Unrelated /\ UNCHANGED billed

\* The handler of the success event locks the payment row until it commits.
Unlocked(o) == target[o] = Unread

\* The payment fails or is cancelled, and its order, which is locked, with it.
PaymentLost(o) ==
    /\ Unlocked(o)
    /\ SetPayment(o, "void")
    /\ IF "cancelled" \in Allowed(Status(o)) THEN CancelOrder(o, order[o]) ELSE KeepOrder
    /\ UNCHANGED <<target, requests, billed, disturbed>>

FailedEvent(o) ==
    /\ payment[o] \in {"open", "captured"}
    /\ PaymentLost(o)
    /\ UNCHANGED job

CanceledEvent(o) ==
    /\ payment[o] = "canceled"
    /\ PaymentLost(o)
    /\ UNCHANGED job

\* The success event: payment.target is read without a lock ...
ReadTarget(o) ==
    /\ payment[o] = "captured" /\ Unlocked(o)
    /\ target' = [target EXCEPT ![o] = order[o]]
    /\ KeepOrder /\ UNCHANGED <<payment, requestVars, billed, disturbed>>

\* Every column of an order read as pending is saved with status processing,
\* whatever has become of the order; a row that was deleted is inserted again.
SaveTarget(o, row) ==
    /\ SaveOrder(o, [row EXCEPT !.status = "processing"])
    /\ DisturbedIf(o, Status(o) \notin {"pending", "processing"})

\* ... and saved when the payment is committed as COMPLETED; the transition of
\* a draft is refused and the error logged.  A handler that dies leaves
\* nothing behind, as if it had not begun.
SucceededEvent(o) ==
    /\ ~Unlocked(o)
    /\ target' = [target EXCEPT ![o] = Unread]
    /\ SetPayment(o, "paid")
    /\ IF target[o].status = "pending" THEN SaveTarget(o, target[o])
       ELSE KeepOrder /\ UNCHANGED disturbed
    /\ UNCHANGED <<requestVars, billed>>

\* Mutation: the status of the order is not looked at.
SettleRegardless(o) ==
    /\ payment[o] = "paid" /\ Exists(o)
    /\ SetPayment(o, "settled")
    /\ SaveOrder(o, [order[o] EXCEPT !.left = NoHold, !.status = "processing"])
    /\ Unrelated /\ UNCHANGED billed

\* process_order_payment, once per payment (PaymentFulfilment.tla).
Settle(o) ==
    /\ payment[o] = "paid" /\ Exists(o)
    /\ SetPayment(o, "settled")
    /\ SaveOrder(o, [order[o] EXCEPT
          !.left = NoHold,
          !.status = IF ~ApprovalRequired /\ "processing" \in Allowed(@) THEN "processing" ELSE @])
    /\ Unrelated /\ UNCHANGED billed

\* process_booking_payment moves on every pending order of the attendees of the
\* booking that was paid: those of its packages (Settle) and any other.
FulfilBooking(o) ==
    /\ Status(o) = "pending" /\ ~order[o].package /\ ~ApprovalRequired
    /\ SaveOrder(o, [order[o] EXCEPT !.status = "processing"])
    /\ Unrelated /\ UNCHANGED <<payment, billed>>

\* Order.expire.  The order of a PaymentIntent that Stripe will not cancel is
\* tried again later; if the transaction rolls back after Stripe cancelled
\* the intent, the order is as it was.
Expire(o) ==
    /\ Lapsed(o)
    /\ LET how == IF order[o].paying THEN payment[o] ELSE "none"
       IN  \/ /\ how \in Accepted
              /\ SaveOrder(o, [order[o] EXCEPT !.left = NoHold])
              /\ UNCHANGED payment
           \/ /\ how \in {"captured", "canceled", "stuck", "void"}
              /\ SaveOrder(o, [order[o] EXCEPT !.left = RetryTime])
              /\ UNCHANGED payment
           \/ /\ how \in {"none", "open", "offline", "failed", "stuck", "void"}
              /\ CancelOrder(o, [order[o] EXCEPT !.left = NoHold])
              /\ IF how = "none" THEN UNCHANGED payment ELSE SetPayment(o, "void")
           \/ /\ how \in {"open", "failed"}
              /\ SetPayment(o, IF how = "open" THEN "canceled" ELSE "stuck")
              /\ KeepOrder
    /\ Unrelated /\ UNCHANGED billed

\* DELETE of an order removes the row and its items, whatever its status,
\* and puts nothing back.
Delete(o) ==
    /\ Exists(o) /\ ~Lapsed(o)
    /\ SetOrder(o, [order[o] EXCEPT !.status = "deleted"])
    /\ lost' = [lost EXCEPT ![o] = @ + IF Status(o) \in Live THEN qty[o] ELSE 0]
    /\ qty' = [qty EXCEPT ![o] = 0]
    /\ Unrelated /\ UNCHANGED <<stock, ledger, payment, billed>>

\* Staff add to the stock, take from it or set it (the variants viewset).
AdjustStock ==
    /\ \E n \in 0..StockCap : n # stock /\ stock' = n
    /\ Unrelated /\ UNCHANGED <<order, qty, ledger, lost, payment, billed>>

Aged(r) == IF r.left > 0 THEN [r EXCEPT !.left = @ - 1] ELSE r

\* Time passes; snapshots hold absolute times and age with the rows.
Tick ==
    /\ \E o \in Orders : order[o].left > 0
    /\ order' = [o \in Orders |-> Aged(order[o])]
    /\ target' = [o \in Orders |-> IF Unlocked(o) THEN Unread ELSE Aged(target[o])]
    /\ job' = [w \in Workers |->
                 IF job[w].op \in {"move", "save", "verify", "moveOn"}
                 THEN [job[w] EXCEPT !.snap = Aged(@)]
                 ELSE job[w]]
    /\ UNCHANGED <<stockVars, payment, requests, billed, disturbed>>

-----------------------------------------------------------------------------
(* Requests that read the order, decide, and write it later without a lock. *)

Ask(w, j) ==
    /\ job[w] = Idle
    /\ requests < MaxRequests
    /\ requests' = requests + 1
    /\ SetJob(w, j)

\* OrderCreateSerializer.create commits the empty order, then adds its items.
Create(w, o) ==
    /\ Status(o) = "absent"
    /\ SetOrder(o, NewDraft)
    /\ Ask(w, [op |-> "add", ord |-> o, seen |-> "draft"])
    /\ UNCHANGED <<stockVars, payment, target, billed, disturbed>>

\* Mutation: items of any order may be changed.
ReadForItemsUnchecked(w, o) ==
    /\ Exists(o) /\ ~Lapsed(o)
    /\ \E op \in ItemOps : Ask(w, [op |-> op, ord |-> o, seen |-> Status(o)])
    /\ UNCHANGED <<order, stockVars, payment, target, billed, disturbed>>

\* get_object (which expires a lapsed order first) and the check on its result.
ReadForItems(w, o) ==
    /\ Status(o) = "draft" /\ ~Lapsed(o)
    /\ \E op \in ItemOps : Ask(w, [op |-> op, ord |-> o, seen |-> Status(o)])
    /\ UNCHANGED <<order, stockVars, payment, target, billed, disturbed>>

\* submit, cancel, complete, a status edit by staff.
ReadForMove(w, o) ==
    /\ Exists(o) /\ ~Lapsed(o)
    /\ \E to \in Allowed(Status(o)) :
          Ask(w, [op |-> "move", ord |-> o, snap |-> order[o], to |-> to])
    /\ UNCHANGED <<order, stockVars, payment, target, billed, disturbed>>

WriteItems(w, o, op) ==
    /\ job[w].op = op /\ job[w].ord = o
    /\ Exists(o)
    /\ DisturbedIf(o, Status(o) # job[w].seen)
    /\ SetJob(w, Idle)
    /\ UNCHANGED <<payment, target, requests, billed, lost>>

\* Mutation: the first item does not start the hold.
AddItemWithoutHold(w, o) ==
    /\ WriteItems(w, o, "add")
    /\ \E n \in 1..(MaxQuantity - qty[o]) :
          Take(o, n) /\ qty' = [qty EXCEPT ![o] = @ + n]
    /\ UNCHANGED order

\* add_order_item starts the hold of an order that has none, but not of a
\* package.  (An order that has expired is closed; the hold of an order that
\* is not open is never looked at.)
StartsHold(o) == IsOpen(o) /\ order[o].left = NoHold /\ ~order[o].package

AddItem(w, o) ==
    /\ WriteItems(w, o, "add")
    /\ \E n \in 1..(MaxQuantity - qty[o]) :
          Take(o, n) /\ qty' = [qty EXCEPT ![o] = @ + n]
    /\ SetOrder(o, [order[o] EXCEPT !.left = IF StartsHold(o) THEN HoldTime ELSE @])

UpdateItem(w, o) ==
    /\ WriteItems(w, o, "update")
    /\ qty[o] > 0
    /\ \E n \in 1..MaxQuantity :
          Take(o, n - qty[o]) /\ qty' = [qty EXCEPT ![o] = n]
    /\ UNCHANGED order

\* An order left without items is deleted.
RemoveItem(w, o) ==
    /\ WriteItems(w, o, "remove")
    /\ \E n \in 1..qty[o] :
          /\ Take(o, -n)
          /\ qty' = [qty EXCEPT ![o] = @ - n]
          /\ SetOrder(o, [order[o] EXCEPT !.status = IF n = qty[o] THEN "deleted" ELSE @])

\* transition_to, first half: the stock goes back before the row is saved.
PutBack(w, o) ==
    /\ job[w].op = "move" /\ job[w].ord = o
    /\ job[w].to \in Closed
    /\ Restore(o)
    /\ DisturbedIf(o, order[o] # job[w].snap)
    /\ SetJob(w, [op |-> "save", ord |-> o, snap |-> job[w].snap, to |-> job[w].to,
                  units |-> qty[o]])
    /\ UNCHANGED <<order, qty, payment, target, requests, billed>>

\* transition_to, second half: every column of the snapshot is saved.
SaveMove(w, o) ==
    /\ job[w].op \in {"move", "save"} /\ job[w].ord = o
    /\ job[w].op = "move" => job[w].to \notin Closed
    /\ SetOrder(o, [job[w].snap EXCEPT !.status = job[w].to])
    /\ DisturbedIf(o, order[o] # job[w].snap \/ (job[w].op = "save" /\ qty[o] # job[w].units))
    /\ SetJob(w, Idle)
    /\ UNCHANGED <<stockVars, payment, target, requests, billed>>

\* Staff decide about a payment that was PENDING when they read it.
ReadPayment(w, o) ==
    /\ payment[o] \in Pending
    /\ \E op \in StaffOps : Ask(w, [op |-> op, ord |-> o])
    /\ UNCHANGED <<order, stockVars, payment, target, billed, disturbed>>

DecidePayment(w, o, op, p) ==
    /\ job[w].op = op /\ job[w].ord = o
    /\ Unlocked(o)
    /\ SetJob(w, Idle)
    /\ SetPayment(o, p)
    /\ KeepOrder /\ UNCHANGED <<target, requests, billed, disturbed>>

\* mark_completed; the marker of a payment already fulfilled stays.
MarkCompleted(w, o) ==
    DecidePayment(w, o, "complete", IF payment[o] = "settled" THEN "settled" ELSE "paid")

\* mark_failed, and the refusal of a bank transfer.
MarkFailed(w, o) ==
    DecidePayment(w, o, "fail", IF payment[o] \in {"open", "failed"} THEN "failed" ELSE "stuck")

CancelPayment(w, o) ==
    /\ job[w].op = "void" /\ job[w].ord = o
    /\ SetJob(w, Idle)
    /\ PaymentLost(o)

\* verify_bank_transfer reads the payment and its target, completes the payment
\* and then saves the target, twice.
ReadTransfer(w, o) ==
    /\ payment[o] = "offline"
    /\ Ask(w, [op |-> "verify", ord |-> o, snap |-> order[o]])
    /\ UNCHANGED <<order, stockVars, payment, target, billed, disturbed>>

VerifyTransfer(w, o) ==
    /\ job[w].op = "verify" /\ job[w].ord = o
    /\ Unlocked(o)
    /\ SetPayment(o, IF payment[o] = "settled" THEN "settled" ELSE "paid")
    /\ SetJob(w, IF job[w].snap.status = "pending" /\ ~job[w].snap.package
                 THEN [job[w] EXCEPT !.op = "moveOn"] ELSE Idle)
    /\ KeepOrder /\ UNCHANGED <<target, requests, billed, disturbed>>

MoveOn(w, o) ==
    /\ job[w].op = "moveOn" /\ job[w].ord = o
    /\ SaveTarget(o, job[w].snap)
    /\ SetJob(w, IF job[w].snap.status = "pending"
                 THEN [job[w] EXCEPT !.snap.status = "processing"] ELSE Idle)
    /\ UNCHANGED <<payment, target, requests, billed>>

\* The request is refused, fails or dies.
Abort(w) ==
    /\ job[w] # Idle
    /\ SetJob(w, Idle)
    /\ DisturbedIf(job[w].ord, job[w].op = "save")
    /\ UNCHANGED <<order, stockVars, payment, target, requests, billed>>

-----------------------------------------------------------------------------
PaymentStep(o) ==
    \/ Capture(o) \/ FailedEvent(o) \/ CanceledEvent(o)
    \/ ReadTarget(o) \/ SucceededEvent(o) \/ Settle(o) \/ FulfilBooking(o)

RequestStep(w, o) ==
    \/ Create(w, o) \/ ReadForItems(w, o) \/ ReadForMove(w, o)
    \/ AddItem(w, o) \/ UpdateItem(w, o) \/ RemoveItem(w, o)
    \/ PutBack(w, o) \/ SaveMove(w, o)

StaffStep(w, o) ==
    \/ ReadPayment(w, o) \/ MarkCompleted(w, o) \/ MarkFailed(w, o) \/ CancelPayment(w, o)
    \/ ReadTransfer(w, o) \/ VerifyTransfer(w, o) \/ MoveOn(w, o)

Next ==
    \/ \E o \in Orders :
          Extend(o) \/ Checkout(o) \/ PackageOrder(o) \/ PaymentStep(o) \/ Expire(o) \/ Delete(o)
    \/ \E w \in Workers, o \in Orders : RequestStep(w, o) \/ StaffStep(w, o)
    \/ \E w \in Workers : Abort(w)
    \/ AdjustStock
    \/ Tick

Spec == Init /\ [][Next]_vars

\* Time passes, the expiry task runs every minute, Stripe delivers its events
\* until they are accepted.
Fairness ==
    /\ WF_vars(Tick)
    /\ \A o \in Orders :
          /\ WF_vars(Expire(o)) /\ WF_vars(CanceledEvent(o))
          /\ WF_vars(ReadTarget(o)) /\ WF_vars(SucceededEvent(o))

FairSpec == Spec /\ Fairness

-----------------------------------------------------------------------------
(* Properties.                                                              *)

\* Every variable keeps its shape; stock stays within 0 and its cap.
TypeOK ==
    /\ order \in [Orders -> Rows]
    /\ qty \in [Orders -> 0..MaxQuantity]
    /\ stock \in 0..StockCap
    /\ payment \in [Orders -> Payments]
    /\ target \in [Orders -> Targets]
    /\ job \in [Workers -> Jobs]
    /\ requests \in 0..MaxRequests
    /\ ledger \in [Orders -> Int]
    /\ lost \in [Orders -> Nat]
    /\ billed \in [Orders -> 0..MaxQuantity]
    /\ disturbed \in [Orders -> BOOLEAN]

\* No request is between putting the stock back and closing the order.
Quiet(o) == \A w \in Workers : ~(job[w].op = "save" /\ job[w].ord = o)

Reserved(o) == IF Status(o) \in Live THEN qty[o] ELSE 0

\* The stock movements logged for an order add up to what its items reserve:
\* nothing is put back twice or forgotten when orders are cancelled, expire,
\* lose their payment or are refunded (transition_to, orders.py 366-400).
\* Exceptions: units lost when the cap refuses them or the order is deleted,
\* requests that met a changed order, and payment handlers that saved a copy of
\* an order closed since they read it (webhooks.py 187-208, payments.py 562-564).
StockBalances ==
    \A o \in Orders :
        ~disturbed[o] /\ Quiet(o) => ledger[o] = Reserved(o) + lost[o]

\* An order with a payment holds exactly the units its checkout charged for,
\* unless a request met a changed order or its row was deleted.
BilledUndisturbed ==
    \A o \in Orders :
        ~disturbed[o] /\ payment[o] # "none" /\ Exists(o) => qty[o] = billed[o]

\* What ends the time limit of an order: it is to be paid offline, it is paid,
\* or its payment failed for good and its order was left open.
Unlimited(o) == payment[o] \in {"offline", "stuck"} \cup Accepted

\* Open orders do not keep stock without a time limit: there is a hold, or the
\* order is one whose hold was cleared on purpose (orders.py 508-510, the
\* comments of checkout on clear_hold), package orders included.  A transfer
\* that was refused, and mark_failed, leave an order with neither, for ever:
\* those are named in Unlimited, and nothing else may come to that.
HoldOrPayment ==
    \A o \in Orders :
        ~disturbed[o] /\ IsOpen(o) /\ qty[o] > 0 => order[o].left # NoHold \/ Unlimited(o)

\* A cancelled or refunded order, whose stock others may have bought since, is
\* not taken up again: not by a late payment, its fulfilment, that of a booking
\* or a refund; the payment handlers and requests that save a copy read before
\* it was closed are the exception, and ReopenedByNoPayment is about them.
ClosedIsFinal ==
    [][\A o \in Orders :
          Status(o) \in Closed /\ ~disturbed'[o] =>
              order'[o].status \in {Status(o), "deleted"}]_vars

\* An unpaid cart does not keep its stock for ever, however often its hold is
\* extended and whatever becomes of its PaymentIntent, unless staff declare its
\* payment failed when there is nothing left to cancel.
CartsAreReleased ==
    \A o \in Orders :
        (IsOpen(o) /\ qty[o] > 0) ~> (~IsOpen(o) \/ disturbed[o] \/ Unlimited(o))

\* Where an order stands in OrderContract.tla.
Stage(status) ==
    CASE status = "absent"  -> "none"
      [] status = "draft"   -> "cart"
      [] status \in Closed  -> "closed"
      [] status = "deleted" -> "gone"
      [] OTHER              -> "held"

Phase(o) ==
    IF disturbed[o] THEN "excused" ELSE IF Quiet(o) THEN Stage(Status(o)) ELSE "closing"

Contract == INSTANCE OrderContract
                WITH phase <- [o \in Orders |-> Phase(o)],
                     units <- [o \in Orders |-> Reserved(o)],
                     taken <- ledger, charged <- billed

\* Seen from outside, with holds, payments and requests left out, an order does
\* what OrderContract.tla promises: its units move with the stock while it is a
\* cart, are fixed from then on, and are given up once, when it is closed
\* (orders.py transition_to, expire and the item endpoints).
KeepsContract == Contract!ContractSpec

-----------------------------------------------------------------------------
(* What the code says of itself and does not keep.                          *)


\* orders.py 372: "Raises ValidationError if the transition is not allowed", and
\* nothing is allowed to a closed order.  A payment that succeeds late leaves
\* it closed.
ReopenedByNoPayment ==
    [][\A o \in Orders :
          Status(o) \in Closed /\ payment[o] = "captured" /\ payment'[o] = "paid"
              => order'[o] = order[o]]_vars
=============================================================================
