# TLA+ project for the event API

This directory models the parts of the API (Django, REST framework, Channels,
Celery, PostgreSQL, Redis, Stripe) whose correctness depends on who does what
first: payments and what they pay for, orders and the stock they reserve, booking
intents and the seats they reserve; and what follows a sale: refunds, purchase
limits, check-in, workshops, presence on the dashboard, invitations and
memberships. TLC checks the models on small instances; TLAPS proves nearly all of
their safety properties for every value of the constants.

Run a check with `tlc -workers 2 -config X.cfg MCModule`, a proof with
`tlapm XProofs.tla`. `PROJECT.json` lists components, runs, mutants (a plausible
bug per property that the run must notice), theorems, and for every definition
the source lines it models. Paths below are relative to `src/apps/`.

## 1. Inventory

The server runs several web processes and Celery workers on one PostgreSQL
database (READ COMMITTED, no request-wide transactions). They share nothing but
rows. Stripe is a second party: it keeps PaymentIntents and delivers events late,
twice, in any order, until they are accepted. Celery's beat schedule runs
`expire_order_holds` every minute, `fulfil_outstanding_payments` every five
minutes and `mark_completed_events` every hour; the intent clean-up tasks exist
but are not in the schedule.

| component | state | operations | what is hard |
|---|---|---|---|
| payments (`payments/models/payments.py`, `services/completion.py`, `services/stripe`, viewsets) | `Payment` row: status, `fulfilled_at`, metadata; the PaymentIntent at Stripe | webhook handlers, reconciliation, `fulfil_payment`, the sweeper, mark completed / failed, cancel, refund requests | fulfilment after commit may be lost; staff requests save stale rows; events in any order; expiry calls Stripe between read and write |
| orders and stock (`products/models/orders.py`, `product.py`, viewsets) | `Order` row with status and hold, items, `stock_quantity` | item requests, checkout, extension, expiry, submit / cancel / complete, payment handlers, stock edits | half the requests check an unlocked read; a late success moves on an order it read without a lock; a payment staff refuse leaves its order open; stock goes back before the status is saved; increments refused at the cap |
| booking intents and checkout (`bookings/...`) | `BookingIntent` row, payment metadata, attendees, tickets | create, update, cancel, delete, checkout by Stripe / transfer / cash, deferred finalisation, clean-up | seats counted and written without a lock; several payments per intent; payments that arrive after the intent is gone |
| refunds (`payments/models/refunds.py`, `services/attendee_refunds.py`, viewsets) | `RefundRequest`, associations, rollback snapshot; refunds made by Stripe | create at two endpoints, verify, process, reject, PATCH, DELETE, Stripe's refund event | request, payment, order, ticket and money change in several steps on copies read without a lock; PATCH replaces the metadata that reviews act on |
| purchase limits (`products/models/product.py`, `orders.py`) | the items of all orders of an attendee | create, add / update / remove item, transitions, partial refunds | units are counted without a lock and written later |
| check-in (`attendee/api/viewsets/checkin.py`, `models/checkin.py`) | attendance, status, log of `AttendeeCheckIn` | scan in / out, bulk updates, deletion of logs, cancellation | three rows written one by one; several desks scan one attendee |
| workshops (`workshops/services/allocation.py`, viewsets) | registrations, interests | register, confirm, cancel, promote, draw, allocate by interest | races for the last place and for the next person waiting |
| presence (`events/consumers/dashboard_presence.py`) | a sorted set and a hash in Redis, what each client was last sent | authenticate, page change, ping, disconnect, sweep of stale entries | every handler is a list of commands of which none is atomic with another |
| staff and leaders (`events/models/staff_invite.py`, `organisations/models`) | invitations, staff / leader rows, permissions | send, accept, PATCH, withdraw, remove | what an acceptance gives is saved row by row while managers delete the same rows |
| memberships (`organisations/models/organisation.py`) | memberships, acceptance code with uses, invitations | join, verify with a code, accept, verify by hand, PATCH, remove | rows read without a lock are saved whole |
| question builder (`events/api/viewsets/questions.py`, `forms.py`) | questions and their order | create, reorder | reordering is not locked; not modelled |
| discounts, donations, bank details, Stripe accounts, delegation, transport, locations, users, sponsors, statistics, settings | reference data | CRUD, reports | little: no protocol of their own |

How they meet: checkout of an order or a booking creates the `Payment` and the
PaymentIntent; the webhook completes the payment and moves orders on; after the commit
`fulfil_payment` makes booking, attendees and tickets or clears the hold of the order;
the webhooks and the cancel endpoint cancel the orders of a payment that fails or is
cancelled, staff who mark it failed or refuse a transfer leave them as they are; the
expiry of an order cancels its PaymentIntent and payment; refund requests move
payment, orders and tickets together; a ticket lets the attendee in at the desks and
into the workshops. `PROJECT.json` lists 40 hazards of this code, each at its line.

What makes the components correct:

- payments: goods are handed out exactly once for money that was captured,
  every captured payment is noticed and served or flagged, nothing paid is
  cancelled by the system;
- orders: stock is never lost or invented, an order holds what was paid for, a
  closed order stays closed, an unpaid cart gives its stock back in time;
- bookings: the event is not overbooked, an intent yields one booking and one
  set of tickets, a payment marked as fulfilled has both;
- refunds: a request is paid back once, nobody loses a ticket or a unit for money
  that was not returned, nothing waits for a decision nobody can take;
- purchase limits: the orders of an attendee together stay within the limit;
- check-in: nobody enters twice without leaving, the three records of it agree, a
  cancelled attendee stays out;
- workshops: never overfull, no place idle while somebody waits, first come first
  served, no place is taken away, ranked allocation serves submissions in order;
- presence: who is there is listed, and all clients see the same list;
- staff, leaders, members: an invitation admits once and gives all it should, who
  was removed keeps no permissions, a code verifies as many members as it has uses.

## 2. Modules

| module | role |
|---|---|
| `FulfilmentContract` | abstract specification: what the payment service promises about the goods of a payment |
| `PaymentFulfilment` | payments, Stripe, webhooks, sweeper, staff requests, expiry; refines the contract |
| `PaymentFulfilmentProofs` | its inductive invariant, safety theorems and the refinement |
| `OrderContract` | abstract specification: what the order service promises about the stock of an order |
| `OrderHold` | orders, stock, hold, checkout, payment handlers, unlocked requests; refines the contract |
| `OrderHoldProofs` | its inductive invariant, safety theorems and the refinement |
| `BookingContract` | abstract specification: what the booking service promises for what was paid |
| `BookingIntents` | intents, seats, checkout, finalisation, tickets; refines the contract |
| `BookingIntentsProofs` | its inductive invariant, safety theorems and the refinement |
| `RefundContract` | abstract specification: what the refund service promises about money and goods |
| `Refunds` | refund requests with payment, order, tickets, stock and Stripe; refines the contract |
| `PurchaseLimit` | what one attendee may have of a product over all orders |
| `GoodsProofs` | theorems about `Refunds` and `PurchaseLimit` |
| `CheckIn` | the desks, the log, cancellation and ticket of one attendee |
| `Workshops` | registrations, waiting list, draw, allocation by interest |
| `OnSiteProofs` | theorems about `CheckIn` and `Workshops` |
| `Presence` | who looks at which section of an event's dashboard |
| `Invitations` | invitations to the staff of an event or the leaders of a location |
| `Memberships` | membership of one organisation, its code and its invitations |
| `AccessProofs` | theorems about `Invitations`, `Memberships` and `Presence` |
| `AfterSaleProofs` | what is proved about these seven holds in the runs `refunds` and `after_sale` |
| `Subsequences` | the elements of a list that are in a set, by a recursive function |
| `SetSums` | lemmas about sums over finite sets |
| `MC...` | instances for TLC |

### Conventions

A handler that runs in a transaction under the row lock is one action. A request
that reads without a lock and writes later is a read action and a write action
of a worker, whose `job` holds the snapshot it read; anything may happen in
between, and `Crash`/`Abort` may end it there. `transition_to` writes the status
column only, a plain `save()` every column of the snapshot: the two are modelled
as such, and a stale `save()` that undoes another writer is part of the model.

The code's missing locks break some properties outright. A history variable then
records that the hole was used (`overwritten`, `disturbed`, `raced`,
`unreserved`), the property is stated for states where it was not, and
where the repository claims more a separate run without the excuse shows the failure. The excuse is as narrow as the
code allows: it is set only if the row really changed between read and write.

### PaymentFulfilment

`row` is the `Payment` row reduced to what decisions depend on: status,
`fulfilled_at`, the review flag, recorded event ids, whether the charge id is
known. `intent` and `emitted` are Stripe's side. `older` is the order of
`updated_at`, which decides whom the sweeper's batch reaches; `held` are the
payments of orders with a running hold. `Fulfil` is `fulfil_payment` in its
savepoint: hand out and stamp, or flag for review. Actions carry the names of the
handlers. Expiry takes three steps because it calls Stripe in the middle while
it locks the order but not the payment.

Not in the model: amounts, partial refunds (a full one passes through
`PENDING_REFUND`), dispute events, payments still `DRAFTING`.

### OrderHold

One variant stands for all. `order` holds status, ticks until `expires_at`,
`extension_count`, whether a payment was made and whether the order came with a
package; `qty` is the number of units in its items; `payment` merges the payment and
its PaymentIntent (module PaymentFulfilment has them apart). `ledger` and `lost` are
histories: units taken for an order less those put back, and units that fell between.

Three kinds of processes move an order. Those that lock its row are one step:
checkout, extension, expiry, fulfilment, the cancellation that follows a failed or
cancelled payment. Requests of customers and staff about the order read it, and save it
whole later (`job`). Payment handlers read `payment.target` without a lock: the success
event between locking the payment and its commit (`ReadTarget`, `SucceededEvent`, the
copy is in `target`), the verification of a transfer before it even completes the
payment (`ReadTransfer`, `VerifyTransfer`, `MoveOn`, which saves twice). While the
handler of the success event runs it holds the lock of the payment's row (`Unlocked`).
Staff decide about a payment on a row read before (`ReadPayment`, then
`MarkCompleted`, `MarkFailed` or `CancelPayment`). `MarkFailed` is also the refusal of
a transfer: neither touches the order. The payment is then `failed` while its
PaymentIntent can still be cancelled, which lets the expiry of the order do so, or
`stuck`; `void` is a payment that ended together with its order.

`PackageOrder` is the order of a package, created, submitted and charged for by the
finaliser of a booking in one transaction; neither it nor items added later start a
hold (orders.py:508). `FulfilBooking` is what the fulfilment of a booking does to
the other pending orders of its attendees.

Time counts down in ticks; snapshots age with the rows since they hold absolute
times. The total cap on a hold is nondeterministic within `MaxHoldTime`. `Expire`
covers the periodic task, the per-order task and the lazy expiry in `get_object`:
all run `Order.expire` under the lock. `Abort` stands for a validation error, an
exception or a dead worker at any point of an unlocked request. The window inside
`add_order_item` between its refresh and its save is closed (one step), statuses
of single items, prices, audit rows and `unique_open_order` are left out; a
refund reaches the order through the status moves of staff. `expired_at` is
dropped. An instance that was deleted in the meantime is inserted again by
`save()`, as Django does.

`disturbed` is set when a request writes over what changed after it read, when it dies
between its two writes, and when a payment handler saves a copy of an order that is no
longer pending or processing. `HoldOrPayment` and `CartsAreReleased` name in `Unlimited`
what ends a time limit: an offline payment, a paid one, or one that is `stuck`, whose
order staff have to cancel by hand. The runs `order_unbilled` and `order_reopened` show
what happens to an order that is `disturbed`.

`OrderContract` sees of an order where it stands, the units it has a claim to, the
histories and what was charged. The mapping: a draft is a `cart`, `pending` to
`partially_refunded` are `held`, cancelled and refunded are `closed`; an order is
`closing` while a request is between putting its stock back and saving its status,
and `excused` once it is `disturbed`; its claim is `Reserved`. The order of a package is
held and charged for from the start (`Reserve`). Holds, payments, the stock itself
and the requests are left out.

### BookingIntents

`intent` holds status, whether `expires_at` is in the future, the seats asked for and
whether `completed_booking` is set; `payment` the checkout's payment with its
metadata; `attendees` the count of the event. Creation counts seats in the serializer
and again in the model: both counts, and the expiry of the customer's other intents,
happen in `ReadForCreate`, the insert is `Insert`. The preview asks only whether the
intent is active (`ReadForPreview`), checkout also counts seats. `MakeBooking` is
`_finalize_internal`, `MakeTickets` is `create_tickets_for_payment`. How a payment
becomes paid is PaymentFulfilment's subject (`Confirm`, `Abandon`).

Left out: the event is always open, attendees are new (existing ones are not
re-linked) and never removed, packages and prices show only in `FulfilFails`,
reserved bank-transfer drafts, idempotent replays and staff bookings without an
intent. There is no liveness property: a preview extends the intent without
limit, so nothing about its release is promised by the code.

`BookingContract` sees who made a booking of each intent, how many bookings there are,
how often tickets were made for each payment and which payments count as served. The
mapping: a payment `made` a booking of its intent once its `booking_finalized` is set
(`final`), it is `served` once it is fulfilled, and an intent is `excused` once a stale
row was saved over it (`overwritten`). Bookings and tickets are the histories of the
same names. Seats, rows, requests and the life of a payment are left out.

### Refunds

One settled payment covers a ticket for each attendee and one order line of the
buyer. A request is for attendees (their tickets, and the buyer's order) or for
units of the line. What it acts on is kept twice, as in the code: in associations
(`links`), which are added when it is created and again when it is verified and are
never changed otherwise, and in its metadata (`meta`: what it names and the
statuses to go back to when it is rejected), from which associations are made and by
which whole attendees are looked up again when it is processed.

Its life is read / write: every endpoint checks the status on
an unlocked copy, and the first statement of its transaction, the UPDATE of the
request's row, makes the others wait, so the rest of the transaction is one step
with it. Verifying calls Stripe before that UPDATE (`AskStripe`, then `Verify`) and
can die in between. `RefundRequest.save()` draws a fresh `tracking_reference`, the
idempotency key, on every PATCH: the model gives it a new number. The endpoint of the
refunds creates a request in one transaction (`CreateCommit`). That of the attendees
has none: row (`InsertRow`), metadata (`Describe`), associations and the
order on hold (`Attach`), payment (`MarkPayment`) are separate commits, and it may die
between any two. `Attach` makes all associations in one step. A PATCH saves its copy
whole, with metadata out of `Edits` if it sends any. `charge.refunded` counts what Stripe
returned; the branch for expanded refunds filters on a field that does not exist and
raises, so it changes nothing. `Invalidate` is the cancellation of the buyer with
`invalidate`, which puts the order on hold without any request.

When a request is processed its associations come in no particular order
(`orderFirst`). An order refunded as a whole puts its units back; the shelf, which
others sell from and deliver to, may have no room (`room`), the refusal is logged and
the order closed all the same: the units are `refused`. The refusal of single units
raises instead and rolls the review back (`GiveUp`).

History variables name the ways round the workflow: `rewritten` (PATCH), `redirected`
(PATCH that replaced the metadata), `invalidated`, `offTrack` (DELETE, PATCH of the
status, a review before the payment was marked), `overlapped` (units refunded on an
order refunded as a whole). Left out: refund policies, used tickets, evidence,
payments of several orders.

`RefundContract` sees the refunds made at Stripe, whose tickets were taken, the units the
buyer still has, those taken back and those wasted on a full shelf, and whether the
payment counts as refunded. The mapping: an order refunded as a whole leaves the buyer no
units, whatever its line says; a request is `excused` once PATCH wrote its row
(`rewritten`): it may be paid back again and take what it was not made for, but only if
it was paid back; units are `doubled` once `overlapped` is set. Requests, reviews,
rollback snapshots, the statuses on the way and the processes are left out: every step
that only moves those may at most close the payment (`Settle`). Of the money of a
payment by bank, which staff return by hand, the contract says nothing.

### PurchaseLimit

`cart` holds the status of each order of one attendee and its units per variant.
A request reads, counts (`Permits` compares the counted units with the effective
limit of the variant) and writes in separate steps; creating an order places the
row before its items, and a refusal can leave it empty. `update_item` counts while
it holds the order's lock, which stops neither another order nor an item request
of the same one. A transition is read and saved apart, and a stale one can revive
an order closed in between. `bypassed` records the holes: "raced" (two requests
counted before either wrote), "in refund" (orders waiting for a refund or partially
refunded are not counted but may come back), "revived". `LeaveOff` stands for every
other check that fails. Stock, hold and payment of the same orders are
OrderHold's; package orders, availability of variants and changes of the limits
are left out.

### CheckIn

One attendee stands for all, since desks meet only in the rows of one. A request is a
list of steps still to do (`attend`, `status`, `record`), in the order of its
endpoint: scans and bulk updates differ. `mark_checked_in` and `mark_checked_out` save
the attendance and then the status (`Attend`, `MarkStatus`), which the scan saves once
more (`SaveStatus`). The get and the save of the attendance are one step. `holes`
names what the code has no defence against. A refund cancels the ticket and not the
attendee; a refunded ticket is refused when its code is scanned, and still admitted by
display id or in bulk, as in the code. What cancelling with `invalidate` does to the
orders is in Refunds. Left out: venues, rooms, sessions per day, broadcasts.

### Workshops

A request reads a registration or workshop, its service then counts and commits.
Nothing locks the workshop; the row locks of the draw and of a cancellation are
modelled by guards. `Plan` is the allocation by interest, `PlanFor` a recursive
function along the submissions in their order. A workshop that is not `OPEN` is
closed, whether draft or closed. The allocation takes a registration in any status for
a place (allocation.py:275), and so does the model. Outside first come first served a
registration is accepted for a closed workshop too, as in the code, although a comment
(workshop.py:114) says otherwise. Left out: cancelled workshops, changes of capacity,
interests and mode, staff of a workshop.

### Presence

A handler is the sequence of its Redis commands; a consumer executes one at a
time, others in between. Time appears as `Age` (no word for as long as the limit)
and as the expiry of each key. `lapsed` are the connections whose entry grew old or
was lost, until their next ping; `missed` the changes nobody was told of in order:
an older state sent after a newer one, an arrival that sweeps, an expiry, a failure
between the commands, and entries or records removed by a sweep although their owner
was heard of since (`wiped`). The owner may have written them again by then, with a
ping that tells nobody.
A server that dies leaves its entries to be swept. Messages that a full channel layer
drops, tokens, permissions and the consumers that only broadcast are left out.

### Invitations

Staff and leader invitations share their protocol; `inviteKind` picks the endpoint
where they differ (only staff have permissions, only leaders' removal is a single
delete). An acceptance looks, enrols, assigns the template's permissions and
closes the invitation, each in a transaction of its own; a removal strips the
permissions first and then the row. A PATCH saves the invitation as it was read.
Left out: changes of expiry, template and notes, single permissions, roles.

### Memberships

One organisation, one code. Joining with a required code verifies but does not use
it up; verifying later with the code does (`Spend`); both as in the code.
Accepting an invitation gets or creates the
membership (`Settle`), closes the invitation and only then saves the membership as
verified. Left out: deletion of codes,
changes of the organisation's rules, a second invitation of the same user.

## 3. Runs

| run | states | what it shows |
|---|---|---|
| `payment_fulfilment` | 125 222 | 1 payment, 3 workers, 2 staff requests, 1 crash: goods handed out at most once (`ExactlyOnce`) and never left with an unpaid payment (`FulfilledStaysSettled`); no payment invented (`SettledIsCaptured`); nothing captured is cancelled by the system (`CancelledIsNotCaptured`); the module implements `FulfilmentContract` (`KeepsContract`); an owing payment is served or flagged although a worker may die between commit and `on_commit` (`OwingIsResolved`), a capture is noticed (`CaptureIsNoticed`) |
| `order_hold` | 881 144 | 1 order, of a customer or of a package, 2 workers, 3 unlocked requests or staff decisions, a shelf for 1 unit: the module implements `OrderContract` (`KeepsContract`, which implies `StockBalances`); `BilledUndisturbed`, `HoldOrPayment`, `ClosedIsFinal`; a cart is released whatever becomes of its payment (`CartsAreReleased`) |
| `booking_intents` | 157 240 | 3 intents of 2 customers, 2 payments, 2 workers, 4 unlocked requests, 3 seats: `NeverOverbooked`, `OneBooking`; the module implements `BookingContract` (`KeepsContract`, which implies `TicketedOnce` and `FulfilledHasTickets`) |
| `refunds` | 726 434 | 2 workers, 2 attendees, 2 units, 2 calls that create, PATCH, delete or invalidate, 2 kinds of metadata a PATCH may send, by Stripe and by bank: `PaidBackOnce`, `PendingIsDecidable`, `UnitsBalance`, `RefundedIsReturned`; the module implements `RefundContract` (`KeepsContract`, which implies `TakenIsReturned`) |
| `after_sale` | 1 662 923 | the six smaller modules, side by side (next table) |

`MCAfterSale` is the module of the last two: its `Scenarios` say which components are
explored. They share no state. A behaviour picks one of them and
leaves the others as they began, so the instance is as large as the sum of its parts;
`TypeOK` is the conjunction of their type invariants.

| part | states | instance | properties |
|---|---|---|---|
| `PurchaseLimit` | 67 976 | 2 orders, 2 variants with different limits, 5 requests | `KeptWithinLimit` |
| `CheckIn` | 192 905 | 2 desks, 3 scans, bulk updates or deletions | `AdmittedOnce`, `RecordsAgree`, `CancelledStaysOut` |
| `Workshops` | 88 519 | 2 workshops of one place, 3 members, 2 clerks, 3 services, 4 starts | `NeverOverfull`, `NoIdlePlace`, `FirstComeFirstServed`, `PlacesAreKept` |
| `Presence` | 1 132 458 | 2 connections, 2 sections, 4 page changes, pings or failures | `LiveIsListed`, `ViewsAgree` |
| `Invitations` | 28 799 | 2 invitations, 2 processes, 4 requests of the managers, 1 death | `AdmitsOnce`, `NoStrayPermissions`, `AcceptedIsIn` |
| `Memberships` | 152 266 | 2 users, 2 processes, a code of one use, 2 requests of the controllers, 1 crash | `CodeWithinLimit`, `InvitedIsVerified` |

Seven runs check what the repository says of itself and the code does not keep;
each has an entry under "findings":

- `sweeper_batch`: payments flagged for review fill the sweeper's batch, an
  owing one behind them is never retried;
- `payment_declined`: a declined attempt ends the payment; the next attempt on the
  same PaymentIntent is captured and refused for ever;
- `payment_stale_save`: mark failed / cancel on a stale row undo a completed and
  fulfilled payment, which is then completed and fulfilled again;
- `order_unbilled`: an item request that read the draft adds units after checkout;
- `order_reopened`: the handler of a late success saves an order as processing that was
  cancelled, and its stock put back, since the handler read it;
- `ranking_pending`: the allocation by interest passes over an early submitter who is
  only pending in a workshop with room, and gives the place to a later one;
- `over_refund`: the check that refunds stay within the payment sums one request
  only; the processed requests of a bank payment add up to more than was paid.

### Bounds

One payment is enough for PaymentFulfilment: rows of different payments
share nothing but the sweeper's batch, which `sweeper_batch` covers with two.
Three workers are the smallest number that lets two stale requests meet a third
process. One order is enough for OrderHold: orders meet only in the stock, and
`AdjustStock` changes the stock in every way other orders can; the proofs hold for
any number. A shelf for one unit is empty, full, and too small for an order of two
units, which is made when stock is delivered in between; so a partial item
and the refused increment are reachable. Holds of one tick and an extension make
every expiry branch reachable. Three requests are one that reads, one that changes what
it read, and one that meets the result. In BookingIntents three seats and requests for up
to two make the last seat contested; two payments let one intent be paid twice;
three intents let an owner replace an intent while a stranger competes.
`MaxRequests`, `MaxCrashes` bound how many unlocked requests and crashes happen.

In `refunds` and `after_sale` two processes suffice since each hazard is one request
between the read and the write of another. Two calls make two requests on one payment,
one that is rewritten while it is verified, or one that is redirected before it is
processed. `Edits` are one that names a whole attendee and has no snapshot, and one
that names a ticket and a unit and has a snapshot of statuses that no request began
from. Five requests about two orders are enough to fill one, send it to a refund, fill
the other and bring the first back; the limit of one variant is below, of the other
above that of the product. Three scans are an admission and two that meet over it.
Three services are two requests that meet and one that suffers; a workshop of one
place with three members has a full place, somebody next and somebody after. Four
presence events are two clients that show themselves, one that pings silently while
the other sweeps it, and a change; with three the record that a silent ping writes
again is out of reach. Four requests of the managers send, remove, send again and
change; a code of one use and two users compete.

The bounds on requests, calls, events, services and crashes are of the model: the code
has none (`MaxQuantity`, `MaxExtensions`, `MaxHoldTime`, `MaxUses` are the code's). Symmetry is used for
workers and payments in runs without liveness properties, in `after_sale` for the
processes, and for sections, users and orders, which nothing tells apart.

### Fairness

Workers finish their jobs unless they die (weak fairness). The sweeper and
Stripe's redelivery come back for ever whatever happens in between, hence strong
fairness of the sweep of a payment and of the success event. In OrderHold time
passes, the expiry task runs every minute, Stripe delivers success (both steps of its
handler) and cancellation until accepted. No fairness is assumed of customers, staff or
Stripe's decisions.

## 4. Proofs

`PaymentFulfilmentProofs` proves, for any number of payments, workers, requests,
crashes and any batch size: `TypeCorrect`; the inductive `Invariant`; from it
`ExactlyOnce`, `FulfilledStaysSettled`, `SettledIsCaptured`,
`CancelledIsNotCaptured`; and `Refinement`, that the module implements
`FulfilmentContract`. The safety properties are not inductive: that goods are
handed out once depends on the marker in the row agreeing with the history, that
no payment is invented on what Stripe has emitted and on what the snapshots in
`job` may contain, that expiry does not cancel a captured payment on the
PaymentIntent being cancelled while its job is between the two steps. The
invariant says so, and assumes nothing about who interleaves with whom.

`OrderHoldProofs` does the same for OrderHold, for any number of orders, workers,
units, ticks and settings. `StockBalances` speaks of orders no request is in the middle
of closing. The invariant adds what holds in the middle: with a single request
between putting the stock back and saving the status, the ledger is already
short by exactly the units that request put back; the status a request is about to
save is one the transition table allows from the status it read; an item request
has seen a draft; no job exists for an order that does not; the order
a payment handler has read has a payment, so it is no draft again: the copy the handler
saves takes neither units nor stock with it if the order is still pending or
processing, and disturbs it otherwise. `ClosedIsFinal` needs the middle two and the
last: whoever meets a closed order must have met a changed one. `HoldOrPayment` needs
the history of the payment: an order loses its hold only with a payment in `Unlimited`,
and no payment leaves that set but together with its order.
`Refinement` shows that OrderHold implements `OrderContract`: most steps leave the view
of every order as it was or excuse one (`ViewStep`), the others are one action of the
contract for the order they are about. A second request that interferes while an
order is closing is `Intrude`; that the one that finishes may be taken for
`FinishClosing` rests on the invariant, which says that its books balance then.
`ContractBooks` shows what the contract is worth on its own: it implies `StockBalances`, and
that a charged order holds what was charged until it is closed.
The assumptions are those stated with the constants (natural numbers, positive
times, initial stock within the cap).

`BookingIntentsProofs`: `TypeOK`, `NeverOverbooked`, `OneBooking`, `TicketedOnce`,
`FulfilledHasTickets`, `KeepsContract`. Seats are safe because of what an unlocked
request that is about to write has counted: unless the count `raced`, it left room for
what the request asks for (`CreateInv`, `UpdateInv`). The other three rest on
`BookInv` and `PayInv`: of all payments of an intent one made the booking, and only
that one has tickets, except where a stale row made the intent forget it. `Refinement`
shows that BookingIntents implements `BookingContract`; that a fulfilment may be taken
for `Serve` or `BookAndServe`, with tickets made once, rests on `PayInv`.
`ContractGoods` shows that the contract by itself implies `OneBooking`, `TicketedOnce`
and `FulfilledHasTickets`.

`GoodsProofs`: of Refunds, `PaidBackOnce`, `PendingIsDecidable`, `UnitsBalance`,
`RefundedIsReturned`, `TakenIsReturned`. The invariant follows the copies: all copies
of a request, and all money returned for it, agree on what was selected (`KnownInv`),
associations and, until it is `redirected`, metadata name no more than that
(`AskedInv`), and its key is the first until it is written again (`KeyInv`); what is
marked as verified, in the row or in a copy, was paid (`PaidInv`). Within the workflow
there is one active request and whoever is about to close it will write the payment as
well (`TrackInv`): without that, two reviewers could leave a payment pending for ever.
`RefundsKeepContract` shows that Refunds implements `RefundContract`: asking Stripe is
a `PayBack` or answered with the refund it knows, processing is a `Take` of what
`PaidInv` and `KnownInv` say was paid for that selection or by an excused request,
PATCH excuses, and the rest moves neither money nor goods (`SettlesOnly`).
`ContractPays` shows that the contract by itself implies `PaidBackOnce`,
`UnitsBalance`, `RefundedIsReturned`, that goods are only taken for what was paid back
(`GoodsBack`) and that Stripe never returns more than was paid.

`AccessProofs`: `AdmitsOnce`, `NoStrayPermissions`, `AcceptedIsIn` of Invitations;
`CodeWithinLimit`, `InvitedIsVerified` of Memberships. The invariants say what an
acceptance in progress has done so far: an invitation that let somebody in is closed or
about to be, by the process that enrolled (`EntryInv`); permissions are given to who is
in, and not between the two steps of a removal (`PermitInv`); those the code verified
and those it is about to verify are together at most its uses (`UseInv`); who accepted is
verified or about to be (`SettledInv`).

Of Presence: `LiveIsListed`, `ViewsAgree`. Neither says anything while a handler is at
work, so the invariant says what its commands to come make up for: who is not listed,
or listed with another section, is going to be written by its own handler (`LiveInv`,
`KeptInv`); and either some handler is going to tell what is stored, or all clients
show it, or are about to, and whoever is going to send something older knows that it is
late (`AgreeInv`). The commands left of a handler are a sequence in a fixed order, so
they are as good as the set of them (`Shape`, `Behead`): the proof argues about that
set. Proving `AgreeInv` showed a case that three events did not reach: a sweep deletes
the record of a connection that a silent ping is about to write again, a broadcast
in between lacks it, and nobody is told afterwards (dashboard_presence.py:263). It is
now recorded in `missed` and within the bound of the run.

`OnSiteProofs`: `AdmittedOnce`, `RecordsAgree`, `CancelledStaysOut` of CheckIn. If the
last success in the log is an admission, `is_checked_in` says so unless a hole was used
(`SeenInv`). Unless requests overlapped or died, one desk at most is busy, and how far
it is tells which of the three rows it has written (`QuietInv`, `Phase`).
Of Workshops: `NeverOverfull`, `NoIdlePlace`, `FirstComeFirstServed`, `PlacesAreKept`.
The line holds everybody who is registered once (`LineInv`), what a clerk has read is
still so unless somebody wrote since (`ClerkInv`), and in an undisturbed workshop those
confirmed are within the capacity and, first come first served, before all who
wait (`InPlace`). `PlacesAreKept` follows from `ClerkInv` action by action: whoever a
draw or a late registration could cost a place was pending, or not there, when it was
read. `OnlyRegisteredArePassedOver` says whom the allocation by interest passes over,
for every state, line of submissions, ranking and capacity: nobody who is not registered
yet. By induction along the submissions, a workshop that was full stays full, and who
was passed over without being registered found it full. That those registered in any
status are passed over is the finding of `ranking_pending`.

`GoodsProofs`, of PurchaseLimit: `KeptWithinLimit`, which is not inductive: units of
one variant that are taken out may leave only variants with a lower limit, and that
those stay within theirs the property does not say. The invariant does, for every n:
of the variants whose limit is at most n, all orders together keep at most n units
(`LevelIn`). A request that has counted has room for what it adds unless somebody
added since (`CountInv`); of those that lock an order there is one at most
(`ShopInv`).

`AfterSaleProofs` closes the gap between the theorems, which are about one component
each, and the runs `refunds` and `after_sale`, whose module has seven: a behaviour of a run
is one of every component (`SideBySide`), since a step moves one of them and leaves the
others as they are. So `TypeOK` of the runs, a conjunction of seven type invariants, holds
(`AllTypesHold`), and with it all they check (`AfterSaleIsSafe`).

The assumptions are those stated with the constants: finite sets of intents,
attendees, members, orders and variants (there are finitely many rows), capacities and
limits that are natural numbers, baskets that are not empty (the serializer requires an
item), no member in a line or in the list of submissions twice (unique
constraints of the tables), and names that stand for nobody, nowhere and no section
differing from the others (a section is never empty, dashboard_presence.py:139).

Sums and lists are where the proofs need induction. `SetSums` opens the definition of
`MapThenSumSet`: induction is over the subsets of a finite set as a well-founded order,
for an explicit set of subsets in place of a predicate, and gives that a sum does not
depend on the order, loses or gains one term at a time, is monotonic, and is the
same for functions that agree. `OnSiteProofs` begins with the same for numbers up to
the length of a list (`UpTo`) and for functions defined along one (`Along`). Those two
recursions are functions with a domain (`Those`, `PlanFor`): the prover has no
definition of `SelectSeq` to work with.

Only model-checked: liveness (`OwingIsResolved`, `CaptureIsNoticed`,
`CartsAreReleased`), since fairness and ENABLED are out of the prover's reach. Every
invariant and action property of the runs that must pass is a theorem. No module
uses RECURSIVE operators.

## 5. Plan

Done: PaymentFulfilment, OrderHold, BookingIntents and Refunds, each with its contract,
PurchaseLimit, CheckIn, Workshops, Presence, Invitations and Memberships, each with its
proofs. Next, in this order:

1. The question builder: an unlocked reorder against an insertion, positions stay
   distinct.
2. Changes of a workshop's capacity, cancelled workshops.
3. A composition of OrderHold and PaymentFulfilment that keeps the payment of an order
   in one place, if its state space allows.

### Not modelled

- CRUD, permission checks, serializers that only validate fields, filters,
  statistics, formatters, import and export, e-mail bodies: they change one row in
  one statement or none, and are most of the lines of the source.
- Users, tokens and sessions: Django's and SimpleJWT's.
- Discounts, donations, credit and debit, bank details, Stripe Connect: arithmetic on
  money, or one status mirrored from Stripe.
- Audit rows of the stock (product.py:303 writes the quantity of a stale instance
  as the old one): a report derives from them, nothing decides on them.
- Delegation, identity links, transport, locations, sponsors: data with owners.
- Modelled, seen in the models, and not the subject of a run: staff who mark a payment
  as failed, or refuse a transfer, leave its order pending, without hold or payment and
  with its stock (viewsets/payments.py:245, 429; `Unlimited` names it); the payment
  handlers move an order to processing before they look at `orders_require_approval`
  (webhooks.py:194); the fulfilment of a booking moves on every pending order of its
  attendees, paid or not (payment_processor.py:112); an intent for more than half of the
  free seats is refused its own checkout, since its reservation is counted against it
  (booking.py:291).
- Modelled without a property that forbids it, since nothing in the repository says
  otherwise: a rejected refund gives an order back as completed whatever it was; a
  code shown when joining is not used up; a preview extends an intent without
  limit; the clean-up's soft delete after its bulk update (intent_cleanup.py:53)
  matches nothing.
