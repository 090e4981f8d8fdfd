------------------------- MODULE PaymentFulfilment -------------------------
(***************************************************************************)
(* The life of Stripe payments between the PaymentIntent at Stripe, the    *)
(* Payment row in the database and the one-time handing out of what was    *)
(* paid for (apps/payments).  Processes meet at the row in two ways:       *)
(*                                                                         *)
(*   - webhooks, reconciliation and fulfil_payment take the row lock, so   *)
(*     each is one step; the fulfilment that a completion schedules runs   *)
(*     after the commit, as a job of the same worker, and is lost if the   *)
(*     worker dies in between;                                             *)
(*   - staff endpoints and the expiry of an order's stock hold read the    *)
(*     row without locking it and write later: they hold a snapshot.  A    *)
(*     status-only write (transition_to) leaves the other columns alone, a *)
(*     plain save() writes every column of the snapshot back.              *)
(***************************************************************************)
EXTENDS Naturals, FiniteSets

CONSTANTS
    Payments,     \* Stripe payments, PENDING since their checkout
    Workers,      \* processes: web requests and Celery workers
    BatchSize,    \* payments one sweep looks at (batch_size, 100 in the code)
    MaxRequests,  \* bound: how many staff requests are ever made
    MaxCrashes    \* bound: how many workers die or roll back mid-job

ASSUME BatchAssumption == BatchSize \in Nat \ {0}
ASSUME BoundsAssumption == MaxRequests \in Nat /\ MaxCrashes \in Nat

VARIABLES
    intent,       \* state of the PaymentIntent at Stripe
    emitted,      \* events Stripe has emitted; any may arrive, in any order, again
    row,          \* the Payment row
    older,        \* <<q, p>>: row q was last saved before row p (updated_at)
    held,         \* payments whose order is open with a running stock hold
    job,          \* what each worker is in the middle of
    requests,     \* staff requests made so far
    crashes,      \* jobs lost so far
    fulfilments,  \* history: how often the goods were handed out
    overwritten,  \* history: an unlocked write hit a row changed since its read
    manual        \* history: staff decided the outcome by hand

vars == <<intent, emitted, row, older, held, job, requests, crashes,
          fulfilments, overwritten, manual>>

stripeVars  == <<intent, emitted>>
boundVars   == <<requests, crashes>>
historyVars == <<fulfilments, overwritten, manual>>

Statuses == {"DRAFTING", "PENDING", "COMPLETED", "CANCELLED", "FAILED",
             "PENDING_REFUND", "REFUNDED", "PARTIALLY_REFUNDED"}

\* Statuses of a payment whose money was accepted.
Settled == {"COMPLETED", "PENDING_REFUND", "REFUNDED", "PARTIALLY_REFUNDED"}

\* Mutation: a completed payment may still be marked as failed.
AllowedFailedAfterCompleted(status) ==
    CASE status = "PENDING"            -> {"DRAFTING", "COMPLETED", "FAILED", "CANCELLED"}
      [] status = "COMPLETED"          -> (Settled \ {"COMPLETED"}) \cup {"FAILED"}
      [] OTHER                         -> {}

\* ALLOWED_STATUS_TRANSITIONS; what has no entry there is terminal.
Allowed(status) ==
    CASE status = "DRAFTING"           -> {"PENDING"}
      [] status = "PENDING"            -> {"DRAFTING", "COMPLETED", "FAILED", "CANCELLED"}
      [] status = "COMPLETED"          -> Settled \ {"COMPLETED"}
      [] status = "PENDING_REFUND"     -> Settled \ {"PENDING_REFUND"}
      [] status = "PARTIALLY_REFUNDED" -> Settled
      [] OTHER                         -> {}

\* transition_to: asking for the current status is a no-op, not an error.
MayBecome(status, new) == new = status \/ new \in Allowed(status)

Intents == {"open", "succeeded", "canceled", "refunded"}
Events  == {"succeeded", "payment_failed", "canceled", "refunded"}

Rows == [status      : Statuses,
         fulfilledAt : BOOLEAN,            \* fulfilled_at is set
         review      : BOOLEAN,            \* metadata.requires_manual_review
         eventIds    : SUBSET Events,      \* metadata.stripe_event_ids
         charge      : BOOLEAN]            \* stripe_charge_id is set

NewRow == [status |-> "PENDING", fulfilledAt |-> FALSE, review |-> FALSE,
           eventIds |-> {}, charge |-> FALSE]

DirectOps == {"mark_completed", "mark_failed", "cancel"}
RefundOps == {"request_refund", "decide_refund"}
ExpiryOps == {"expire", "expire_intent_canceled"}

Idle == [op |-> "idle"]
FulfilJobs   == [op : {"fulfil"}, pay : Payments]
UnlockedJobs == [op : DirectOps \cup RefundOps \cup ExpiryOps,
                 pay : Payments, snap : Rows]
Jobs == {Idle} \cup FulfilJobs \cup UnlockedJobs

FulfilJob(p) == [op |-> "fulfil", pay |-> p]
UnlockedJob(op, p) == [op |-> op, pay |-> p, snap |-> row[p]]

-----------------------------------------------------------------------------
Init ==
    /\ intent = [p \in Payments |-> "open"]
    /\ emitted = [p \in Payments |-> {}]
    /\ row = [p \in Payments |-> NewRow]
    /\ older = {}
    /\ held \in SUBSET Payments        \* the other payments are for bookings
    /\ job = [w \in Workers |-> Idle]
    /\ requests = 0
    /\ crashes = 0
    /\ fulfilments = [p \in Payments |-> 0]
    /\ overwritten = [p \in Payments |-> FALSE]
    /\ manual = [p \in Payments |-> FALSE]

\* A model save() moves the row to the young end of the updated_at order;
\* a queryset update() does not.
Touch(p) == older' = (older \ ({p} \X Payments)) \cup ((Payments \ {p}) \X {p})

SetJob(w, j) == job' = [job EXCEPT ![w] = j]

-----------------------------------------------------------------------------
(* Stripe.  A declined attempt leaves the PaymentIntent open for another.   *)

Emit(p, next, event) ==
    /\ intent' = [intent EXCEPT ![p] = next]
    /\ emitted' = [emitted EXCEPT ![p] = @ \cup {event}]

StripeStep(p, from, to, event) ==
    /\ intent[p] = from
    /\ Emit(p, to, event)
    /\ UNCHANGED <<row, older, held, job, boundVars, historyVars>>

Decline(p)      == StripeStep(p, "open", "open", "payment_failed")
Capture(p)      == StripeStep(p, "open", "succeeded", "succeeded")
CancelIntent(p) == StripeStep(p, "open", "canceled", "canceled")
RefundCharge(p) == StripeStep(p, "succeeded", "refunded", "refunded")

-----------------------------------------------------------------------------
(* Webhook handlers: one transaction under the row lock.  A refused         *)
(* transition raises, the transaction rolls back and Stripe delivers again. *)

\* Save row p as r under the row lock; the worker goes on with job j.
LockedSave(w, p, r, j) ==
    /\ row' = [row EXCEPT ![p] = r]
    /\ Touch(p)
    /\ SetJob(w, j)
    /\ UNCHANGED <<stripeVars, boundVars, historyVars>>

\* An expiry keeps the order row locked until it ends; whoever moves the
\* order on (or cancels it) waits for that, and ends the hold.
OrderLocked(p) == \E v \in Workers : job[v].op \in ExpiryOps /\ job[v].pay = p

EndHold(p) == ~OrderLocked(p) /\ held' = held \ {p}

Fresh(w, p, event) ==
    /\ job[w] = Idle
    /\ event \in emitted[p]
    /\ event \notin row[p].eventIds
    /\ EndHold(p)

\* Mutation: the payment is looked up by its charge, which is not known yet.
SucceededEventByCharge(w, p) ==
    /\ row[p].charge
    /\ Fresh(w, p, "succeeded")
    /\ row[p].status = "PENDING"
    /\ LockedSave(w, p, [row[p] EXCEPT !.status = "COMPLETED"], FulfilJob(p))

SucceededEvent(w, p) ==
    /\ Fresh(w, p, "succeeded")
    /\ row[p].status # "COMPLETED"
    /\ "COMPLETED" \in Allowed(row[p].status)
    /\ LockedSave(w, p,
                  [row[p] EXCEPT !.status = "COMPLETED", !.charge = TRUE,
                                 !.eventIds = @ \cup {"succeeded"}],
                  FulfilJob(p))

PaymentFailedEvent(w, p) ==
    /\ Fresh(w, p, "payment_failed")
    /\ row[p].status # "FAILED"
    /\ "FAILED" \in Allowed(row[p].status)
    /\ LockedSave(w, p,
                  [row[p] EXCEPT !.status = "FAILED",
                                 !.eventIds = @ \cup {"payment_failed"}],
                  Idle)

\* Mutation: Stripe's spelling of the status is stored.
CanceledEventStripeSpelling(w, p) ==
    /\ Fresh(w, p, "canceled")
    /\ "CANCELLED" \in Allowed(row[p].status)
    /\ LockedSave(w, p, [row[p] EXCEPT !.status = "CANCELED"], Idle)

CanceledEvent(w, p) ==
    /\ Fresh(w, p, "canceled")
    /\ row[p].status # "CANCELLED"
    /\ "CANCELLED" \in Allowed(row[p].status)
    /\ LockedSave(w, p,
                  [row[p] EXCEPT !.status = "CANCELLED",
                                 !.eventIds = @ \cup {"canceled"}],
                  Idle)

\* A full refund whose payload carries no expanded refund objects.  It finds
\* the payment by its charge, records no event id, and passes through
\* PENDING_REFUND.
RefundedEvent(w, p) ==
    /\ job[w] = Idle
    /\ "refunded" \in emitted[p]
    /\ row[p].charge
    /\ row[p].status # "REFUNDED"
    /\ MayBecome(row[p].status, "PENDING_REFUND")
    /\ LockedSave(w, p, [row[p] EXCEPT !.status = "REFUNDED"], Idle)
    /\ UNCHANGED held

\* Mutation: an intent still open counts as paid.
ReconcileUnpaid(w, p) ==
    /\ job[w] = Idle
    /\ intent[p] # "canceled"
    /\ "COMPLETED" \in Allowed(row[p].status)
    /\ LockedSave(w, p, [row[p] EXCEPT !.status = "COMPLETED"], FulfilJob(p))
    /\ UNCHANGED held

\* reconcile_stripe_payment asks Stripe for the intent while holding the lock.
\* (Its "processing" branch only leaves DRAFTING, which no payment here is in.)
Reconcile(w, p) ==
    /\ job[w] = Idle
    /\ row[p].status \notin {"COMPLETED", "REFUNDED", "CANCELLED"}
    /\ \/ /\ intent[p] \in {"succeeded", "refunded"}
          /\ "COMPLETED" \in Allowed(row[p].status)
          /\ LockedSave(w, p,
                        [row[p] EXCEPT !.status = "COMPLETED", !.charge = TRUE],
                        FulfilJob(p))
       \/ /\ intent[p] = "canceled"
          /\ "CANCELLED" \in Allowed(row[p].status)
          /\ LockedSave(w, p, [row[p] EXCEPT !.status = "CANCELLED"], Idle)
    /\ UNCHANGED held

-----------------------------------------------------------------------------
(* Fulfilment: fulfil_payment, run by the worker that completed the payment *)
(* after its commit, or by the sweeper.                                     *)

\* Mutation: the fulfilled_at marker is not looked at.
OwingWithoutMarker(p) == row[p].status = "COMPLETED"

Owing(p) == row[p].status = "COMPLETED" /\ ~row[p].fulfilledAt

\* What was paid for is handed out; an order leaves its hold.
HandOut(p) ==
    /\ EndHold(p)
    /\ row' = [row EXCEPT ![p].fulfilledAt = TRUE]
    /\ fulfilments' = [fulfilments EXCEPT ![p] = @ + 1]

\* Mutation: a failed fulfilment is stamped like a successful one.
FlagAndStamp(p) ==
    /\ row' = [row EXCEPT ![p].review = TRUE, ![p].fulfilledAt = TRUE]
    /\ UNCHANGED <<held, fulfilments>>

FlagForReview(p) ==
    /\ row' = [row EXCEPT ![p].review = TRUE]
    /\ UNCHANGED <<held, fulfilments>>

\* _run_fulfilment works in a savepoint: it succeeds, or it raises and only
\* the review flag is written.  Neither write touches updated_at.
Fulfil(w, p) ==
    /\ job[w] = FulfilJob(p)
    /\ SetJob(w, Idle)
    /\ \/ Owing(p) /\ HandOut(p)
       \/ Owing(p) /\ FlagForReview(p)
       \/ ~Owing(p) /\ UNCHANGED <<row, held, fulfilments>>
    /\ UNCHANGED <<stripeVars, older, boundVars, overwritten, manual>>

\* Mutation: the batch is cut one short.
BatchOneShort == {p \in Payments :
    Owing(p) /\ Cardinality({q \in Payments : Owing(q) /\ <<q, p>> \in older}) < BatchSize - 1}

\* The candidates of one sweep: the BatchSize owing payments saved longest ago.
Batch == {p \in Payments :
            /\ Owing(p)
            /\ Cardinality({q \in Payments : Owing(q) /\ <<q, p>> \in older}) < BatchSize}

\* The sweeper skips flagged candidates only after the batch is cut.
Sweep(w, p) ==
    /\ job[w] = Idle
    /\ p \in Batch
    /\ ~row[p].review
    /\ SetJob(w, FulfilJob(p))
    /\ UNCHANGED <<stripeVars, row, older, held, boundVars, historyVars>>

\* Staff clear metadata.requires_manual_review (outside the modelled code).
ClearReview(p) ==
    /\ row[p].review
    /\ row' = [row EXCEPT ![p].review = FALSE]
    /\ UNCHANGED <<stripeVars, older, held, job, boundVars, historyVars>>

-----------------------------------------------------------------------------
(* Requests that read the row, decide, and write it later without a lock.   *)

MayRequest(op, status) ==
    \/ op \in DirectOps /\ status = "PENDING"
    \/ op = "request_refund" /\ status \in {"COMPLETED", "PARTIALLY_REFUNDED"}
    \/ op = "decide_refund" /\ status \in {"PENDING_REFUND", "PARTIALLY_REFUNDED"}

\* get_object() and the check on what it returned.
ReadRow(w, p, op) ==
    /\ job[w] = Idle
    /\ requests < MaxRequests
    /\ MayRequest(op, row[p].status)
    /\ requests' = requests + 1
    /\ SetJob(w, UnlockedJob(op, p))
    /\ UNCHANGED <<stripeVars, row, older, held, crashes, historyVars>>

\* transition_to: save(update_fields=['status', 'updated_at']).
SaveStatus(p, snap, new) ==
    /\ row' = [row EXCEPT ![p].status = new]
    /\ overwritten' = [overwritten EXCEPT ![p] = @ \/ row[p].status # snap.status]
    /\ Touch(p)

\* save(): every column of the snapshot goes back to the database.
SaveRow(p, snap, new) ==
    /\ row' = [row EXCEPT ![p] = [snap EXCEPT !.status = new]]
    /\ overwritten' = [overwritten EXCEPT ![p] = @ \/ row[p] # snap]
    /\ Touch(p)

\* mark_completed runs outside a transaction: the fulfilment it schedules
\* runs at once, in the same request.
MarkCompleted(w, p) ==
    /\ job[w].op = "mark_completed" /\ job[w].pay = p
    /\ SaveStatus(p, job[w].snap, "COMPLETED")
    /\ manual' = [manual EXCEPT ![p] = TRUE]
    /\ SetJob(w, FulfilJob(p))
    /\ UNCHANGED <<stripeVars, held, boundVars, fulfilments>>

\* mark_failed and cancel assign the status and save the whole row; cancel
\* also cancels the order, in the same transaction.
MarkLost(w, p, op, new) ==
    /\ job[w].op = op /\ job[w].pay = p
    /\ SaveRow(p, job[w].snap, new)
    /\ manual' = [manual EXCEPT ![p] = TRUE]
    /\ SetJob(w, Idle)
    /\ UNCHANGED <<stripeVars, boundVars, fulfilments>>

MarkFailed(w, p) ==
    /\ MarkLost(w, p, "mark_failed", "FAILED")
    /\ UNCHANGED held

Cancel(w, p) ==
    /\ MarkLost(w, p, "cancel", "CANCELLED")
    /\ EndHold(p)

RefundStatus(w, p, op, new) ==
    /\ job[w].op = op /\ job[w].pay = p
    /\ new \in Allowed(job[w].snap.status)
    /\ SaveStatus(p, job[w].snap, new)
    /\ SetJob(w, Idle)
    /\ UNCHANGED <<stripeVars, held, boundVars, fulfilments, manual>>

RequestRefund(w, p) == RefundStatus(w, p, "request_refund", "PENDING_REFUND")

\* verify, process and reject of a refund request.
DecideRefund(w, p) ==
    \E new \in Settled : RefundStatus(w, p, "decide_refund", new)

-----------------------------------------------------------------------------
(* Expiry of the stock hold of the payment's order: one transaction that    *)
(* locks the order (so one expiry per payment at a time) but not the        *)
(* payment, cancels the PaymentIntent at Stripe, then saves the payment.    *)

ExpireRead(w, p) ==
    /\ job[w] = Idle
    /\ p \in held
    /\ ~OrderLocked(p)
    /\ row[p].status # "COMPLETED"
    /\ SetJob(w, UnlockedJob("expire", p))
    /\ UNCHANGED <<stripeVars, row, older, held, boundVars, historyVars>>

\* The order of a completed payment just loses its time limit.
ExpireClearHold(w, p) ==
    /\ job[w] = Idle
    /\ p \in held
    /\ row[p].status = "COMPLETED"
    /\ EndHold(p)
    /\ UNCHANGED <<stripeVars, row, older, job, boundVars, historyVars>>

ExpireCancelIntent(w, p) ==
    /\ job[w].op = "expire" /\ job[w].pay = p
    /\ intent[p] = "open"
    /\ Emit(p, "canceled", "canceled")
    /\ SetJob(w, [job[w] EXCEPT !.op = "expire_intent_canceled"])
    /\ UNCHANGED <<row, older, held, boundVars, historyVars>>

\* Mutation: the expiry goes on although Stripe refused to cancel the intent.
ExpireRegardless(w, p) ==
    /\ job[w].op = "expire" /\ job[w].pay = p
    /\ intent[p] # "open"
    /\ SetJob(w, [job[w] EXCEPT !.op = "expire_intent_canceled"])
    /\ UNCHANGED <<stripeVars, row, older, held, boundVars, historyVars>>

\* Stripe refuses to cancel the intent: the expiry is put off.
ExpirePostpone(w, p) ==
    /\ job[w].op = "expire" /\ job[w].pay = p
    /\ intent[p] # "open"
    /\ SetJob(w, Idle)
    /\ UNCHANGED <<stripeVars, row, older, held, boundVars, historyVars>>

ExpireSave(w, p) ==
    /\ job[w].op = "expire_intent_canceled" /\ job[w].pay = p
    /\ IF job[w].snap.status \in {"DRAFTING", "PENDING"}
       THEN SaveRow(p, job[w].snap, "CANCELLED")
       ELSE UNCHANGED <<row, older, overwritten>>
    /\ held' = held \ {p}
    /\ SetJob(w, Idle)
    /\ UNCHANGED <<stripeVars, boundVars, fulfilments, manual>>

-----------------------------------------------------------------------------
\* The worker dies, or its transaction is rolled back (deadlock, failed
\* follow-up): its job is gone, what it did at Stripe stays done.
Crash(w) ==
    /\ job[w] # Idle
    /\ crashes < MaxCrashes
    /\ crashes' = crashes + 1
    /\ SetJob(w, Idle)
    /\ UNCHANGED <<stripeVars, row, older, held, requests, historyVars>>

Environment(p) ==
    Decline(p) \/ Capture(p) \/ CancelIntent(p) \/ RefundCharge(p) \/ ClearReview(p)

Webhook(w, p) ==
    \/ SucceededEvent(w, p) \/ PaymentFailedEvent(w, p)
    \/ CanceledEvent(w, p)  \/ RefundedEvent(w, p)

Request(w, p) ==
    \/ \E op \in DirectOps \cup RefundOps : ReadRow(w, p, op)
    \/ MarkCompleted(w, p) \/ MarkFailed(w, p) \/ Cancel(w, p)
    \/ RequestRefund(w, p) \/ DecideRefund(w, p)

Expiry(w, p) ==
    \/ ExpireRead(w, p) \/ ExpireClearHold(w, p)
    \/ ExpireCancelIntent(w, p) \/ ExpirePostpone(w, p) \/ ExpireSave(w, p)

Next ==
    \/ \E p \in Payments : Environment(p)
    \/ \E w \in Workers, p \in Payments :
          \/ Webhook(w, p) \/ Reconcile(w, p)
          \/ Fulfil(w, p) \/ Sweep(w, p)
          \/ Request(w, p) \/ Expiry(w, p)
    \/ \E w \in Workers : Crash(w)

Spec == Init /\ [][Next]_vars

\* A worker finishes the job it has unless it dies; Stripe redelivers an
\* event until it is accepted; the sweeper runs again and again, whatever else
\* the workers do in between.
WorkerProgress(w, p) ==
    \/ Fulfil(w, p)
    \/ MarkCompleted(w, p) \/ MarkFailed(w, p) \/ Cancel(w, p)
    \/ RequestRefund(w, p) \/ DecideRefund(w, p)
    \/ ExpireCancelIntent(w, p) \/ ExpirePostpone(w, p) \/ ExpireSave(w, p)

Fairness ==
    /\ \A w \in Workers : WF_vars(\E p \in Payments : WorkerProgress(w, p))
    /\ \A p \in Payments : SF_vars(\E w \in Workers : SucceededEvent(w, p))
    /\ \A p \in Payments : SF_vars(\E w \in Workers : Sweep(w, p))

FairSpec == Spec /\ Fairness

-----------------------------------------------------------------------------
(* Properties.                                                              *)

\* Every variable keeps its shape.
TypeOK ==
    /\ intent \in [Payments -> Intents]
    /\ emitted \in [Payments -> SUBSET Events]
    /\ row \in [Payments -> Rows]
    /\ older \subseteq Payments \X Payments
    /\ held \subseteq Payments
    /\ job \in [Workers -> Jobs]
    /\ requests \in 0..MaxRequests
    /\ crashes \in 0..MaxCrashes
    /\ fulfilments \in [Payments -> Nat]
    /\ overwritten \in [Payments -> BOOLEAN]
    /\ manual \in [Payments -> BOOLEAN]

Captured(p) == intent[p] \in {"succeeded", "refunded"}

\* fulfil_payment hands out the goods of a payment at most once (completion.py
\* 73-110), whatever webhooks, reconciliation, sweeps and staff race for it,
\* as long as no request wrote over a row that changed after it was read.
ExactlyOnce ==
    \A p \in Payments : ~overwritten[p] => fulfilments[p] <= 1

\* Goods handed out are never left behind by a payment that counts as unpaid,
\* failed or cancelled, with the same exception.
FulfilledStaysSettled ==
    \A p \in Payments :
        ~overwritten[p] /\ fulfilments[p] > 0 => row[p].status \in Settled

\* A payment nobody settled by hand has an accepted status only if Stripe
\* captured the money: late, duplicated and reordered webhooks, a replayed
\* event and refund requests on stale rows never invent a payment.
SettledIsCaptured ==
    \A p \in Payments :
        ~manual[p] /\ row[p].status \in Settled => Captured(p)

\* Order.expire cancels the PaymentIntent before it cancels the payment "instead
\* of risking a paid cancelled order" (products/models/orders.py 330-346): the
\* money of a payment cancelled by the system was never captured, although
\* the row is read before and written after the call to Stripe.
CancelledIsNotCaptured ==
    \A p \in Payments :
        ~manual[p] /\ row[p].status = "CANCELLED" => ~Captured(p)

\* Every completed payment whose goods are owed is served, flagged for
\* review, or no longer completed: a worker that dies between commit and
\* on_commit only delays it (completion.py 17-19).
OwingIsResolved ==
    \A p \in Payments : Owing(p) ~> (~Owing(p) \/ row[p].review)

\* Money captured for a payment still pending is noticed.
CaptureIsNoticed ==
    \A p \in Payments :
        (Captured(p) /\ row[p].status = "PENDING") ~> row[p].status # "PENDING"

\* The promise of FulfilmentContract.tla, with rows mapped to phases.
Phase(p) ==
    CASE overwritten[p]                              -> "excused"
      [] ~overwritten[p] /\ row[p].fulfilledAt       -> "fulfilled"
      [] ~overwritten[p] /\ ~row[p].fulfilledAt /\ row[p].status \in Settled -> "owed"
      [] ~overwritten[p] /\ ~row[p].fulfilledAt
            /\ row[p].status \in {"FAILED", "CANCELLED"} -> "void"
      [] OTHER                                       -> "unpaid"

Contract == INSTANCE FulfilmentContract
                WITH phase <- [p \in Payments |-> Phase(p)],
                     delivered <- fulfilments

KeepsContract == Contract!ContractSpec

-----------------------------------------------------------------------------
(* What the code says of itself and does not keep.                          *)

\* completion.py 75: "Run post-completion processing for a COMPLETED payment,
\* exactly once."
FulfilledExactlyOnce == \A p \in Payments : fulfilments[p] <= 1

\* webhooks.py 89: "Mark Payment as COMPLETED when PaymentIntent succeeds."
\* A payment that Stripe captured and nobody touched by hand becomes COMPLETED.
SucceededIsCompleted ==
    \A p \in Payments :
        Captured(p) ~> (manual[p] \/ row[p].status \in Settled)
=============================================================================
