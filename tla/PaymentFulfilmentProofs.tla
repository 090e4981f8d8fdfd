---------------------- MODULE PaymentFulfilmentProofs ----------------------
(***************************************************************************)
(* Proofs about PaymentFulfilment for any number of payments, workers,     *)
(* staff requests and crashes: the safety invariants of the run            *)
(* payment_fulfilment, and that the module keeps FulfilmentContract.       *)
(***************************************************************************)
EXTENDS PaymentFulfilment, TLAPS

\* The stamp in the row and the history agree until the row is overwritten,
\* and only settled rows carry a stamp.
StampInv ==
    \A p \in Payments : ~overwritten[p] =>
        /\ fulfilments[p] = IF row[p].fulfilledAt THEN 1 ELSE 0
        /\ row[p].fulfilledAt => row[p].status \in Settled

\* What Stripe said stays true at Stripe.
StripeInv ==
    \A p \in Payments :
        /\ emitted[p] \cap {"succeeded", "refunded"} # {} => Captured(p)
        /\ "canceled" \in emitted[p] => intent[p] = "canceled"

\* What a row says of the money is true at Stripe, unless staff said it.
MoneyInv ==
    \A p \in Payments : ~manual[p] =>
        /\ row[p].status \in Settled => Captured(p)
        /\ row[p].status = "CANCELLED" => intent[p] = "canceled"

\* What a worker may rely on although it holds no lock on the payment.
JobInv ==
    \A w \in Workers :
        /\ job[w].op \in DirectOps => job[w].snap.status = "PENDING"
        /\ job[w].op \in RefundOps =>
              /\ job[w].snap.status \in Settled
              /\ manual[job[w].pay] \/ Captured(job[w].pay)
        /\ job[w].op = "expire_intent_canceled" => intent[job[w].pay] = "canceled"

IInv == TypeOK /\ StampInv /\ StripeInv /\ MoneyInv /\ JobInv

-----------------------------------------------------------------------------
(* Lemmas about the transition table and the jobs.                          *)

LEMMA AllowedFacts ==
    ASSUME NEW s \in Statuses
    PROVE  /\ Allowed(s) \subseteq Statuses
           /\ "COMPLETED" \in Allowed(s) => s \in {"PENDING", "PENDING_REFUND", "PARTIALLY_REFUNDED"}
           /\ "FAILED" \in Allowed(s) => s = "PENDING"
           /\ "CANCELLED" \in Allowed(s) => s = "PENDING"
           /\ s \in Settled => Allowed(s) \subseteq Settled
           /\ MayBecome(s, "PENDING_REFUND") => s \in Settled
BY DEF Allowed, MayBecome, Statuses, Settled

LEMMA JobFields ==
    ASSUME NEW j \in Jobs
    PROVE  /\ j.op = "fulfil" => j.pay \in Payments
           /\ j.op \in DirectOps \cup RefundOps \cup ExpiryOps =>
                 /\ j.pay \in Payments
                 /\ j.snap \in Rows
                 /\ j.snap.status \in Statuses
                 /\ j.snap.fulfilledAt \in BOOLEAN
           /\ j # Idle => j.pay \in Payments
BY DEF Jobs, Idle, FulfilJobs, UnlockedJobs, DirectOps, RefundOps, ExpiryOps, Rows

LEMMA JobShapes ==
    /\ Idle \in Jobs
    /\ \A p \in Payments : FulfilJob(p) \in Jobs
    /\ \A op \in DirectOps \cup RefundOps \cup ExpiryOps, p \in Payments :
          row[p] \in Rows => UnlockedJob(op, p) \in Jobs
BY DEF Jobs, Idle, FulfilJobs, FulfilJob, UnlockedJobs, UnlockedJob

LEMMA RowFields ==
    ASSUME NEW r \in Rows
    PROVE  /\ r.status \in Statuses /\ r.fulfilledAt \in BOOLEAN
           /\ \A s \in Statuses : [r EXCEPT !.status = s] \in Rows
BY DEF Rows

LEMMA RowFlags ==
    ASSUME NEW r \in Rows, NEW b \in BOOLEAN
    PROVE  [r EXCEPT !.fulfilledAt = b] \in Rows /\ [r EXCEPT !.review = b] \in Rows
<1>1. [r EXCEPT !.fulfilledAt = b] \in Rows
  BY DEF Rows
<1>2. [r EXCEPT !.review = b] \in Rows
  BY DEF Rows
<1> QED
  BY <1>1, <1>2

-----------------------------------------------------------------------------
(* Type correctness.                                                        *)

LEMMA TypeInit == Init => TypeOK
BY BoundsAssumption
DEF Init, TypeOK, Intents, NewRow, Rows, Statuses, Jobs, Idle

LEMMA TypeStep == TypeOK /\ [Next]_vars => TypeOK'
<1> SUFFICES ASSUME TypeOK, [Next]_vars PROVE TypeOK'
  OBVIOUS
<1> USE BoundsAssumption
<1>0. CASE UNCHANGED vars
  BY <1>0 DEF vars, TypeOK
<1>1. ASSUME NEW p \in Payments, Environment(p) PROVE TypeOK'
  <2>1. CASE Decline(p)
    BY <2>1 DEF TypeOK, Decline, StripeStep, Emit, boundVars, historyVars, Intents, Events
  <2>2. CASE Capture(p)
    BY <2>2 DEF TypeOK, Capture, StripeStep, Emit, boundVars, historyVars, Intents, Events
  <2>3. CASE CancelIntent(p)
    BY <2>3 DEF TypeOK, CancelIntent, StripeStep, Emit, boundVars, historyVars, Intents, Events
  <2>4. CASE RefundCharge(p)
    BY <2>4 DEF TypeOK, RefundCharge, StripeStep, Emit, boundVars, historyVars, Intents, Events
  <2>5. CASE ClearReview(p)
    <3>1. [row[p] EXCEPT !.review = FALSE] \in Rows
      BY RowFlags DEF TypeOK
    <3> QED
      BY <2>5, <3>1 DEF TypeOK, ClearReview, stripeVars, boundVars, historyVars
  <2> QED
    BY <1>1, <2>1, <2>2, <2>3, <2>4, <2>5 DEF Environment
<1>2. ASSUME NEW w \in Workers, NEW p \in Payments, NEW r \in Rows, NEW j \in Jobs,
             LockedSave(w, p, r, j), held' \subseteq Payments
      PROVE  TypeOK'
  BY <1>2 DEF TypeOK, LockedSave, Touch, SetJob, stripeVars, boundVars, historyVars
<1>3. ASSUME NEW w \in Workers, NEW p \in Payments, Webhook(w, p) PROVE TypeOK'
  <2>0. row[p] \in Rows /\ held \subseteq Payments
    BY DEF TypeOK
  <2>1. CASE SucceededEvent(w, p)
    <3>1. [row[p] EXCEPT !.status = "COMPLETED", !.charge = TRUE,
                         !.eventIds = @ \cup {"succeeded"}] \in Rows
      BY <2>0 DEF Rows, Statuses, Events
    <3> QED
      BY <2>0, <2>1, <3>1, <1>2, JobShapes DEF SucceededEvent, Fresh, EndHold
  <2>2. CASE PaymentFailedEvent(w, p)
    <3>1. [row[p] EXCEPT !.status = "FAILED",
                         !.eventIds = @ \cup {"payment_failed"}] \in Rows
      BY <2>0 DEF Rows, Statuses, Events
    <3> QED
      BY <2>0, <2>2, <3>1, <1>2, JobShapes DEF PaymentFailedEvent, Fresh, EndHold
  <2>3. CASE CanceledEvent(w, p)
    <3>1. [row[p] EXCEPT !.status = "CANCELLED",
                         !.eventIds = @ \cup {"canceled"}] \in Rows
      BY <2>0 DEF Rows, Statuses, Events
    <3> QED
      BY <2>0, <2>3, <3>1, <1>2, JobShapes DEF CanceledEvent, Fresh, EndHold
  <2>4. CASE RefundedEvent(w, p)
    <3>1. [row[p] EXCEPT !.status = "REFUNDED"] \in Rows
      BY <2>0 DEF Rows, Statuses
    <3> QED
      BY <2>0, <2>4, <3>1, <1>2, JobShapes DEF RefundedEvent
  <2> QED
    BY <1>3, <2>1, <2>2, <2>3, <2>4 DEF Webhook
<1>4. ASSUME NEW w \in Workers, NEW p \in Payments, Reconcile(w, p) PROVE TypeOK'
  <2>0. row[p] \in Rows /\ held' \subseteq Payments
    BY <1>4 DEF TypeOK, Reconcile
  <2>1. [row[p] EXCEPT !.status = "COMPLETED", !.charge = TRUE] \in Rows
    BY <2>0 DEF Rows, Statuses
  <2>2. [row[p] EXCEPT !.status = "CANCELLED"] \in Rows
    BY <2>0 DEF Rows, Statuses
  <2> QED
    BY <1>2, <1>4, <2>0, <2>1, <2>2, JobShapes DEF Reconcile
<1>5. ASSUME NEW w \in Workers, NEW p \in Payments, Fulfil(w, p) PROVE TypeOK'
  <2>1. [row[p] EXCEPT !.fulfilledAt = TRUE] \in Rows
        /\ [row[p] EXCEPT !.review = TRUE] \in Rows
    BY RowFlags DEF TypeOK
  <2>2. job' \in [Workers -> Jobs]
    BY <1>5, JobShapes DEF TypeOK, Fulfil, SetJob
  <2>3. row' \in [Payments -> Rows] /\ held' \subseteq Payments
        /\ fulfilments' \in [Payments -> Nat]
    <3>1. CASE Owing(p) /\ HandOut(p)
      BY <3>1, <2>1 DEF TypeOK, HandOut, EndHold
    <3>2. CASE Owing(p) /\ FlagForReview(p)
      BY <3>2, <2>1 DEF TypeOK, FlagForReview
    <3>3. CASE UNCHANGED <<row, held, fulfilments>>
      BY <3>3 DEF TypeOK
    <3> QED
      BY <1>5, <3>1, <3>2, <3>3 DEF Fulfil
  <2> QED
    BY <1>5, <2>2, <2>3 DEF TypeOK, Fulfil, stripeVars, boundVars
<1>6. ASSUME NEW w \in Workers, NEW p \in Payments, Sweep(w, p) PROVE TypeOK'
  BY <1>6, JobShapes DEF TypeOK, Sweep, SetJob, stripeVars, boundVars, historyVars
<1>7. ASSUME NEW w \in Workers, NEW p \in Payments, NEW snap \in Rows,
             NEW new \in Statuses, NEW j \in Jobs,
             SaveStatus(p, snap, new) \/ SaveRow(p, snap, new),
             SetJob(w, j), held' \subseteq Payments,
             manual' \in [Payments -> BOOLEAN],
             UNCHANGED <<stripeVars, boundVars, fulfilments>>
      PROVE  TypeOK'
  <2>1. row' \in [Payments -> Rows]
    BY <1>7, RowFields DEF TypeOK, SaveStatus, SaveRow
  <2>2. overwritten' \in [Payments -> BOOLEAN]
    BY <1>7 DEF TypeOK, SaveStatus, SaveRow
  <2> QED
    BY <1>7, <2>1, <2>2
    DEF TypeOK, SaveStatus, SaveRow, Touch, SetJob, stripeVars, boundVars
<1>8. ASSUME NEW w \in Workers, NEW p \in Payments, Request(w, p) PROVE TypeOK'
  <2>0. job[w] \in Jobs /\ held \subseteq Payments /\ manual \in [Payments -> BOOLEAN]
    BY DEF TypeOK
  <2>1. ASSUME NEW op \in DirectOps \cup RefundOps, ReadRow(w, p, op) PROVE TypeOK'
    BY <2>1, JobShapes
    DEF TypeOK, ReadRow, SetJob, stripeVars, historyVars
  <2>2. CASE MarkCompleted(w, p)
    <3>1. job[w].snap \in Rows
      BY <2>0, <2>2, JobFields DEF MarkCompleted, DirectOps
    <3> QED
      BY <1>7, <2>0, <2>2, <3>1, JobShapes DEF MarkCompleted, Statuses
  <2>3. CASE MarkFailed(w, p)
    <3>1. job[w].snap \in Rows
      BY <2>0, <2>3, JobFields DEF MarkFailed, MarkLost, DirectOps
    <3> QED
      BY <1>7, <2>0, <2>3, <3>1, JobShapes DEF MarkFailed, MarkLost, Statuses
  <2>4. CASE Cancel(w, p)
    <3>1. job[w].snap \in Rows
      BY <2>0, <2>4, JobFields DEF Cancel, MarkLost, DirectOps
    <3> QED
      BY <1>7, <2>0, <2>4, <3>1, JobShapes DEF Cancel, MarkLost, EndHold, Statuses
  <2>5. ASSUME NEW op \in RefundOps, NEW new \in Statuses, RefundStatus(w, p, op, new)
        PROVE  TypeOK'
    <3>1. job[w].snap \in Rows
      BY <2>0, <2>5, JobFields DEF RefundStatus
    <3> QED
      BY <1>7, <2>0, <2>5, <3>1, JobShapes DEF RefundStatus
  <2> QED
    BY <1>8, <2>1, <2>2, <2>3, <2>4, <2>5
    DEF Request, RequestRefund, DecideRefund, RefundOps, Statuses, Settled
<1>9. ASSUME NEW w \in Workers, NEW p \in Payments, Expiry(w, p) PROVE TypeOK'
  <2>0. job[w] \in Jobs /\ held \subseteq Payments /\ manual \in [Payments -> BOOLEAN]
    BY DEF TypeOK
  <2>1. CASE ExpireRead(w, p)
    BY <2>1, JobShapes
    DEF TypeOK, ExpireRead, SetJob, stripeVars, boundVars, historyVars, ExpiryOps
  <2>2. CASE ExpireClearHold(w, p)
    BY <2>2 DEF TypeOK, ExpireClearHold, EndHold, stripeVars, boundVars, historyVars
  <2>3. CASE ExpireCancelIntent(w, p)
    <3>1. [job[w] EXCEPT !.op = "expire_intent_canceled"] \in Jobs
      BY <2>0, <2>3
      DEF ExpireCancelIntent, Jobs, Idle, FulfilJobs, UnlockedJobs, ExpiryOps
    <3> QED
      BY <2>3, <3>1
      DEF TypeOK, ExpireCancelIntent, Emit, SetJob, boundVars, historyVars, Intents, Events
  <2>4. CASE ExpirePostpone(w, p)
    BY <2>4, JobShapes
    DEF TypeOK, ExpirePostpone, SetJob, stripeVars, boundVars, historyVars
  <2>5. CASE ExpireSave(w, p)
    <3>1. job[w].snap \in Rows
      BY <2>0, <2>5, JobFields DEF ExpireSave, ExpiryOps
    <3>2. CASE job[w].snap.status \in {"DRAFTING", "PENDING"}
      BY <1>7, <2>0, <2>5, <3>1, <3>2, JobShapes DEF ExpireSave, Statuses
    <3>3. CASE job[w].snap.status \notin {"DRAFTING", "PENDING"}
      BY <2>5, <3>3, JobShapes DEF TypeOK, ExpireSave, SetJob, stripeVars, boundVars
    <3> QED
      BY <3>2, <3>3
  <2> QED
    BY <1>9, <2>1, <2>2, <2>3, <2>4, <2>5 DEF Expiry
<1>10. ASSUME NEW w \in Workers, Crash(w) PROVE TypeOK'
  BY <1>10, JobShapes
  DEF TypeOK, Crash, SetJob, stripeVars, historyVars
<1> QED
  BY <1>0, <1>1, <1>3, <1>4, <1>5, <1>6, <1>8, <1>9, <1>10 DEF Next

\* Every step keeps the shape of every variable.
THEOREM TypeCorrect == Spec => []TypeOK
BY TypeInit, TypeStep, PTL DEF Spec

-----------------------------------------------------------------------------
(* The inductive invariant.                                                 *)

LEMMA InvInit == Init => IInv
<1> SUFFICES ASSUME Init PROVE IInv
  OBVIOUS
<1>1. TypeOK
  BY TypeInit
<1>2. StampInv /\ MoneyInv
  BY DEF Init, StampInv, MoneyInv, NewRow, Settled
<1>3. StripeInv /\ JobInv
  BY DEF Init, StripeInv, JobInv, Idle, DirectOps, RefundOps
<1> QED
  BY <1>1, <1>2, <1>3 DEF IInv

\* Only fulfil_payment sets the stamp, and it counts; a write that is not
\* excused keeps it together with a settled status.
LEMMA StampStep == IInv /\ [Next]_vars => StampInv'
<1> SUFFICES ASSUME IInv, [Next]_vars PROVE StampInv'
  OBVIOUS
<1> USE DEF IInv
<1>1. CASE UNCHANGED <<row, fulfilments, overwritten>>
  BY <1>1 DEF StampInv
<1>2. ASSUME NEW p \in Payments, NEW r \in Rows,
             row' = [row EXCEPT ![p] = r], UNCHANGED <<fulfilments, overwritten>>,
             r.fulfilledAt = row[p].fulfilledAt,
             row[p].status \in Settled => r.status \in Settled
      PROVE  StampInv'
  <2> SUFFICES ASSUME NEW q \in Payments, ~overwritten'[q]
               PROVE  /\ fulfilments'[q] = IF row'[q].fulfilledAt THEN 1 ELSE 0
                      /\ row'[q].fulfilledAt => row'[q].status \in Settled
    BY DEF StampInv
  <2> QED
    BY <1>2 DEF StampInv, TypeOK
<1>3. ASSUME NEW p \in Payments, HandOut(p), Owing(p), UNCHANGED overwritten
      PROVE  StampInv'
  <2> SUFFICES ASSUME NEW q \in Payments, ~overwritten'[q]
               PROVE  /\ fulfilments'[q] = IF row'[q].fulfilledAt THEN 1 ELSE 0
                      /\ row'[q].fulfilledAt => row'[q].status \in Settled
    BY DEF StampInv
  <2>1. row[p] \in Rows
    BY DEF TypeOK
  <2>2. CASE q = p
    BY <1>3, <2>1, <2>2 DEF StampInv, TypeOK, HandOut, Owing, Settled, Rows
  <2>3. CASE q # p
    BY <1>3, <2>3 DEF StampInv, TypeOK, HandOut
  <2> QED
    BY <2>2, <2>3
<1>4. ASSUME NEW p \in Payments, NEW snap \in Rows, NEW new \in Statuses,
             SaveStatus(p, snap, new) \/ SaveRow(p, snap, new),
             snap.status \in Settled => new \in Settled,
             UNCHANGED fulfilments
      PROVE  StampInv'
  <2> SUFFICES ASSUME NEW q \in Payments, ~overwritten'[q]
               PROVE  /\ fulfilments'[q] = IF row'[q].fulfilledAt THEN 1 ELSE 0
                      /\ row'[q].fulfilledAt => row'[q].status \in Settled
    BY DEF StampInv
  <2>1. row[p] \in Rows
    BY DEF TypeOK
  <2>2. ~overwritten[q]
    BY <1>4 DEF SaveStatus, SaveRow, TypeOK
  <2>3. CASE q = p
    <3>1. row[p].status = snap.status
      BY <1>4, <2>3 DEF SaveStatus, SaveRow, TypeOK
    <3>2. row'[p].fulfilledAt = row[p].fulfilledAt /\ row'[p].status = new
      BY <1>4, <2>1, <2>3 DEF SaveStatus, SaveRow, TypeOK, Rows
    <3> QED
      BY <1>4, <2>2, <2>3, <3>1, <3>2 DEF StampInv
  <2>4. CASE q # p
    BY <1>4, <2>2, <2>4 DEF SaveStatus, SaveRow, StampInv, TypeOK
  <2> QED
    BY <2>3, <2>4
<1>5. ASSUME NEW p \in Payments, Environment(p) PROVE StampInv'
  <2>1. CASE ClearReview(p)
    <3>1. row[p] \in Rows /\ [row[p] EXCEPT !.review = FALSE] \in Rows
      BY RowFlags DEF TypeOK
    <3> QED
      BY <1>2, <2>1, <3>1 DEF ClearReview, historyVars, Rows
  <2> QED
    BY <1>1, <1>5, <2>1
    DEF Environment, Decline, Capture, CancelIntent, RefundCharge, StripeStep, historyVars
<1>6. ASSUME NEW w \in Workers, NEW p \in Payments, Webhook(w, p) \/ Reconcile(w, p)
      PROVE  StampInv'
  <2>0. row[p] \in Rows /\ row[p].status \in Statuses
    BY RowFields DEF TypeOK
  <2>1. CASE SucceededEvent(w, p)
    <3> DEFINE r == [row[p] EXCEPT !.status = "COMPLETED", !.charge = TRUE,
                                   !.eventIds = @ \cup {"succeeded"}]
    <3>1. r \in Rows /\ r.fulfilledAt = row[p].fulfilledAt /\ r.status \in Settled
      BY <2>0 DEF Rows, Statuses, Events, Settled
    <3> QED
      BY <1>2, <2>1, <3>1 DEF SucceededEvent, LockedSave, historyVars
  <2>2. CASE PaymentFailedEvent(w, p)
    <3> DEFINE r == [row[p] EXCEPT !.status = "FAILED",
                                   !.eventIds = @ \cup {"payment_failed"}]
    <3>1. r \in Rows /\ r.fulfilledAt = row[p].fulfilledAt
      BY <2>0 DEF Rows, Statuses, Events
    <3>2. row[p].status \notin Settled
      BY <2>0, <2>2, AllowedFacts DEF PaymentFailedEvent, Settled
    <3> QED
      BY <1>2, <2>2, <3>1, <3>2 DEF PaymentFailedEvent, LockedSave, historyVars
  <2>3. CASE CanceledEvent(w, p)
    <3> DEFINE r == [row[p] EXCEPT !.status = "CANCELLED",
                                   !.eventIds = @ \cup {"canceled"}]
    <3>1. r \in Rows /\ r.fulfilledAt = row[p].fulfilledAt
      BY <2>0 DEF Rows, Statuses, Events
    <3>2. row[p].status \notin Settled
      BY <2>0, <2>3, AllowedFacts DEF CanceledEvent, Settled
    <3> QED
      BY <1>2, <2>3, <3>1, <3>2 DEF CanceledEvent, LockedSave, historyVars
  <2>4. CASE RefundedEvent(w, p)
    <3> DEFINE r == [row[p] EXCEPT !.status = "REFUNDED"]
    <3>1. r \in Rows /\ r.fulfilledAt = row[p].fulfilledAt /\ r.status \in Settled
      BY <2>0 DEF Rows, Statuses, Settled
    <3> QED
      BY <1>2, <2>4, <3>1 DEF RefundedEvent, LockedSave, historyVars
  <2>5. CASE Reconcile(w, p)
    <3> DEFINE r == [row[p] EXCEPT !.status = "COMPLETED", !.charge = TRUE]
               c == [row[p] EXCEPT !.status = "CANCELLED"]
    <3>1. r \in Rows /\ r.fulfilledAt = row[p].fulfilledAt /\ r.status \in Settled
      BY <2>0 DEF Rows, Statuses, Settled
    <3>2. c \in Rows /\ c.fulfilledAt = row[p].fulfilledAt
      BY <2>0 DEF Rows, Statuses
    <3>3. CASE row' = [row EXCEPT ![p] = r]
      BY <1>2, <2>5, <3>1, <3>3 DEF Reconcile, LockedSave, historyVars
    <3>4. CASE row' = [row EXCEPT ![p] = c] /\ "CANCELLED" \in Allowed(row[p].status)
      <4>1. row[p].status \notin Settled
        BY <2>0, <3>4, AllowedFacts DEF Settled
      <4> QED
        BY <1>2, <2>5, <3>2, <3>4, <4>1 DEF Reconcile, LockedSave, historyVars
    <3> QED
      BY <2>5, <3>3, <3>4 DEF Reconcile, LockedSave
  <2> QED
    BY <1>6, <2>1, <2>2, <2>3, <2>4, <2>5 DEF Webhook
<1>7. ASSUME NEW w \in Workers, NEW p \in Payments, Fulfil(w, p) PROVE StampInv'
  <2>1. CASE Owing(p) /\ HandOut(p)
    BY <1>3, <1>7, <2>1 DEF Fulfil
  <2>2. CASE Owing(p) /\ FlagForReview(p)
    <3>1. row[p] \in Rows /\ [row[p] EXCEPT !.review = TRUE] \in Rows
      BY DEF TypeOK, Rows
    <3> QED
      BY <1>2, <1>7, <2>2, <3>1 DEF Fulfil, FlagForReview, Rows
  <2> QED
    BY <1>1, <1>7, <2>1, <2>2 DEF Fulfil
<1>8. ASSUME NEW w \in Workers, NEW p \in Payments, Request(w, p) PROVE StampInv'
  <2>0. job[w] \in Jobs
    BY DEF TypeOK
  <2>1. ASSUME NEW op \in DirectOps \cup RefundOps, ReadRow(w, p, op) PROVE StampInv'
    BY <1>1, <2>1 DEF ReadRow, historyVars
  <2>2. CASE MarkCompleted(w, p)
    BY <1>4, <2>0, <2>2, JobFields DEF MarkCompleted, DirectOps, Statuses, Settled
  <2>3. CASE MarkFailed(w, p) \/ Cancel(w, p)
    <3>1. job[w].op \in DirectOps /\ job[w].snap \in Rows
      BY <2>0, <2>3, JobFields DEF MarkFailed, Cancel, MarkLost, DirectOps
    <3>2. job[w].snap.status \notin Settled
      BY <3>1 DEF JobInv, Settled
    <3> QED
      BY <1>4, <2>3, <3>1, <3>2 DEF MarkFailed, Cancel, MarkLost, Statuses
  <2>4. ASSUME NEW op \in RefundOps, NEW new \in Statuses, RefundStatus(w, p, op, new)
        PROVE  StampInv'
    <3>1. job[w].snap \in Rows /\ job[w].snap.status \in Statuses
      BY <2>0, <2>4, JobFields DEF RefundStatus
    <3>2. job[w].snap.status \in Settled => new \in Settled
      BY <2>4, <3>1, AllowedFacts DEF RefundStatus
    <3> QED
      BY <1>4, <2>4, <3>1, <3>2 DEF RefundStatus
  <2> QED
    BY <1>8, <2>1, <2>2, <2>3, <2>4
    DEF Request, RequestRefund, DecideRefund, RefundOps, Statuses, Settled
<1>9. ASSUME NEW w \in Workers, NEW p \in Payments, Expiry(w, p) PROVE StampInv'
  <2>1. CASE ExpireSave(w, p) /\ job[w].snap.status \in {"DRAFTING", "PENDING"}
    <3>1. job[w].snap \in Rows
      BY <2>1, JobFields DEF ExpireSave, ExpiryOps, TypeOK
    <3> QED
      BY <1>4, <2>1, <3>1 DEF ExpireSave, Statuses, Settled
  <2> QED
    BY <1>1, <1>9, <2>1
    DEF Expiry, ExpireRead, ExpireClearHold, ExpireCancelIntent, ExpirePostpone,
        ExpireSave, historyVars
<1> QED
  BY <1>1, <1>5, <1>6, <1>7, <1>8, <1>9 DEF Next, vars, Sweep, Crash, historyVars

\* The PaymentIntent only moves along open, succeeded, refunded or from open
\* to canceled, and an event is emitted as it moves.
LEMMA IntentStep ==
    ASSUME TypeOK, [Next]_vars, NEW p \in Payments
    PROVE  /\ Captured(p) => Captured(p)'
           /\ intent[p] = "canceled" => intent'[p] = "canceled"
           /\ \A e \in emitted'[p] \ emitted[p] :
                 /\ e \in {"succeeded", "refunded"} => Captured(p)'
                 /\ e = "canceled" => intent'[p] = "canceled"
<1>0. CASE UNCHANGED stripeVars
  BY <1>0 DEF stripeVars, Captured
<1>1. ASSUME NEW q \in Payments, NEW from \in Intents, NEW to \in Intents, NEW e \in Events,
             intent[q] = from, Emit(q, to, e),
             <<from, to, e>> \in {<<"open", "open", "payment_failed">>,
                                  <<"open", "succeeded", "succeeded">>,
                                  <<"open", "canceled", "canceled">>,
                                  <<"succeeded", "refunded", "refunded">>}
      PROVE  /\ Captured(p) => Captured(p)'
             /\ intent[p] = "canceled" => intent'[p] = "canceled"
             /\ \A x \in emitted'[p] \ emitted[p] :
                   /\ x \in {"succeeded", "refunded"} => Captured(p)'
                   /\ x = "canceled" => intent'[p] = "canceled"
  <2>1. CASE p = q
    BY <1>1, <2>1 DEF TypeOK, Emit, Captured
  <2>2. CASE p # q
    BY <1>1, <2>2 DEF TypeOK, Emit, Captured
  <2> QED
    BY <2>1, <2>2
<1>2. ASSUME NEW q \in Payments, Environment(q)
      PROVE  \/ UNCHANGED stripeVars
             \/ \E from \in Intents, to \in Intents, e \in Events :
                   /\ intent[q] = from /\ Emit(q, to, e)
                   /\ <<from, to, e>> \in {<<"open", "open", "payment_failed">>,
                                           <<"open", "succeeded", "succeeded">>,
                                           <<"open", "canceled", "canceled">>,
                                           <<"succeeded", "refunded", "refunded">>}
  BY <1>2
  DEF Environment, Decline, Capture, CancelIntent, RefundCharge, ClearReview,
      StripeStep, Intents, Events
<1>3. ASSUME NEW w \in Workers, NEW q \in Payments, Expiry(w, q)
      PROVE  \/ UNCHANGED stripeVars
             \/ intent[q] = "open" /\ Emit(q, "canceled", "canceled")
  BY <1>3
  DEF Expiry, ExpireRead, ExpireClearHold, ExpireCancelIntent, ExpirePostpone, ExpireSave
<1>4. ASSUME NEW w \in Workers, NEW q \in Payments,
             \/ Webhook(w, q) \/ Reconcile(w, q) \/ Fulfil(w, q) \/ Sweep(w, q)
             \/ Request(w, q) \/ Crash(w)
      PROVE  UNCHANGED stripeVars
  BY <1>4
  DEF Webhook, SucceededEvent, PaymentFailedEvent, CanceledEvent, RefundedEvent,
      Reconcile, LockedSave, Fulfil, Sweep, Request, ReadRow, MarkCompleted,
      MarkFailed, Cancel, MarkLost, RequestRefund, DecideRefund, RefundStatus, Crash
<1> QED
  BY <1>0, <1>1, <1>2, <1>3, <1>4 DEF Next, vars, stripeVars, Intents, Events

LEMMA StripeInvStep == IInv /\ [Next]_vars => StripeInv'
<1> SUFFICES ASSUME IInv, [Next]_vars, NEW p \in Payments
             PROVE  /\ (emitted[p] \cap {"succeeded", "refunded"} # {})' => Captured(p)'
                    /\ "canceled" \in emitted'[p] => intent'[p] = "canceled"
  BY DEF StripeInv
<1> QED
  BY IntentStep DEF IInv, StripeInv

\* Staff decisions are never forgotten.
LEMMA ManualStep ==
    ASSUME TypeOK, [Next]_vars, NEW p \in Payments
    PROVE  manual[p] => manual'[p]
<1>1. ASSUME NEW q \in Payments, manual' = [manual EXCEPT ![q] = TRUE]
      PROVE  manual[p] => manual'[p]
  BY <1>1 DEF TypeOK
<1>2. ASSUME NEW w \in Workers, NEW q \in Payments, Request(w, q)
      PROVE  UNCHANGED manual \/ manual' = [manual EXCEPT ![q] = TRUE]
  BY <1>2
  DEF Request, ReadRow, MarkCompleted, MarkFailed, Cancel, MarkLost, RequestRefund,
      DecideRefund, RefundStatus, historyVars
<1>3. ASSUME NEW q \in Payments, Environment(q) PROVE UNCHANGED manual
  BY <1>3
  DEF Environment, Decline, Capture, CancelIntent, RefundCharge, StripeStep,
      ClearReview, historyVars
<1>4. ASSUME NEW w \in Workers, NEW q \in Payments,
             \/ Webhook(w, q) \/ Reconcile(w, q) \/ Fulfil(w, q) \/ Sweep(w, q)
             \/ Expiry(w, q) \/ Crash(w)
      PROVE  UNCHANGED manual
  BY <1>4
  DEF Webhook, SucceededEvent, PaymentFailedEvent, CanceledEvent, RefundedEvent,
      Reconcile, LockedSave, Fulfil, Sweep, Expiry, ExpireRead, ExpireClearHold,
      ExpireCancelIntent, ExpirePostpone, ExpireSave, Crash, historyVars
<1> QED
  BY <1>1, <1>2, <1>3, <1>4 DEF Next, vars

\* A worker's job is new, ended, or went from asking Stripe to saving.
LEMMA JobInvStep == IInv /\ [Next]_vars => JobInv'
<1> SUFFICES ASSUME IInv, [Next]_vars PROVE JobInv'
  OBVIOUS
<1> USE DEF IInv
<1> DEFINE Kept(j) ==
      /\ j.op \in DirectOps => j.snap.status = "PENDING"
      /\ j.op \in RefundOps =>
            /\ j.snap.status \in Settled
            /\ manual'[j.pay] \/ intent'[j.pay] \in {"succeeded", "refunded"}
      /\ j.op = "expire_intent_canceled" => intent'[j.pay] = "canceled"
<1>1. ASSUME NEW w \in Workers PROVE Kept(job[w])
  <2>1. job[w] \in Jobs
    BY DEF TypeOK
  <2>2. job[w].op \in DirectOps \cup RefundOps \cup ExpiryOps => job[w].pay \in Payments
    BY <2>1, JobFields
  <2> QED
    BY <2>2, IntentStep, ManualStep DEF JobInv, ExpiryOps, Captured
<1>2. Kept(Idle) /\ \A p \in Payments : Kept(FulfilJob(p))
  BY DEF Idle, FulfilJob, DirectOps, RefundOps
<1>3. ASSUME NEW w \in Workers, NEW j \in Jobs, SetJob(w, j), Kept(j) PROVE JobInv'
  <2> SUFFICES ASSUME NEW v \in Workers PROVE Kept(job'[v])
    BY DEF JobInv, Captured
  <2> QED
    BY <1>1, <1>3 DEF SetJob, TypeOK
<1>4. CASE UNCHANGED job
  BY <1>1, <1>4 DEF JobInv, Captured
<1>5. ASSUME NEW w \in Workers, NEW p \in Payments,
             SetJob(w, Idle) \/ SetJob(w, FulfilJob(p))
      PROVE  JobInv'
  BY <1>2, <1>3, <1>5, JobShapes
<1>6. ASSUME NEW w \in Workers, NEW p \in Payments, NEW op \in DirectOps \cup RefundOps,
             ReadRow(w, p, op)
      PROVE  JobInv'
  <2>1. row[p] \in Rows /\ UnlockedJob(op, p) \in Jobs
    BY JobShapes DEF TypeOK
  <2>2. op \in RefundOps => row[p].status \in Settled /\ op \notin DirectOps
    BY <1>6 DEF ReadRow, MayRequest, RefundOps, DirectOps, Settled
  <2>3. op \in DirectOps => row[p].status = "PENDING"
    BY <1>6 DEF ReadRow, MayRequest, DirectOps
  <2>4. row[p].status \in Settled =>
           manual'[p] \/ intent'[p] \in {"succeeded", "refunded"}
    BY IntentStep, ManualStep DEF MoneyInv, Captured
  <2>5. Kept(UnlockedJob(op, p))
    BY <2>2, <2>3, <2>4 DEF UnlockedJob, DirectOps, RefundOps
  <2> QED
    BY <1>3, <1>6, <2>1, <2>5 DEF ReadRow
<1>7. ASSUME NEW w \in Workers, NEW p \in Payments, ExpireRead(w, p) PROVE JobInv'
  <2>1. UnlockedJob("expire", p) \in Jobs
    BY JobShapes DEF TypeOK, ExpiryOps
  <2>2. Kept(UnlockedJob("expire", p))
    BY DEF UnlockedJob, DirectOps, RefundOps
  <2> QED
    BY <1>3, <1>7, <2>1, <2>2 DEF ExpireRead
<1>8. ASSUME NEW w \in Workers, NEW p \in Payments, ExpireCancelIntent(w, p) PROVE JobInv'
  <2> DEFINE j == [job[w] EXCEPT !.op = "expire_intent_canceled"]
  <2>0. job[w] \in UnlockedJobs
    BY <1>8 DEF ExpireCancelIntent, TypeOK, Jobs, Idle, FulfilJobs
  <2>1. j \in Jobs /\ j.op = "expire_intent_canceled" /\ j.pay = p
    BY <1>8, <2>0 DEF ExpireCancelIntent, UnlockedJobs, Jobs, ExpiryOps
  <2>2. intent'[p] = "canceled"
    BY <1>8 DEF ExpireCancelIntent, Emit, TypeOK
  <2>3. Kept(j)
    BY <2>1, <2>2 DEF DirectOps, RefundOps
  <2> QED
    BY <1>3, <1>8, <2>1, <2>3 DEF ExpireCancelIntent
<1>9. ASSUME NEW p \in Payments, Environment(p) PROVE JobInv'
  BY <1>4, <1>9
  DEF Environment, Decline, Capture, CancelIntent, RefundCharge, StripeStep, ClearReview
<1>10. ASSUME NEW w \in Workers, NEW p \in Payments,
              \/ Webhook(w, p) \/ Reconcile(w, p) \/ Fulfil(w, p) \/ Sweep(w, p)
              \/ MarkCompleted(w, p) \/ MarkFailed(w, p) \/ Cancel(w, p)
              \/ RequestRefund(w, p) \/ DecideRefund(w, p)
              \/ ExpirePostpone(w, p) \/ ExpireSave(w, p)
       PROVE  JobInv'
  BY <1>5, <1>10
  DEF Webhook, SucceededEvent, PaymentFailedEvent, CanceledEvent, RefundedEvent,
      Reconcile, LockedSave, Fulfil, Sweep, MarkCompleted, MarkFailed, Cancel, MarkLost,
      RequestRefund, DecideRefund, RefundStatus, ExpirePostpone, ExpireSave
<1>11. ASSUME NEW w \in Workers, NEW p \in Payments, ExpireClearHold(w, p) PROVE JobInv'
  BY <1>4, <1>11 DEF ExpireClearHold
<1>12. ASSUME NEW w \in Workers, Crash(w) PROVE JobInv'
  BY <1>2, <1>3, <1>12, JobShapes DEF Crash
<1> QED
  BY <1>4, <1>6, <1>7, <1>8, <1>9, <1>10, <1>11, <1>12 DEF Next, vars, Request, Expiry

\* A row is settled because Stripe said succeeded (or staff said so), and
\* cancelled because the intent is.
LEMMA MoneyStep == IInv /\ [Next]_vars => MoneyInv'
<1> SUFFICES ASSUME IInv, [Next]_vars PROVE MoneyInv'
  OBVIOUS
<1> USE DEF IInv
<1> DEFINE True(p, status) ==
      \/ manual'[p]
      \/ /\ status \in Settled => intent'[p] \in {"succeeded", "refunded"}
         /\ status = "CANCELLED" => intent'[p] = "canceled"
<1>1. ASSUME NEW p \in Payments PROVE True(p, row[p].status)
  BY IntentStep, ManualStep DEF MoneyInv, Captured
<1>2. CASE UNCHANGED row
  BY <1>1, <1>2 DEF MoneyInv, Captured
<1>3. ASSUME NEW p \in Payments, NEW r \in Rows, row' = [row EXCEPT ![p] = r],
             True(p, r.status)
      PROVE  MoneyInv'
  <2> SUFFICES ASSUME NEW q \in Payments PROVE True(q, row'[q].status)
    BY DEF MoneyInv, Captured
  <2> QED
    BY <1>1, <1>3 DEF TypeOK
<1>4. ASSUME NEW p \in Payments, NEW snap \in Rows, NEW new \in Statuses,
             SaveStatus(p, snap, new) \/ SaveRow(p, snap, new), True(p, new)
      PROVE  MoneyInv'
  <2> DEFINE r == [row[p] EXCEPT !.status = new]
             s == [snap EXCEPT !.status = new]
  <2>1. r \in Rows /\ r.status = new /\ s \in Rows /\ s.status = new
    <3>1. row[p] \in Rows
      BY DEF TypeOK
    <3>2. r \in Rows /\ s \in Rows
      BY <3>1, RowFields
    <3>3. r.status = new
      BY <3>1 DEF Rows
    <3>4. s.status = new
      BY DEF Rows
    <3> QED
      BY <3>2, <3>3, <3>4
  <2>2. row' = [row EXCEPT ![p] = r] \/ row' = [row EXCEPT ![p] = s]
    BY <1>4 DEF SaveStatus, SaveRow
  <2> QED
    BY <1>3, <1>4, <2>1, <2>2
<1>5. ASSUME NEW p \in Payments, Environment(p) PROVE MoneyInv'
  <2>1. CASE ClearReview(p)
    <3> DEFINE r == [row[p] EXCEPT !.review = FALSE]
    <3>1. r \in Rows /\ r.status = row[p].status
      BY DEF TypeOK, Rows
    <3> QED
      BY <1>1, <1>3, <2>1, <3>1 DEF ClearReview
  <2> QED
    BY <1>2, <1>5, <2>1
    DEF Environment, Decline, Capture, CancelIntent, RefundCharge, StripeStep
<1>6. ASSUME NEW w \in Workers, NEW p \in Payments, Webhook(w, p) \/ Reconcile(w, p)
      PROVE  MoneyInv'
  <2>0. row[p] \in Rows /\ row[p].status \in Statuses
    BY RowFields DEF TypeOK
  <2>1. ASSUME NEW e \in emitted[p]
        PROVE  /\ e \in {"succeeded", "refunded"} => True(p, "COMPLETED") /\ True(p, "REFUNDED")
               /\ e = "canceled" => True(p, "CANCELLED")
    BY IntentStep DEF StripeInv, Captured, Settled
  <2>2. CASE SucceededEvent(w, p)
    <3> DEFINE r == [row[p] EXCEPT !.status = "COMPLETED", !.charge = TRUE,
                                   !.eventIds = @ \cup {"succeeded"}]
    <3>1. r \in Rows /\ r.status = "COMPLETED"
      BY <2>0 DEF Rows, Statuses, Events
    <3>2. "succeeded" \in emitted[p] /\ row' = [row EXCEPT ![p] = r]
      BY <2>2 DEF SucceededEvent, Fresh, LockedSave
    <3> QED
      BY <1>3, <2>1, <3>1, <3>2
  <2>3. CASE PaymentFailedEvent(w, p)
    <3> DEFINE r == [row[p] EXCEPT !.status = "FAILED",
                                   !.eventIds = @ \cup {"payment_failed"}]
    <3>1. r \in Rows /\ r.status = "FAILED"
      BY <2>0 DEF Rows, Statuses, Events
    <3>2. row' = [row EXCEPT ![p] = r]
      BY <2>3 DEF PaymentFailedEvent, LockedSave
    <3> QED
      BY <1>3, <3>1, <3>2 DEF Settled
  <2>4. CASE CanceledEvent(w, p)
    <3> DEFINE r == [row[p] EXCEPT !.status = "CANCELLED",
                                   !.eventIds = @ \cup {"canceled"}]
    <3>1. r \in Rows /\ r.status = "CANCELLED"
      BY <2>0 DEF Rows, Statuses, Events
    <3>2. "canceled" \in emitted[p] /\ row' = [row EXCEPT ![p] = r]
      BY <2>4 DEF CanceledEvent, Fresh, LockedSave
    <3> QED
      BY <1>3, <2>1, <3>1, <3>2
  <2>5. CASE RefundedEvent(w, p)
    <3> DEFINE r == [row[p] EXCEPT !.status = "REFUNDED"]
    <3>1. r \in Rows /\ r.status = "REFUNDED"
      BY <2>0 DEF Rows, Statuses
    <3>2. "refunded" \in emitted[p] /\ row' = [row EXCEPT ![p] = r]
      BY <2>5 DEF RefundedEvent, LockedSave
    <3> QED
      BY <1>3, <2>1, <3>1, <3>2
  <2>6. CASE Reconcile(w, p)
    <3> DEFINE r == [row[p] EXCEPT !.status = "COMPLETED", !.charge = TRUE]
               c == [row[p] EXCEPT !.status = "CANCELLED"]
    <3>1. r \in Rows /\ r.status = "COMPLETED" /\ c \in Rows /\ c.status = "CANCELLED"
      BY <2>0 DEF Rows, Statuses
    <3>2. \/ row' = [row EXCEPT ![p] = r] /\ intent'[p] \in {"succeeded", "refunded"}
          \/ row' = [row EXCEPT ![p] = c] /\ intent'[p] = "canceled"
      BY <2>6 DEF Reconcile, LockedSave, stripeVars
    <3> QED
      BY <1>3, <3>1, <3>2 DEF Settled
  <2> QED
    BY <1>6, <2>2, <2>3, <2>4, <2>5, <2>6 DEF Webhook
<1>7. ASSUME NEW w \in Workers, NEW p \in Payments, Fulfil(w, p) PROVE MoneyInv'
  <2> DEFINE h == [row[p] EXCEPT !.fulfilledAt = TRUE]
             f == [row[p] EXCEPT !.review = TRUE]
  <2>1. h \in Rows /\ h.status = row[p].status /\ f \in Rows /\ f.status = row[p].status
    BY DEF TypeOK, Rows
  <2>2. UNCHANGED row \/ row' = [row EXCEPT ![p] = h] \/ row' = [row EXCEPT ![p] = f]
    BY <1>7 DEF Fulfil, HandOut, FlagForReview
  <2> QED
    BY <1>1, <1>2, <1>3, <2>1, <2>2
<1>8. ASSUME NEW w \in Workers, NEW p \in Payments, Request(w, p) PROVE MoneyInv'
  <2>0. job[w] \in Jobs
    BY DEF TypeOK
  <2>1. ASSUME NEW op \in DirectOps \cup RefundOps, ReadRow(w, p, op) PROVE MoneyInv'
    BY <1>2, <2>1 DEF ReadRow
  <2>2. CASE MarkCompleted(w, p) \/ MarkFailed(w, p) \/ Cancel(w, p)
    <3>1. job[w].snap \in Rows
      BY <2>0, <2>2, JobFields DEF MarkCompleted, MarkFailed, Cancel, MarkLost, DirectOps
    <3>2. manual'[p]
      BY <2>2 DEF MarkCompleted, MarkFailed, Cancel, MarkLost, TypeOK
    <3> QED
      BY <1>4, <2>2, <3>1, <3>2
      DEF MarkCompleted, MarkFailed, Cancel, MarkLost, Statuses
  <2>3. ASSUME NEW op \in RefundOps, NEW new \in Statuses, RefundStatus(w, p, op, new)
        PROVE  MoneyInv'
    <3>1. job[w].snap \in Rows /\ job[w].snap.status \in Statuses /\ job[w].op \in RefundOps
          /\ job[w].pay = p
      BY <2>0, <2>3, JobFields DEF RefundStatus
    <3>2. job[w].snap.status \in Settled /\ (manual[p] \/ Captured(p))
      BY <3>1 DEF JobInv
    <3>3. new # "CANCELLED"
      BY <2>3, <3>1, <3>2, AllowedFacts DEF RefundStatus, Settled
    <3>4. True(p, new)
      BY <3>2, <3>3, IntentStep, ManualStep DEF Captured
    <3> QED
      BY <1>4, <2>3, <3>1, <3>4 DEF RefundStatus
  <2> QED
    BY <1>8, <2>1, <2>2, <2>3
    DEF Request, RequestRefund, DecideRefund, RefundOps, Statuses, Settled
<1>9. ASSUME NEW w \in Workers, NEW p \in Payments, Expiry(w, p) PROVE MoneyInv'
  <2>1. CASE ExpireSave(w, p) /\ job[w].snap.status \in {"DRAFTING", "PENDING"}
    <3>1. job[w].snap \in Rows
      BY <2>1, JobFields DEF ExpireSave, ExpiryOps, TypeOK
    <3>2. intent'[p] = "canceled"
      BY <2>1 DEF ExpireSave, JobInv, stripeVars
    <3> QED
      BY <1>4, <2>1, <3>1, <3>2 DEF ExpireSave, Statuses, Settled
  <2> QED
    BY <1>2, <1>9, <2>1
    DEF Expiry, ExpireRead, ExpireClearHold, ExpireCancelIntent, ExpirePostpone, ExpireSave
<1> QED
  BY <1>2, <1>5, <1>6, <1>7, <1>8, <1>9 DEF Next, vars, Sweep, Crash

\* Rows, stamps, money at Stripe and the snapshots workers hold stay consistent
\* under webhooks, sweeps, staff requests, expiries and crashes.
THEOREM Invariant == Spec => []IInv
<1>1. IInv /\ [Next]_vars => IInv'
  BY TypeStep, StampStep, StripeInvStep, MoneyStep, JobInvStep DEF IInv
<1> QED
  BY InvInit, <1>1, PTL DEF Spec

\* Goods are handed out at most once unless a request wrote over a changed row.
THEOREM HandedOutOnce == Spec => []ExactlyOnce
<1>1. IInv => ExactlyOnce
  BY DEF IInv, StampInv, ExactlyOnce
<1> QED
  BY Invariant, <1>1, PTL

\* With the same exception, handed-out goods belong to an accepted payment.
THEOREM HandedOutIsSettled == Spec => []FulfilledStaysSettled
<1>1. IInv => FulfilledStaysSettled
  BY DEF IInv, StampInv, FulfilledStaysSettled
<1> QED
  BY Invariant, <1>1, PTL

\* No payment is accepted that Stripe did not capture or staff accept.
THEOREM AcceptedIsCaptured == Spec => []SettledIsCaptured
<1>1. IInv => SettledIsCaptured
  BY DEF IInv, MoneyInv, SettledIsCaptured
<1> QED
  BY Invariant, <1>1, PTL

\* The system never cancels a payment whose money was captured.
THEOREM NeverCancelsPaid == Spec => []CancelledIsNotCaptured
<1>1. IInv => CancelledIsNotCaptured
  BY DEF IInv, MoneyInv, CancelledIsNotCaptured, Captured
<1> QED
  BY Invariant, <1>1, PTL

-----------------------------------------------------------------------------
(* The module keeps FulfilmentContract.                                     *)

LEMMA ContractInitially == Init => Contract!ContractInit
BY DEF Init, NewRow, Phase, Settled, Contract!ContractInit

\* A step that changes the row of one payment is a step of the contract as
\* soon as its phase moves as the contract allows.
LEMMA PhaseMove ==
    ASSUME NEW p \in Payments, TypeOK,
           \A q \in Payments \ {p} :
              row'[q] = row[q] /\ overwritten'[q] = overwritten[q],
           UNCHANGED fulfilments,
           \/ Phase(p)' = Phase(p)
           \/ Phase(p) = "unpaid" /\ Phase(p)' \in {"owed", "void"}
           \/ Phase(p)' = "excused"
    PROVE  [Contract!ContractNext]_(Contract!contractVars)
<1> DEFINE phase == [q \in Payments |-> Phase(q)]
<1>1. \A q \in Payments \ {p} : Phase(q)' = Phase(q)
  BY DEF Phase
<1>2. phase' = [phase EXCEPT ![p] = Phase(p)']
  BY <1>1
<1>3. CASE Phase(p)' = Phase(p)
  <2>1. phase' = phase
    BY <1>2, <1>3
  <2> QED
    BY <2>1 DEF Contract!contractVars
<1>4. CASE Phase(p) = "unpaid" /\ Phase(p)' = "owed"
  BY <1>2, <1>4 DEF Contract!ContractNext, Contract!Accept, Contract!Advance
<1>5. CASE Phase(p) = "unpaid" /\ Phase(p)' = "void"
  BY <1>2, <1>5 DEF Contract!ContractNext, Contract!Refuse, Contract!Advance
<1>6. CASE Phase(p) # "excused" /\ Phase(p)' = "excused"
  BY <1>2, <1>6 DEF Contract!ContractNext, Contract!Excuse
<1> QED
  BY <1>3, <1>4, <1>5, <1>6

\* What the phase of a payment is, by cases.
LEMMA PhaseCases ==
    ASSUME NEW p \in Payments, TypeOK
    PROVE  /\ overwritten[p] => Phase(p) = "excused"
           /\ ~overwritten[p] /\ row[p].fulfilledAt => Phase(p) = "fulfilled"
           /\ ~overwritten[p] /\ ~row[p].fulfilledAt =>
                 /\ row[p].status \in Settled => Phase(p) = "owed"
                 /\ row[p].status \in {"FAILED", "CANCELLED"} => Phase(p) = "void"
                 /\ row[p].status \in {"DRAFTING", "PENDING"} => Phase(p) = "unpaid"
BY DEF Phase, TypeOK, Settled

LEMMA ContractStep == IInv /\ IInv' /\ [Next]_vars => [Contract!ContractNext]_(Contract!contractVars)
<1> SUFFICES ASSUME IInv, IInv', [Next]_vars
             PROVE  [Contract!ContractNext]_(Contract!contractVars)
  OBVIOUS
<1> USE DEF IInv
<1>1. CASE UNCHANGED <<row, fulfilments, overwritten>>
  BY <1>1 DEF Contract!contractVars, Phase
<1>2. ASSUME NEW p \in Payments, NEW r \in Rows,
             row' = [row EXCEPT ![p] = r], UNCHANGED <<fulfilments, overwritten>>,
             r.fulfilledAt = row[p].fulfilledAt,
             \/ r.status \in Settled /\ row[p].status \in Settled \cup {"DRAFTING", "PENDING"}
             \/ r.status \in {"FAILED", "CANCELLED"} /\ row[p].status = "PENDING"
             \/ r.status = row[p].status
      PROVE  [Contract!ContractNext]_(Contract!contractVars)
  <2>1. row'[p] = r /\ \A q \in Payments \ {p} : row'[q] = row[q]
    BY <1>2 DEF TypeOK
  <2>2. row[p].status \in Statuses /\ (row[p].fulfilledAt /\ ~overwritten[p] => row[p].status \in Settled)
    BY RowFields DEF TypeOK, StampInv
  <2>3. Phase(p)' = Phase(p) \/ (Phase(p) = "unpaid" /\ Phase(p)' \in {"owed", "void"})
    BY <1>2, <2>1, <2>2, PhaseCases DEF Phase, Settled
  <2> QED
    BY <1>2, <2>1, <2>3, PhaseMove
<1>3. ASSUME NEW p \in Payments, HandOut(p), Owing(p), UNCHANGED overwritten
      PROVE  [Contract!ContractNext]_(Contract!contractVars)
  <2> DEFINE phase == [q \in Payments |-> Phase(q)]
  <2>1. row'[p].fulfilledAt /\ \A q \in Payments \ {p} : row'[q] = row[q]
    BY <1>3 DEF HandOut, TypeOK, Rows
  <2>2. \A q \in Payments \ {p} : Phase(q)' = Phase(q)
    BY <1>3, <2>1 DEF Phase
  <2>3. fulfilments' = [fulfilments EXCEPT ![p] = @ + 1]
    BY <1>3 DEF HandOut
  <2>4. CASE overwritten[p]
    <3>1. Phase(p) = "excused" /\ Phase(p)' = "excused"
      BY <1>3, <2>4 DEF Phase
    <3>2. phase' = phase
      BY <2>2, <3>1
    <3> QED
      BY <2>3, <3>1, <3>2 DEF Contract!ContractNext, Contract!Unbound
  <2>5. CASE ~overwritten[p]
    <3>1. Phase(p) = "owed"
      BY <1>3, <2>5, PhaseCases DEF Owing, TypeOK, Settled
    <3>2. Phase(p)' = "fulfilled"
      BY <1>3, <2>1, <2>5 DEF Phase
    <3>3. phase' = [phase EXCEPT ![p] = "fulfilled"]
      BY <2>2, <3>2
    <3> QED
      BY <2>3, <3>1, <3>3 DEF Contract!ContractNext, Contract!Deliver
  <2> QED
    BY <2>4, <2>5 DEF TypeOK
<1>4. ASSUME NEW p \in Payments, NEW snap \in Rows, NEW new \in Statuses,
             SaveStatus(p, snap, new) \/ SaveRow(p, snap, new), UNCHANGED fulfilments,
             \/ snap.status \in Settled /\ new \in Settled
             \/ snap.status \in {"DRAFTING", "PENDING"}
                   /\ new \in {"COMPLETED", "FAILED", "CANCELLED"}
      PROVE  [Contract!ContractNext]_(Contract!contractVars)
  <2>1. \A q \in Payments \ {p} : row'[q] = row[q] /\ overwritten'[q] = overwritten[q]
    BY <1>4 DEF SaveStatus, SaveRow, TypeOK
  <2>2. CASE overwritten'[p]
    BY <1>4, <2>1, <2>2, PhaseMove DEF Phase
  <2>3. CASE ~overwritten'[p]
    <3>1. ~overwritten[p] /\ row[p].status = snap.status
      BY <1>4, <2>3 DEF SaveStatus, SaveRow, TypeOK
    <3>2. row'[p].fulfilledAt = row[p].fulfilledAt /\ row'[p].status = new
      <4>1. CASE SaveStatus(p, snap, new)
        BY <4>1 DEF SaveStatus, TypeOK, Rows
      <4>2. CASE SaveRow(p, snap, new)
        <5>1. row[p] = snap
          BY <2>3, <4>2 DEF SaveRow, TypeOK
        <5> QED
          BY <4>2, <5>1 DEF SaveRow, TypeOK, Rows
      <4> QED
        BY <1>4, <4>1, <4>2
    <3>3. row[p].fulfilledAt => row[p].status \in Settled
      BY <3>1 DEF StampInv
    <3>4. Phase(p)' = Phase(p) \/ (Phase(p) = "unpaid" /\ Phase(p)' \in {"owed", "void"})
      BY <1>4, <2>3, <3>1, <3>2, <3>3, PhaseCases DEF Phase, Settled
    <3> QED
      BY <1>4, <2>1, <3>4, PhaseMove
  <2> QED
    BY <2>2, <2>3 DEF TypeOK
<1>5. ASSUME NEW p \in Payments, Environment(p)
      PROVE  [Contract!ContractNext]_(Contract!contractVars)
  <2>1. CASE ClearReview(p)
    <3> DEFINE r == [row[p] EXCEPT !.review = FALSE]
    <3>0. row[p] \in Rows
      BY DEF TypeOK
    <3>1. r \in Rows /\ r.status = row[p].status /\ r.fulfilledAt = row[p].fulfilledAt
      BY <3>0 DEF Rows
    <3> QED
      BY <1>2, <2>1, <3>1 DEF ClearReview, historyVars
  <2> QED
    BY <1>1, <1>5, <2>1
    DEF Environment, Decline, Capture, CancelIntent, RefundCharge, StripeStep, historyVars
<1>6. ASSUME NEW w \in Workers, NEW p \in Payments, Webhook(w, p) \/ Reconcile(w, p)
      PROVE  [Contract!ContractNext]_(Contract!contractVars)
  <2>0. row[p] \in Rows /\ row[p].status \in Statuses
    BY RowFields DEF TypeOK
  <2>1. /\ "COMPLETED" \in Allowed(row[p].status) => row[p].status \in Settled \cup {"PENDING"}
        /\ "FAILED" \in Allowed(row[p].status) => row[p].status = "PENDING"
        /\ "CANCELLED" \in Allowed(row[p].status) => row[p].status = "PENDING"
        /\ MayBecome(row[p].status, "PENDING_REFUND") => row[p].status \in Settled
    BY <2>0, AllowedFacts DEF Settled
  <2>2. CASE SucceededEvent(w, p)
    <3> DEFINE r == [row[p] EXCEPT !.status = "COMPLETED", !.charge = TRUE,
                                   !.eventIds = @ \cup {"succeeded"}]
    <3>1. r \in Rows /\ r.status \in Settled /\ r.fulfilledAt = row[p].fulfilledAt
      BY <2>0 DEF Rows, Statuses, Events, Settled
    <3> QED
      BY <1>2, <2>1, <2>2, <3>1 DEF SucceededEvent, LockedSave, historyVars
  <2>3. CASE PaymentFailedEvent(w, p)
    <3> DEFINE r == [row[p] EXCEPT !.status = "FAILED",
                                   !.eventIds = @ \cup {"payment_failed"}]
    <3>1. r \in Rows /\ r.status = "FAILED" /\ r.fulfilledAt = row[p].fulfilledAt
      BY <2>0 DEF Rows, Statuses, Events
    <3> QED
      BY <1>2, <2>1, <2>3, <3>1 DEF PaymentFailedEvent, LockedSave, historyVars
  <2>4. CASE CanceledEvent(w, p)
    <3> DEFINE r == [row[p] EXCEPT !.status = "CANCELLED",
                                   !.eventIds = @ \cup {"canceled"}]
    <3>1. r \in Rows /\ r.status = "CANCELLED" /\ r.fulfilledAt = row[p].fulfilledAt
      BY <2>0 DEF Rows, Statuses, Events
    <3> QED
      BY <1>2, <2>1, <2>4, <3>1 DEF CanceledEvent, LockedSave, historyVars
  <2>5. CASE RefundedEvent(w, p)
    <3> DEFINE r == [row[p] EXCEPT !.status = "REFUNDED"]
    <3>1. r \in Rows /\ r.status \in Settled /\ r.fulfilledAt = row[p].fulfilledAt
      BY <2>0 DEF Rows, Statuses, Settled
    <3> QED
      BY <1>2, <2>1, <2>5, <3>1 DEF RefundedEvent, LockedSave, historyVars
  <2>6. CASE Reconcile(w, p)
    <3> DEFINE r == [row[p] EXCEPT !.status = "COMPLETED", !.charge = TRUE]
               c == [row[p] EXCEPT !.status = "CANCELLED"]
    <3>1. /\ r \in Rows /\ r.status \in Settled /\ r.fulfilledAt = row[p].fulfilledAt
          /\ c \in Rows /\ c.status = "CANCELLED" /\ c.fulfilledAt = row[p].fulfilledAt
      BY <2>0 DEF Rows, Statuses, Settled
    <3>2. \/ row' = [row EXCEPT ![p] = r] /\ "COMPLETED" \in Allowed(row[p].status)
          \/ row' = [row EXCEPT ![p] = c] /\ "CANCELLED" \in Allowed(row[p].status)
      BY <2>6 DEF Reconcile, LockedSave
    <3>3. UNCHANGED <<fulfilments, overwritten>>
      BY <2>6 DEF Reconcile, LockedSave, historyVars
    <3> QED
      BY <1>2, <2>1, <3>1, <3>2, <3>3
  <2> QED
    BY <1>6, <2>2, <2>3, <2>4, <2>5, <2>6 DEF Webhook
<1>7. ASSUME NEW w \in Workers, NEW p \in Payments, Fulfil(w, p)
      PROVE  [Contract!ContractNext]_(Contract!contractVars)
  <2>1. CASE Owing(p) /\ HandOut(p)
    BY <1>3, <1>7, <2>1 DEF Fulfil
  <2>2. CASE Owing(p) /\ FlagForReview(p)
    <3> DEFINE r == [row[p] EXCEPT !.review = TRUE]
    <3>0. row[p] \in Rows
      BY DEF TypeOK
    <3>1. r \in Rows /\ r.status = row[p].status /\ r.fulfilledAt = row[p].fulfilledAt
      BY <3>0 DEF Rows
    <3> QED
      BY <1>2, <1>7, <2>2, <3>1 DEF Fulfil, FlagForReview
  <2> QED
    BY <1>1, <1>7, <2>1, <2>2 DEF Fulfil
<1>8. ASSUME NEW w \in Workers, NEW p \in Payments, Request(w, p)
      PROVE  [Contract!ContractNext]_(Contract!contractVars)
  <2>0. job[w] \in Jobs
    BY DEF TypeOK
  <2>1. ASSUME NEW op \in DirectOps \cup RefundOps, ReadRow(w, p, op)
        PROVE  [Contract!ContractNext]_(Contract!contractVars)
    BY <1>1, <2>1 DEF ReadRow, historyVars
  <2>2. CASE MarkCompleted(w, p) \/ MarkFailed(w, p) \/ Cancel(w, p)
    <3>1. job[w].snap \in Rows /\ job[w].snap.status = "PENDING"
      BY <2>0, <2>2, JobFields
      DEF MarkCompleted, MarkFailed, Cancel, MarkLost, DirectOps, JobInv
    <3> QED
      BY <1>4, <2>2, <3>1 DEF MarkCompleted, MarkFailed, Cancel, MarkLost, Statuses
  <2>3. ASSUME NEW op \in RefundOps, NEW new \in Statuses, RefundStatus(w, p, op, new)
        PROVE  [Contract!ContractNext]_(Contract!contractVars)
    <3>1. job[w].snap \in Rows /\ job[w].snap.status \in Statuses /\ job[w].op \in RefundOps
      BY <2>0, <2>3, JobFields DEF RefundStatus
    <3>2. job[w].snap.status \in Settled /\ new \in Settled
      BY <2>3, <3>1, AllowedFacts DEF RefundStatus, JobInv
    <3> QED
      BY <1>4, <2>3, <3>1, <3>2 DEF RefundStatus
  <2> QED
    BY <1>8, <2>1, <2>2, <2>3
    DEF Request, RequestRefund, DecideRefund, RefundOps, Statuses, Settled
<1>9. ASSUME NEW w \in Workers, NEW p \in Payments, Expiry(w, p)
      PROVE  [Contract!ContractNext]_(Contract!contractVars)
  <2>1. CASE ExpireSave(w, p) /\ job[w].snap.status \in {"DRAFTING", "PENDING"}
    <3>1. job[w].snap \in Rows
      BY <2>1, JobFields DEF ExpireSave, ExpiryOps, TypeOK
    <3> QED
      BY <1>4, <2>1, <3>1 DEF ExpireSave, Statuses
  <2> QED
    BY <1>1, <1>9, <2>1
    DEF Expiry, ExpireRead, ExpireClearHold, ExpireCancelIntent, ExpirePostpone,
        ExpireSave, historyVars
<1> QED
  BY <1>1, <1>5, <1>6, <1>7, <1>8, <1>9 DEF Next, vars, Sweep, Crash, historyVars

\* Whatever the number of processes and their interleaving, a payment is
\* handed out as FulfilmentContract.tla promises.
THEOREM Refinement == Spec => KeepsContract
BY Invariant, ContractInitially, ContractStep, PTL
DEF Spec, KeepsContract, Contract!ContractSpec
=============================================================================
