-------------------------- MODULE OrderHoldProofs --------------------------
(***************************************************************************)
(* Proofs about OrderHold for any number of orders, workers, units, ticks  *)
(* and requests: the safety properties of the run order_hold, and that the *)
(* module implements OrderContract.                                        *)
(***************************************************************************)
EXTENDS OrderHold, TLAPS

Moving    == {"move", "save"}
Verifying == {"verify", "moveOn"}
Deciding  == StaffOps \cup Verifying

\* What an unlocked request may rely on.
JobsInv ==
    \A w \in Workers :
        /\ job[w].op \in Moving =>
              /\ job[w].to \in Allowed(job[w].snap.status)
              /\ Status(job[w].ord) # "absent"
        /\ job[w].op = "save" => job[w].to \in Closed
        /\ job[w].op \in ItemOps => job[w].seen = "draft"
        /\ job[w].op \in Deciding => payment[job[w].ord] # "none"

\* The success event has read the order of a payment.
TargetInv == \A o \in Orders : ~Unlocked(o) => payment[o] # "none"

\* Worker w has put the stock of the order back and not yet closed it.
Saving(w, o) == job[w].op = "save" /\ job[w].ord = o

\* The ledger of an order: at rest, and while a single request is between
\* putting back and closing.
Balanced(o) ==
    /\ (\A w \in Workers : ~Saving(w, o)) => ledger[o] = Reserved(o) + lost[o]
    /\ \A w \in Workers :
          Saving(w, o) /\ (\A v \in Workers \ {w} : ~Saving(v, o)) /\ Status(o) \in Live
              => ledger[o] = lost[o] + qty[o] - job[w].units

\* Only a checked-out order has a payment, and it holds what was charged.
Billed(o) ==
    payment[o] # "none" => Status(o) # "draft" /\ (Exists(o) => qty[o] = billed[o])

\* An open order with items is limited in time, or its limit was ended.
Limited(o) ==
    IsOpen(o) /\ qty[o] > 0 => order[o].left # NoHold \/ Unlimited(o)

OrderInv(o) ==
    /\ Status(o) = "absent" => qty[o] = 0 /\ payment[o] = "none"
    /\ Status(o) = "draft" => ~order[o].package
    /\ ~disturbed[o] => Balanced(o) /\ Billed(o) /\ Limited(o)

IInv == TypeOK /\ JobsInv /\ TargetInv /\ \A o \in Orders : OrderInv(o)

-----------------------------------------------------------------------------
(* Lemmas about statuses, rows and jobs.                                    *)

LEMMA AllowedFacts ==
    ASSUME NEW s
    PROVE  /\ Allowed(s) \subseteq Statuses \ {"draft"}
           /\ \A t \in Allowed(s) : s \in Live
           /\ s \in Open => "cancelled" \in Allowed(s)
           /\ \A t \in Allowed(s) : t \in Open => s \in Open
           /\ "processing" \in Allowed(s) => s \in Live \ {"draft"}
BY DEF Allowed, Statuses, Live, Open, Rest, Closed

LEMMA StatusFacts ==
    /\ Statuses \cap {"absent", "deleted"} = {}
    /\ Live \cap Closed = {}
    /\ Open \subseteq Live /\ Live \subseteq Statuses /\ Closed \subseteq Statuses
    /\ "draft" \in Open /\ "pending" \in Open /\ "processing" \in Live \ Open
    /\ "cancelled" \in Closed
BY DEF Statuses, Live, Closed, Open, Rest

LEMMA RowFields ==
    ASSUME NEW r \in Rows
    PROVE  /\ r.status \in Statuses \cup {"absent", "deleted"}
           /\ r.left \in Holds /\ r.ext \in 0..MaxExtensions
           /\ r.paying \in BOOLEAN /\ r.package \in BOOLEAN
           /\ r = [status |-> r.status, left |-> r.left, ext |-> r.ext, paying |-> r.paying,
                   package |-> r.package]
BY DEF Rows

LEMMA HoldFacts ==
    /\ NoHold \in Holds /\ HoldTime \in Holds /\ CheckoutTime \in Holds /\ RetryTime \in Holds
    /\ HoldTime # NoHold /\ CheckoutTime # NoHold /\ RetryTime # NoHold
    /\ \A l \in Nat : l <= MaxHoldTime => l \in Holds
    /\ \A l \in Holds : l > 0 => l - 1 \in Holds
BY TimeAssumption DEF Holds, NoHold, MaxLeft

LEMMA AgedRow ==
    ASSUME NEW r \in Rows
    PROVE  /\ Aged(r) \in Rows
           /\ Aged(r).status = r.status /\ Aged(r).package = r.package
           /\ r.left # NoHold => Aged(r).left # NoHold
<1>1. CASE r.left > 0
  <2>1. r.left - 1 \in Holds /\ r.left - 1 # NoHold
    BY <1>1, HoldFacts, RowFields, TimeAssumption DEF Holds, NoHold, MaxLeft
  <2>2. Aged(r) = [r EXCEPT !.left = r.left - 1]
    BY <1>1 DEF Aged
  <2> QED
    BY <2>1, <2>2 DEF Rows
<1>2. CASE ~(r.left > 0)
  BY <1>2 DEF Aged
<1> QED
  BY <1>1, <1>2

LEMMA JobFields ==
    ASSUME NEW j \in Jobs
    PROVE  /\ j.op \in ItemOps \cup Moving \cup Deciding \cup {"idle"}
           /\ j # Idle => j.op # "idle"
           /\ j.op # "idle" => j.ord \in Orders
           /\ j.op \in ItemOps => j.seen \in Statuses
           /\ j.op \in Moving => j.snap \in Rows /\ j.to \in Statuses
           /\ j.op \in Verifying => j.snap \in Rows
           /\ j.op = "save" => j.units \in 0..MaxQuantity
BY DEF Jobs, Idle, ItemJobs, MoveJobs, SaveJobs, StaffJobs, VerifyJobs, ItemOps, StaffOps,
       Moving, Verifying, Deciding

LEMMA JobShapes ==
    /\ Idle \in Jobs
    /\ \A op \in ItemOps, o \in Orders, s \in Statuses :
          [op |-> op, ord |-> o, seen |-> s] \in Jobs
    /\ \A o \in Orders, r \in Rows, t \in Statuses :
          [op |-> "move", ord |-> o, snap |-> r, to |-> t] \in Jobs
    /\ \A o \in Orders, r \in Rows, t \in Statuses, n \in 0..MaxQuantity :
          [op |-> "save", ord |-> o, snap |-> r, to |-> t, units |-> n] \in Jobs
    /\ \A op \in StaffOps, o \in Orders : [op |-> op, ord |-> o] \in Jobs
    /\ \A op \in Verifying, o \in Orders, r \in Rows :
          [op |-> op, ord |-> o, snap |-> r] \in Jobs
BY DEF Jobs, Idle, ItemJobs, MoveJobs, SaveJobs, StaffJobs, VerifyJobs, Verifying

LEMMA JobOps ==
    /\ ItemOps \cap (Moving \cup Deciding \cup {"idle"}) = {}
    /\ Moving \cap (Deciding \cup {"idle"}) = {}
    /\ StaffOps \cap Verifying = {} /\ "idle" \notin Deciding
    /\ Idle.op = "idle"
BY DEF ItemOps, StaffOps, Moving, Verifying, Deciding, Idle

\* A transfer that is being verified is a record with these three fields.
LEMMA VerifyFields ==
    ASSUME NEW j \in Jobs, j.op \in Verifying
    PROVE  j = [op |-> j.op, ord |-> j.ord, snap |-> j.snap]
BY JobOps DEF Jobs, Idle, ItemJobs, MoveJobs, SaveJobs, StaffJobs, VerifyJobs, ItemOps, StaffOps,
              Verifying

-----------------------------------------------------------------------------
(* Type correctness.                                                        *)

LEMMA TypeInit == Init => TypeOK
<1> SUFFICES ASSUME Init PROVE TypeOK
  OBVIOUS
<1>1. Absent \in Rows
  BY TimeAssumption DEF Absent, Rows, Holds
<1> QED
  BY <1>1, StockAssumption, SettingsAssumption, JobShapes DEF Init, TypeOK, Payments, Targets

LEMMA TakeType ==
    ASSUME TypeOK, NEW o \in Orders, NEW n \in Int, Take(o, n)
    PROVE  stock' \in 0..StockCap /\ ledger' \in [Orders -> Int]
BY DEF TypeOK, Take

LEMMA RestoreType ==
    ASSUME TypeOK, NEW o \in Orders, Restore(o)
    PROVE  /\ stock' \in 0..StockCap
           /\ ledger' \in [Orders -> Int]
           /\ lost' \in [Orders -> Nat]
<1>0. qty[o] \in Nat /\ -qty[o] \in Int
  BY StockAssumption DEF TypeOK
<1>1. CASE stock + qty[o] <= StockCap
  BY <1>0, <1>1, TakeType DEF Restore, TypeOK
<1>2. CASE ~(stock + qty[o] <= StockCap)
  BY <1>0, <1>2 DEF Restore, TypeOK
<1> QED
  BY <1>1, <1>2

\* The part of TypeOK that the order row and the stock contribute.
StockType ==
    /\ order \in [Orders -> Rows]
    /\ qty \in [Orders -> 0..MaxQuantity]
    /\ stock \in 0..StockCap
    /\ ledger \in [Orders -> Int]
    /\ lost \in [Orders -> Nat]

LEMMA SaveType ==
    ASSUME TypeOK, NEW o \in Orders, NEW r \in Rows, SaveOrder(o, r) \/ CancelOrder(o, r)
    PROVE  StockType'
<1>1. CASE SaveOrder(o, r)
  BY <1>1 DEF SaveOrder, SetOrder, stockVars, StockType, TypeOK
<1>2. CASE CancelOrder(o, r)
  <2>1. [r EXCEPT !.status = "cancelled"] \in Rows
    BY StatusFacts DEF Rows
  <2> QED
    BY <1>2, <2>1, RestoreType DEF CancelOrder, SetOrder, StockType, TypeOK
<1> QED
  BY <1>1, <1>2

LEMMA LostType ==
    ASSUME TypeOK, NEW o \in Orders, PaymentLost(o), job' \in [Workers -> Jobs]
    PROVE  TypeOK'
<1>0. order[o] \in Rows /\ "void" \in Payments
  BY DEF TypeOK, Payments
<1>1. StockType'
  <2>1. CASE "cancelled" \in Allowed(Status(o))
    BY <1>0, <2>1, SaveType DEF PaymentLost
  <2>2. CASE "cancelled" \notin Allowed(Status(o))
    BY <2>2 DEF PaymentLost, KeepOrder, stockVars, TypeOK, StockType
  <2> QED
    BY <2>1, <2>2
<1> QED
  BY <1>0, <1>1 DEF PaymentLost, SetPayment, StockType, TypeOK

LEMMA TargetType ==
    ASSUME TypeOK, NEW o \in Orders, NEW r \in Rows, SaveTarget(o, r)
    PROVE  StockType' /\ disturbed' \in [Orders -> BOOLEAN]
<1>1. [r EXCEPT !.status = "processing"] \in Rows
  BY StatusFacts DEF Rows
<1>2. StockType'
  BY <1>1, SaveType DEF SaveTarget
<1>3. disturbed' \in [Orders -> BOOLEAN]
  BY DEF SaveTarget, DisturbedIf, TypeOK
<1> QED
  BY <1>2, <1>3

LEMMA SucceededType ==
    ASSUME TypeOK, NEW o \in Orders, SucceededEvent(o)
    PROVE  TypeOK'
<1>1. /\ target' \in [Orders -> Targets] /\ payment' \in [Orders -> Payments]
      /\ UNCHANGED <<requestVars, billed>>
  BY DEF SucceededEvent, SetPayment, TypeOK, Targets, Payments, Accepted
<1>2. StockType' /\ disturbed' \in [Orders -> BOOLEAN]
  <2>1. CASE target[o].status = "pending"
    <3>1. target[o] \in Rows
      BY DEF SucceededEvent, Unlocked, Targets, TypeOK
    <3> QED
      BY <2>1, <3>1, TargetType DEF SucceededEvent
  <2>2. CASE target[o].status # "pending"
    BY <2>2 DEF SucceededEvent, KeepOrder, stockVars, StockType, TypeOK
  <2> QED
    BY <2>1, <2>2
<1> QED
  BY <1>1, <1>2 DEF StockType, requestVars, TypeOK

LEMMA PaymentType ==
    ASSUME TypeOK, NEW o \in Orders, PaymentStep(o)
    PROVE  TypeOK'
<1>1. CASE Capture(o)
  BY <1>1 DEF Capture, SetPayment, KeepOrder, Unrelated, stockVars, requestVars, TypeOK,
              Payments, Pending
<1>2. CASE FailedEvent(o) \/ CanceledEvent(o)
  BY <1>2, LostType DEF FailedEvent, CanceledEvent, TypeOK
<1>3. CASE ReadTarget(o)
  BY <1>3 DEF ReadTarget, KeepOrder, stockVars, requestVars, TypeOK, Targets
<1>5. CASE FulfilBooking(o)
  <2>1. [order[o] EXCEPT !.status = "processing"] \in Rows
    BY StatusFacts DEF TypeOK, Rows
  <2> QED
    BY <1>5, <2>1, SaveType DEF FulfilBooking, Unrelated, requestVars, StockType, TypeOK
<1>4. CASE Settle(o)
  <2> DEFINE s == IF ~ApprovalRequired /\ "processing" \in Allowed(order[o].status)
                  THEN "processing" ELSE order[o].status
             r == [order[o] EXCEPT !.left = NoHold, !.status = s]
  <2>1. order[o] \in Rows /\ r \in Rows /\ "settled" \in Payments
    <3>1. order[o] \in Rows /\ "settled" \in Payments
      BY DEF TypeOK, Payments, Accepted
    <3>2. s \in Statuses \cup {"absent", "deleted"} /\ NoHold \in Holds
      BY <3>1, StatusFacts, HoldFacts, RowFields
    <3> HIDE DEF s
    <3>3. r \in Rows
      BY <3>1, <3>2 DEF Rows
    <3> QED
      BY <3>1, <3>3
  <2>2. SaveOrder(o, r)
    BY <1>4 DEF Settle
  <2> QED
    BY <1>4, <2>1, <2>2, SaveType
    DEF Settle, SetPayment, Unrelated, requestVars, StockType, TypeOK
<1> QED
  BY <1>1, <1>2, <1>3, <1>4, <1>5, SucceededType DEF PaymentStep

LEMMA PackageType ==
    ASSUME TypeOK, NEW o \in Orders, PackageOrder(o)
    PROVE  TypeOK'
<1> DEFINE r == [Absent EXCEPT !.status = "pending", !.paying = TRUE, !.package = TRUE]
<1>1. PICK n \in 1..MaxQuantity :
          /\ Take(o, n)
          /\ qty' = [qty EXCEPT ![o] = n]
          /\ billed' = [billed EXCEPT ![o] = n]
  BY DEF PackageOrder
<1>2. n \in Int /\ n \in 0..MaxQuantity
  BY StockAssumption
<1>3. r \in Rows
  <2>1. NoHold \in Holds /\ 0 \in 0..MaxExtensions /\ "pending" \in Statuses
    BY HoldFacts, TimeAssumption, StatusFacts
  <2> QED
    BY <2>1 DEF Absent, Rows
<1>4. order' = [order EXCEPT ![o] = r] /\ Unrelated /\ UNCHANGED lost
  BY DEF PackageOrder, SetOrder
<1>5. payment' \in [Orders -> Payments]
  BY DEF PackageOrder, SetPayment, TypeOK, Payments, Pending, Accepted
<1>6. stock' \in 0..StockCap /\ ledger' \in [Orders -> Int]
  BY <1>1, <1>2, TakeType
<1> HIDE DEF r
<1> QED
  BY <1>1, <1>2, <1>3, <1>4, <1>5, <1>6 DEF Unrelated, requestVars, TypeOK

LEMMA OrderType ==
    ASSUME TypeOK, NEW o \in Orders,
           Extend(o) \/ Checkout(o) \/ Expire(o) \/ Delete(o)
    PROVE  TypeOK'
<1>0. /\ order[o] \in Rows /\ qty[o] \in 0..MaxQuantity
      /\ order[o].left \in Holds /\ order[o].ext \in 0..MaxExtensions
  BY DEF TypeOK, Rows
<1>1. CASE Extend(o)
  <2>0. order[o].left > 0 /\ order[o].ext < MaxExtensions
    BY <1>1 DEF Extend
  <2>1. PICK t \in 1..ExtensionTime :
            /\ order[o].left + t <= MaxHoldTime
            /\ SaveOrder(o, [order[o] EXCEPT !.left = order[o].left + t, !.ext = order[o].ext + 1])
    BY <1>1 DEF Extend
  <2>2. order[o].left + t \in Holds
    BY <1>0, <2>0, <2>1, TimeAssumption DEF Holds, NoHold, MaxLeft
  <2>3. order[o].ext + 1 \in 0..MaxExtensions
    BY <1>0, <2>0, TimeAssumption
  <2>4. [order[o] EXCEPT !.left = order[o].left + t, !.ext = order[o].ext + 1] \in Rows
    BY <1>0, <2>2, <2>3 DEF Rows
  <2> QED
    BY <1>1, <2>1, <2>4, SaveType DEF Extend, Unrelated, requestVars, StockType, TypeOK
<1>2. CASE Checkout(o)
  <2> DEFINE r1 == [order[o] EXCEPT !.status = "pending", !.left = CheckoutTime, !.ext = 0,
                                   !.paying = TRUE]
             r2 == [order[o] EXCEPT !.status = "pending", !.left = NoHold, !.paying = TRUE]
             r3 == [order[o] EXCEPT !.status = "processing", !.left = NoHold]
  <2>1. r1 \in Rows /\ r2 \in Rows /\ r3 \in Rows
    <3>1. 0 \in 0..MaxExtensions /\ {"pending", "processing"} \subseteq Statuses
      BY TimeAssumption, StatusFacts
    <3>2. CheckoutTime \in Holds /\ NoHold \in Holds
      BY HoldFacts
    <3> QED
      BY <1>0, <3>1, <3>2 DEF Rows
  <2>2. SaveOrder(o, r1) \/ SaveOrder(o, r2) \/ SaveOrder(o, r3)
    BY <1>2 DEF Checkout
  <2>3. StockType'
    BY <2>1, <2>2, SaveType
  <2>4. payment' \in [Orders -> Payments]
    BY <1>2 DEF Checkout, SetPayment, TypeOK, Payments, Pending
  <2> QED
    BY <1>0, <1>2, <2>3, <2>4 DEF Checkout, Unrelated, requestVars, StockType, TypeOK
<1>3. CASE Expire(o)
  <2> DEFINE r1 == [order[o] EXCEPT !.left = NoHold]
             r2 == [order[o] EXCEPT !.left = RetryTime]
  <2>1. r1 \in Rows /\ r2 \in Rows
    BY <1>0, HoldFacts DEF Rows
  <2>2. SaveOrder(o, r1) \/ SaveOrder(o, r2) \/ CancelOrder(o, r1) \/ KeepOrder
    BY <1>3 DEF Expire
  <2>3. StockType'
    <3>1. CASE KeepOrder
      BY <3>1 DEF KeepOrder, stockVars, TypeOK, StockType
    <3> QED
      BY <2>1, <2>2, <3>1, SaveType
  <2>4. payment' \in [Orders -> Payments]
    BY <1>3 DEF Expire, SetPayment, TypeOK, Payments, Pending
  <2> QED
    BY <1>3, <2>3, <2>4 DEF Expire, Unrelated, requestVars, StockType, TypeOK
<1>4. CASE Delete(o)
  <2>1. [order[o] EXCEPT !.status = "deleted"] \in Rows
    BY <1>0 DEF Rows
  <2>2. lost[o] + (IF Status(o) \in Live THEN qty[o] ELSE 0) \in Nat
    BY <1>0, StockAssumption DEF TypeOK
  <2> QED
    BY <1>4, <2>1, <2>2, StockAssumption
    DEF Delete, SetOrder, Unrelated, requestVars, TypeOK
<1> QED
  BY <1>1, <1>2, <1>3, <1>4

LEMMA AskType ==
    ASSUME TypeOK, NEW w \in Workers, NEW j \in Jobs, Ask(w, j)
    PROVE  /\ job' \in [Workers -> Jobs]
           /\ requests' \in 0..MaxRequests
<1>1. requests + 1 \in 0..MaxRequests
  BY SettingsAssumption DEF Ask, TypeOK
<1> QED
  BY <1>1 DEF Ask, SetJob, TypeOK

\* A request that has read something and saved nothing.
Asks(w) ==
    /\ \E j \in Jobs : Ask(w, j) /\ j.op # "save"
    /\ UNCHANGED <<order, stockVars, payment, target, billed, disturbed>>

LEMMA ReadsAsk ==
    ASSUME TypeOK, NEW w \in Workers, NEW o \in Orders,
           \/ ReadForItems(w, o) \/ ReadForMove(w, o)
           \/ ReadPayment(w, o) \/ ReadTransfer(w, o)
    PROVE  Asks(w)
<1>0. order[o] \in Rows
  BY DEF TypeOK
<1>1. CASE ReadForItems(w, o)
  <2>1. PICK op \in ItemOps : Ask(w, [op |-> op, ord |-> o, seen |-> Status(o)])
    BY <1>1 DEF ReadForItems
  <2>2. [op |-> op, ord |-> o, seen |-> Status(o)] \in Jobs /\ op # "save"
    BY <1>1, JobShapes, StatusFacts DEF ReadForItems, ItemOps
  <2> QED
    BY <1>1, <2>1, <2>2 DEF ReadForItems, Asks
<1>2. CASE ReadForMove(w, o)
  <2>1. PICK to \in Allowed(Status(o)) :
            Ask(w, [op |-> "move", ord |-> o, snap |-> order[o], to |-> to])
    BY <1>2 DEF ReadForMove
  <2>2. [op |-> "move", ord |-> o, snap |-> order[o], to |-> to] \in Jobs
    BY <1>0, JobShapes, AllowedFacts
  <2> QED
    BY <1>2, <2>1, <2>2 DEF ReadForMove, Asks
<1>3. CASE ReadPayment(w, o)
  <2>1. PICK op \in StaffOps : Ask(w, [op |-> op, ord |-> o])
    BY <1>3 DEF ReadPayment
  <2>2. [op |-> op, ord |-> o] \in Jobs /\ op # "save"
    BY JobShapes DEF StaffOps
  <2> QED
    BY <1>3, <2>1, <2>2 DEF ReadPayment, Asks
<1>4. CASE ReadTransfer(w, o)
  <2>1. Ask(w, [op |-> "verify", ord |-> o, snap |-> order[o]])
    BY <1>4 DEF ReadTransfer
  <2>2. [op |-> "verify", ord |-> o, snap |-> order[o]] \in Jobs
    BY <1>0, JobShapes DEF Verifying
  <2> QED
    BY <1>4, <2>1, <2>2 DEF ReadTransfer, Asks
<1> QED
  BY <1>1, <1>2, <1>3, <1>4

LEMMA ReadType ==
    ASSUME TypeOK, NEW w \in Workers, Asks(w)
    PROVE  TypeOK'
<1>1. job' \in [Workers -> Jobs] /\ requests' \in 0..MaxRequests
  BY AskType DEF Asks
<1> QED
  BY <1>1 DEF Asks, stockVars, TypeOK

LEMMA CreateType ==
    ASSUME TypeOK, NEW w \in Workers, NEW o \in Orders, Create(w, o)
    PROVE  TypeOK'
<1>1. [op |-> "add", ord |-> o, seen |-> "draft"] \in Jobs
  BY JobShapes, StatusFacts DEF ItemOps
<1>2. NewDraft \in Rows
  <2>1. Absent \in Rows
    BY TimeAssumption DEF Absent, Rows, Holds
  <2>2. "draft" \in Statuses
    BY StatusFacts
  <2> QED
    BY <2>1, <2>2 DEF NewDraft, Rows
<1>3. job' \in [Workers -> Jobs] /\ requests' \in 0..MaxRequests
  BY <1>1, AskType DEF Create
<1> QED
  BY <1>2, <1>3 DEF Create, SetOrder, stockVars, TypeOK

LEMMA StaffType ==
    ASSUME TypeOK, NEW w \in Workers, NEW o \in Orders,
           \/ MarkCompleted(w, o) \/ MarkFailed(w, o) \/ CancelPayment(w, o)
           \/ VerifyTransfer(w, o) \/ MoveOn(w, o)
    PROVE  TypeOK'
<1>0. Idle \in Jobs /\ {"paid", "settled", "failed", "stuck"} \subseteq Payments
  BY JobShapes DEF Payments, Accepted
<1>1. ASSUME NEW op, NEW p \in Payments, DecidePayment(w, o, op, p)
      PROVE  TypeOK'
  BY <1>0, <1>1 DEF DecidePayment, SetJob, SetPayment, KeepOrder, stockVars, TypeOK
<1>2. CASE MarkCompleted(w, o)
  BY <1>0, <1>1, <1>2 DEF MarkCompleted
<1>3. CASE MarkFailed(w, o)
  BY <1>0, <1>1, <1>3 DEF MarkFailed
<1>4. CASE CancelPayment(w, o)
  <2>1. job' \in [Workers -> Jobs]
    BY <1>0, <1>4 DEF CancelPayment, SetJob, TypeOK
  <2> QED
    BY <1>4, <2>1, LostType DEF CancelPayment
<1>5. ASSUME NEW op \in Verifying, NEW s \in Statuses, NEW j, job[w].op \in Verifying,
             SetJob(w, j),
             \/ j = [job[w] EXCEPT !.op = op]
             \/ j = [job[w] EXCEPT !.snap.status = s]
             \/ j = Idle
      PROVE  job' \in [Workers -> Jobs]
  <2>1. /\ job[w] \in Jobs /\ job[w].ord \in Orders /\ job[w].snap \in Rows
        /\ job[w] = [op |-> job[w].op, ord |-> job[w].ord, snap |-> job[w].snap]
    BY <1>5, JobFields, VerifyFields, JobOps DEF TypeOK, Deciding
  <2>2. [job[w].snap EXCEPT !.status = s] \in Rows
    BY <2>1 DEF Rows
  <2>3. \/ j = [op |-> op, ord |-> job[w].ord, snap |-> job[w].snap]
        \/ j = [op |-> job[w].op, ord |-> job[w].ord, snap |-> [job[w].snap EXCEPT !.status = s]]
        \/ j = Idle
    BY <1>5, <2>1
  <2>4. j \in Jobs
    BY <1>0, <1>5, <2>1, <2>2, <2>3, JobShapes
  <2> QED
    BY <1>5, <2>4 DEF SetJob, TypeOK
<1>6. CASE VerifyTransfer(w, o)
  <2>1. job' \in [Workers -> Jobs]
    BY <1>5, <1>6, StatusFacts DEF VerifyTransfer, Verifying
  <2> QED
    BY <1>0, <1>6, <2>1 DEF VerifyTransfer, SetPayment, KeepOrder, stockVars, TypeOK
<1>7. CASE MoveOn(w, o)
  <2>1. "processing" \in Statuses
    BY StatusFacts
  <2>2. job' \in [Workers -> Jobs]
    BY <1>5, <1>7, <2>1 DEF MoveOn, Verifying
  <2>3. job[w].snap \in Rows
    BY <1>7, JobFields DEF MoveOn, Verifying, TypeOK
  <2>4. StockType' /\ disturbed' \in [Orders -> BOOLEAN]
    BY <1>7, <2>3, TargetType DEF MoveOn
  <2> QED
    BY <1>7, <2>2, <2>4 DEF MoveOn, StockType, TypeOK
<1> QED
  BY <1>2, <1>3, <1>4, <1>6, <1>7

LEMMA ItemsType ==
    ASSUME TypeOK, NEW w \in Workers, NEW o \in Orders,
           AddItem(w, o) \/ UpdateItem(w, o) \/ RemoveItem(w, o)
    PROVE  TypeOK'
<1>0. /\ order[o] \in Rows /\ qty[o] \in 0..MaxQuantity
      /\ order[o].left \in Holds
      /\ MaxQuantity \in Nat /\ Idle \in Jobs
  BY JobShapes, StockAssumption DEF TypeOK, Rows
<1>1. ASSUME NEW op, WriteItems(w, o, op)
      PROVE  /\ job' \in [Workers -> Jobs]
             /\ disturbed' \in [Orders -> BOOLEAN]
             /\ UNCHANGED <<payment, target, requests, billed, lost>>
  BY <1>0, <1>1 DEF WriteItems, SetJob, DisturbedIf, TypeOK
<1>2. ASSUME NEW n \in Int, Take(o, n)
      PROVE  stock' \in 0..StockCap /\ ledger' \in [Orders -> Int]
  BY <1>2, TakeType
<1>3. CASE AddItem(w, o)
  <2>1. PICK n \in 1..(MaxQuantity - qty[o]) :
            Take(o, n) /\ qty' = [qty EXCEPT ![o] = qty[o] + n]
    BY <1>3 DEF AddItem
  <2>2. n \in Int /\ qty[o] + n \in 0..MaxQuantity
    BY <1>0
  <2>3. order' \in [Orders -> Rows]
    <3> DEFINE l == IF StartsHold(o) THEN HoldTime ELSE order[o].left
    <3>1. order' = [order EXCEPT ![o] = [order[o] EXCEPT !.left = l]]
      BY <1>3 DEF AddItem, SetOrder
    <3>2. l \in Holds
      BY <1>0, HoldFacts
    <3> HIDE DEF l
    <3>3. [order[o] EXCEPT !.left = l] \in Rows
      BY <1>0, <3>2 DEF Rows
    <3> QED
      BY <3>1, <3>3 DEF TypeOK
  <2>4. WriteItems(w, o, "add")
    BY <1>3 DEF AddItem
  <2> QED
    BY <1>1, <1>2, <2>1, <2>2, <2>3, <2>4 DEF TypeOK
<1>4. CASE UpdateItem(w, o)
  <2>1. PICK n \in 1..MaxQuantity : Take(o, n - qty[o]) /\ qty' = [qty EXCEPT ![o] = n]
    BY <1>4 DEF UpdateItem
  <2>2. n - qty[o] \in Int /\ n \in 0..MaxQuantity
    BY <1>0
  <2>3. WriteItems(w, o, "update") /\ UNCHANGED order
    BY <1>4 DEF UpdateItem
  <2> QED
    BY <1>1, <1>2, <2>1, <2>2, <2>3 DEF TypeOK
<1>5. CASE RemoveItem(w, o)
  <2>1. PICK n \in 1..qty[o] :
            /\ Take(o, -n)
            /\ qty' = [qty EXCEPT ![o] = qty[o] - n]
            /\ SetOrder(o, [order[o] EXCEPT !.status = IF n = qty[o] THEN "deleted" ELSE order[o].status])
    BY <1>5 DEF RemoveItem
  <2>2. -n \in Int /\ qty[o] - n \in 0..MaxQuantity
    BY <1>0
  <2>3. [order[o] EXCEPT !.status = IF n = qty[o] THEN "deleted" ELSE order[o].status] \in Rows
    BY <1>0 DEF Rows
  <2>4. WriteItems(w, o, "remove")
    BY <1>5 DEF RemoveItem
  <2> QED
    BY <1>1, <1>2, <2>1, <2>2, <2>3, <2>4 DEF SetOrder, TypeOK
<1> QED
  BY <1>3, <1>4, <1>5

LEMMA MoveType ==
    ASSUME TypeOK, NEW w \in Workers, NEW o \in Orders, PutBack(w, o) \/ SaveMove(w, o)
    PROVE  TypeOK'
<1>0. job[w].op \in Moving /\ job[w] \in Jobs /\ Idle \in Jobs
  BY JobShapes DEF PutBack, SaveMove, Moving, TypeOK
<1>1. job[w].snap \in Rows /\ job[w].to \in Statuses
  BY <1>0, JobFields
<1>2. CASE PutBack(w, o)
  <2>1. [op |-> "save", ord |-> o, snap |-> job[w].snap, to |-> job[w].to, units |-> qty[o]] \in Jobs
    BY <1>1, JobShapes DEF TypeOK
  <2>2. stock' \in 0..StockCap /\ ledger' \in [Orders -> Int] /\ lost' \in [Orders -> Nat]
    BY <1>2, RestoreType DEF PutBack
  <2> QED
    BY <1>2, <2>1, <2>2 DEF PutBack, SetJob, DisturbedIf, TypeOK
<1>3. CASE SaveMove(w, o)
  <2>1. [job[w].snap EXCEPT !.status = job[w].to] \in Rows
    BY <1>1 DEF Rows
  <2> QED
    BY <1>0, <1>3, <2>1 DEF SaveMove, SetOrder, SetJob, DisturbedIf, stockVars, TypeOK
<1> QED
  BY <1>2, <1>3

\* What ageing leaves of a job.
LEMMA AgedJob ==
    ASSUME TypeOK, Tick, NEW w \in Workers
    PROVE  /\ job'[w] \in Jobs
           /\ job'[w].op = job[w].op /\ job'[w].ord = job[w].ord
           /\ job[w].op \in Moving => /\ job'[w].to = job[w].to
                                      /\ job'[w].snap.status = job[w].snap.status
           /\ job[w].op = "save" => job'[w].units = job[w].units
           /\ job[w].op \in ItemOps => job'[w].seen = job[w].seen
<1> DEFINE j == job[w]
           a == Aged(j.snap)
<1>0. j \in Jobs
  BY DEF TypeOK
<1>1. CASE j.op \in Moving \cup Verifying
  <2>1. j.snap \in Rows /\ a \in Rows /\ a.status = j.snap.status
    BY <1>0, <1>1, JobFields, AgedRow
  <2>2. job'[w] = [j EXCEPT !.snap = a]
    BY <1>1 DEF Tick, Moving, Verifying
  <2>3. j \in MoveJobs \cup SaveJobs \cup VerifyJobs /\ j.op \notin ItemOps
    BY <1>0, <1>1, JobOps DEF Jobs, ItemJobs, StaffJobs, Moving, Verifying, StaffOps, ItemOps, Idle
  <2> HIDE DEF a
  <2>4. /\ [j EXCEPT !.snap = a] \in Jobs
        /\ [j EXCEPT !.snap = a].op = j.op /\ [j EXCEPT !.snap = a].ord = j.ord
        /\ [j EXCEPT !.snap = a].snap = a
    BY <2>1, <2>3 DEF Jobs, MoveJobs, SaveJobs, VerifyJobs
  <2>5. j.op \in Moving => [j EXCEPT !.snap = a].to = j.to
    BY <2>3 DEF MoveJobs, SaveJobs, VerifyJobs, Moving
  <2>6. j.op = "save" => [j EXCEPT !.snap = a].units = j.units
    BY <2>3 DEF MoveJobs, SaveJobs, VerifyJobs
  <2> QED
    BY <2>1, <2>2, <2>3, <2>4, <2>5, <2>6
<1>2. CASE j.op \notin Moving \cup Verifying
  BY <1>0, <1>2 DEF Tick, Moving, Verifying
<1> QED
  BY <1>1, <1>2

LEMMA TickType == ASSUME TypeOK, Tick PROVE TypeOK'
<1>1. \A o \in Orders : Aged(order[o]) \in Rows
  BY AgedRow DEF TypeOK
<1>2. \A o \in Orders : ~Unlocked(o) => Aged(target[o]) \in Rows
  BY AgedRow DEF TypeOK, Targets, Unlocked
<1>3. target' \in [Orders -> Targets]
  BY <1>2 DEF Tick, Targets
<1>4. order' \in [Orders -> Rows]
  BY <1>1 DEF Tick
<1>5. job' \in [Workers -> Jobs]
  <2>1. \A w \in Workers : job'[w] \in Jobs
    BY AgedJob
  <2>2. job' = [w \in Workers |-> job'[w]]
    BY Zenon DEF Tick
  <2> QED
    BY <2>1, <2>2
<1> QED
  BY <1>3, <1>4, <1>5 DEF Tick, stockVars, TypeOK

LEMMA TypeStep == TypeOK /\ [Next]_vars => TypeOK'
<1> SUFFICES ASSUME TypeOK, [Next]_vars PROVE TypeOK'
  OBVIOUS
<1>1. CASE UNCHANGED vars
  BY <1>1 DEF vars, TypeOK
<1>2. CASE \E o \in Orders : \/ Extend(o) \/ Checkout(o) \/ PackageOrder(o)
                            \/ PaymentStep(o) \/ Expire(o) \/ Delete(o)
  BY <1>2, OrderType, PackageType, PaymentType
<1>3. CASE \E w \in Workers, o \in Orders : RequestStep(w, o)
  BY <1>3, ReadsAsk, ReadType, CreateType, ItemsType, MoveType DEF RequestStep
<1>7. CASE \E w \in Workers, o \in Orders : StaffStep(w, o)
  BY <1>7, ReadsAsk, ReadType, StaffType DEF StaffStep
<1>4. ASSUME NEW w \in Workers, Abort(w) PROVE TypeOK'
  <2>1. \A o, b : disturbed' = [disturbed EXCEPT ![o] = disturbed[o] \/ b]
                    => disturbed' \in [Orders -> BOOLEAN]
    BY DEF TypeOK
  <2>2. disturbed' \in [Orders -> BOOLEAN]
    BY <1>4, <2>1 DEF Abort, DisturbedIf
  <2> QED
    BY <1>4, <2>2, JobShapes DEF Abort, SetJob, stockVars, TypeOK
<1>5. CASE AdjustStock
  BY <1>5 DEF AdjustStock, Unrelated, requestVars, TypeOK
<1>6. CASE Tick
  BY <1>6, TickType
<1> QED
  BY <1>1, <1>2, <1>3, <1>4, <1>5, <1>6, <1>7 DEF Next

\* Every variable keeps its shape: stock never leaves 0..StockCap, although
\* half the requests write without a lock (TypeOK).
THEOREM TypeCorrect == Spec => []TypeOK
<1>1. Init => TypeOK
  BY TypeInit
<1>2. TypeOK /\ [Next]_vars => TypeOK'
  BY TypeStep
<1> QED
  BY <1>1, <1>2, PTL DEF Spec

-----------------------------------------------------------------------------
(* The stock movements.                                                     *)

LEMMA TakeLedger ==
    ASSUME TypeOK, NEW o \in Orders, NEW n \in Int, Take(o, n)
    PROVE  /\ ledger'[o] = ledger[o] + n
           /\ \A k \in Orders \ {o} : ledger'[k] = ledger[k]
BY DEF TypeOK, Take

LEMMA RestoreLedger ==
    ASSUME TypeOK, NEW o \in Orders, Restore(o)
    PROVE  /\ ledger'[o] - lost'[o] = ledger[o] - lost[o] - qty[o]
           /\ \A k \in Orders \ {o} : ledger'[k] = ledger[k] /\ lost'[k] = lost[k]
<1>0. qty[o] \in Nat /\ -qty[o] \in Int /\ ledger[o] \in Int /\ lost[o] \in Nat
  BY StockAssumption DEF TypeOK
<1>1. CASE stock + qty[o] <= StockCap
  <2>1. Take(o, -qty[o]) /\ lost' = lost
    BY <1>1 DEF Restore
  <2> QED
    BY <1>0, <2>1, TakeLedger
<1>2. CASE ~(stock + qty[o] <= StockCap)
  BY <1>0, <1>2 DEF Restore, TypeOK
<1> QED
  BY <1>1, <1>2

-----------------------------------------------------------------------------
(* What a step may do to the invariant of one order.                        *)

SaversKept(o) ==
    \A w \in Workers :
        /\ Saving(w, o)' <=> Saving(w, o)
        /\ Saving(w, o) => job'[w].units = job[w].units

LedgerKept(o) ==
    /\ qty'[o] = qty[o] /\ ledger'[o] = ledger[o] /\ lost'[o] = lost[o]
    /\ billed'[o] = billed[o] /\ disturbed'[o] = disturbed[o]

\* The step does not concern the order, or moves its hold.
Keeps(o) ==
    /\ order'[o].status = order[o].status /\ order'[o].package = order[o].package
    /\ order[o].left # NoHold => order'[o].left # NoHold
    /\ payment'[o] = payment[o]
    /\ LedgerKept(o) /\ SaversKept(o)

LEMMA KeepsOrder ==
    ASSUME NEW o \in Orders, OrderInv(o), Keeps(o)
    PROVE  OrderInv(o)'
<1>1. Status(o)' = Status(o) /\ Reserved(o)' = Reserved(o) /\ IsOpen(o)' = IsOpen(o)
      /\ Exists(o)' = Exists(o)
  BY DEF Keeps, LedgerKept, Status, Reserved, IsOpen, Exists
<1>2. Balanced(o) => Balanced(o)'
  BY <1>1 DEF Keeps, LedgerKept, SaversKept, Balanced
<1>3. (Billed(o) => Billed(o)') /\ (Limited(o) => Limited(o)')
  BY <1>1 DEF Keeps, LedgerKept, Billed, Limited, Unlimited
<1> QED
  BY <1>1, <1>2, <1>3 DEF OrderInv, Keeps, LedgerKept, Status

\* The order moves on and stays live, or its payment does.
Moves(o) ==
    /\ Status(o)' # "absent"
    /\ Exists(o)' => Exists(o)
    /\ Status(o)' \in Live <=> Status(o) \in Live
    /\ payment'[o] # "none" => payment[o] # "none"
    /\ Status(o)' = "draft" => Status(o) = "draft" /\ order'[o].package = order[o].package
    /\ LedgerKept(o) /\ SaversKept(o)

LEMMA MovesOrder ==
    ASSUME NEW o \in Orders, OrderInv(o), Moves(o),
           ~disturbed[o] => Limited(o)'
    PROVE  OrderInv(o)'
<1>1. Status(o)' # "absent" /\ Reserved(o)' = Reserved(o)
  BY DEF Moves, LedgerKept, Reserved
<1>2. Balanced(o) => Balanced(o)'
  BY <1>1 DEF Moves, LedgerKept, SaversKept, Balanced
<1>3. Billed(o) => Billed(o)'
  BY DEF Moves, LedgerKept, Billed
<1> QED
  BY <1>1, <1>2, <1>3 DEF OrderInv, Moves, LedgerKept

\* The order is closed or deleted and what it reserves is put back or lost.
Closes(o) ==
    /\ Exists(o)
    /\ Status(o)' \in Closed \cup {"deleted"}
    /\ ledger'[o] \in Int /\ lost'[o] \in Int /\ ledger[o] \in Int /\ lost[o] \in Int
    /\ qty[o] \in Int
    /\ ledger'[o] - lost'[o] = ledger[o] - lost[o] - Reserved(o)
    /\ payment'[o] # "none" => payment[o] # "none"
    /\ Exists(o)' => qty'[o] = qty[o] /\ billed'[o] = billed[o]
    /\ disturbed'[o] = disturbed[o]
    /\ SaversKept(o)

LEMMA ClosesOrder ==
    ASSUME NEW o \in Orders, OrderInv(o), Closes(o)
    PROVE  OrderInv(o)'
<1>1. /\ Status(o)' \notin Live /\ Status(o)' # "absent" /\ Status(o)' # "draft" /\ ~IsOpen(o)'
      /\ Reserved(o)' = 0 /\ Reserved(o) \in Int
  BY StatusFacts DEF Closes, Reserved, IsOpen, Live, Closed, Open, Rest
<1>2. Balanced(o) => Balanced(o)'
  BY <1>1 DEF Closes, SaversKept, Balanced
<1>3. (Billed(o) => Billed(o)') /\ Limited(o)'
  BY <1>1 DEF Closes, Billed, Limited
<1> QED
  BY <1>1, <1>2, <1>3 DEF OrderInv, Closes


-----------------------------------------------------------------------------
(* Steps on one order leave the others alone.                               *)

Frame(k) ==
    \A o \in Orders \ {k} :
        order'[o] = order[o] /\ payment'[o] = payment[o] /\ LedgerKept(o)

\* No request begins or ends its second half.
NoSaving == \A o \in Orders : SaversKept(o)

LEMMA JobsUntouched ==
    ASSUME job' = job
    PROVE  NoSaving
BY DEF NoSaving, SaversKept, Saving

LEMMA OtherJob ==
    ASSUME TypeOK, NEW w \in Workers, NEW j, SetJob(w, j), job[w].op # "save", j.op # "save"
    PROVE  NoSaving
<1>1. job'[w] = j /\ \A v \in Workers \ {w} : job'[v] = job[v]
  BY DEF SetJob, TypeOK
<1> QED
  BY <1>1 DEF NoSaving, SaversKept, Saving

LEMMA FrameKeeps ==
    ASSUME NEW k \in Orders, Frame(k), NoSaving
    PROVE  \A o \in Orders \ {k} : Keeps(o)
BY DEF Frame, Keeps, NoSaving

LEMMA WorkerFrame ==
    ASSUME TypeOK, NEW k \in Orders, Frame(k), NEW w \in Workers, NEW j, SetJob(w, j),
           job[w].op = "save" => job[w].ord = k,
           j.op = "save" => j.ord = k
    PROVE  \A o \in Orders \ {k} : Keeps(o)
<1> SUFFICES ASSUME NEW o \in Orders \ {k} PROVE Keeps(o)
  OBVIOUS
<1>1. \A v \in Workers \ {w} : job'[v] = job[v]
  BY DEF SetJob, TypeOK
<1>2. job'[w] = j
  BY DEF SetJob, TypeOK
<1>3. SaversKept(o)
  BY <1>1, <1>2 DEF SaversKept, Saving
<1> QED
  BY <1>3 DEF Frame, Keeps

LEMMA SavedRow ==
    ASSUME TypeOK, NEW k \in Orders, NEW r, SaveOrder(k, r)
    PROVE  /\ order'[k] = r
           /\ \A o \in Orders \ {k} : order'[o] = order[o]
           /\ UNCHANGED stockVars
BY DEF SaveOrder, SetOrder, TypeOK

LEMMA CancelledRow ==
    ASSUME TypeOK, NEW k \in Orders, NEW r \in Rows, CancelOrder(k, r)
    PROVE  /\ order'[k].status = "cancelled"
           /\ qty' = qty
           /\ ledger'[k] - lost'[k] = ledger[k] - lost[k] - qty[k]
           /\ \A o \in Orders \ {k} :
                 order'[o] = order[o] /\ ledger'[o] = ledger[o] /\ lost'[o] = lost[o]
<1>1. order'[k] = [r EXCEPT !.status = "cancelled"]
  BY DEF CancelOrder, SetOrder, TypeOK
<1>2. order'[k].status = "cancelled"
  BY <1>1 DEF Rows
<1>3. \A o \in Orders \ {k} : order'[o] = order[o]
  BY DEF CancelOrder, SetOrder, TypeOK
<1> QED
  BY <1>2, <1>3, RestoreLedger DEF CancelOrder

LEMMA PaidRow ==
    ASSUME TypeOK, NEW k \in Orders, NEW p, SetPayment(k, p)
    PROVE  payment'[k] = p /\ \A o \in Orders \ {k} : payment'[o] = payment[o]
BY DEF SetPayment, TypeOK

LEMMA BalancedKept ==
    ASSUME NEW o \in Orders, Balanced(o), SaversKept(o),
           Status(o)' \in Live <=> Status(o) \in Live,
           qty'[o] = qty[o], ledger'[o] = ledger[o], lost'[o] = lost[o]
    PROVE  Balanced(o)'
<1>1. Reserved(o)' = Reserved(o)
  BY DEF Reserved
<1> QED
  BY <1>1 DEF Balanced, SaversKept

-----------------------------------------------------------------------------
(* The actions that lock the order.                                         *)

LEMMA ExtendOrder ==
    ASSUME IInv, NEW k \in Orders, Extend(k)
    PROVE  \A o \in Orders : OrderInv(o)'
<1>1. PICK t \in 1..ExtensionTime :
          SaveOrder(k, [order[k] EXCEPT !.left = order[k].left + t, !.ext = order[k].ext + 1])
  BY DEF Extend
<1>2. /\ TypeOK /\ order[k] \in Rows /\ order[k].left > 0 /\ order[k].left \in Int
      /\ payment' = payment /\ billed' = billed /\ job' = job /\ disturbed' = disturbed
  BY DEF Extend, IInv, TypeOK, Unrelated, requestVars, Rows, Holds, NoHold
<1>3. /\ order'[k] = [order[k] EXCEPT !.left = order[k].left + t, !.ext = order[k].ext + 1]
      /\ \A o \in Orders \ {k} : order'[o] = order[o]
      /\ UNCHANGED stockVars
  BY <1>1, <1>2, SavedRow
<1>4. /\ order'[k].status = order[k].status /\ order'[k].package = order[k].package
      /\ order'[k].left # NoHold
  BY <1>2, <1>3, TimeAssumption DEF Rows, NoHold
<1>5. Keeps(k)
  BY <1>2, <1>3, <1>4 DEF Keeps, LedgerKept, SaversKept, Saving, stockVars
<1>6. \A o \in Orders \ {k} : Keeps(o)
  BY <1>2, <1>3, FrameKeeps, JobsUntouched DEF Frame, LedgerKept, stockVars
<1> QED
  BY <1>5, <1>6, KeepsOrder DEF IInv

LEMMA CheckoutOrder ==
    ASSUME IInv, NEW k \in Orders, Checkout(k)
    PROVE  \A o \in Orders : OrderInv(o)'
<1> DEFINE r1 == [order[k] EXCEPT !.status = "pending", !.left = CheckoutTime, !.ext = 0,
                                   !.paying = TRUE]
           r2 == [order[k] EXCEPT !.status = "pending", !.left = NoHold, !.paying = TRUE]
           r3 == [order[k] EXCEPT !.status = "processing", !.left = NoHold]
<1>1. /\ TypeOK /\ order[k] \in Rows /\ OrderInv(k)
      /\ Status(k) = "draft" /\ qty[k] > 0
      /\ job' = job /\ disturbed' = disturbed
      /\ billed' = [billed EXCEPT ![k] = qty[k]]
  BY DEF Checkout, IInv, TypeOK, Unrelated, requestVars
<1>2. r1.status = "pending" /\ r1.left # NoHold /\ r2.status = "pending" /\ r3.status = "processing"
  BY <1>1, HoldFacts DEF Rows
<1>3. \/ SaveOrder(k, r1) /\ SetPayment(k, "open")
      \/ SaveOrder(k, r2) /\ SetPayment(k, "offline")
      \/ SaveOrder(k, r3) /\ payment' = payment
  BY DEF Checkout
<1>4. /\ \A o \in Orders \ {k} : order'[o] = order[o] /\ payment'[o] = payment[o]
      /\ UNCHANGED stockVars
      /\ \/ Status(k)' = "pending" /\ order'[k].left # NoHold
         \/ Status(k)' = "pending" /\ payment'[k] = "offline"
         \/ Status(k)' = "processing"
  <2> HIDE DEF r1, r2, r3
  <2> QED
    BY <1>1, <1>2, <1>3, SavedRow, PaidRow DEF Status
<1>5. Status(k) \in Live /\ Status(k)' \in Live /\ Status(k)' \notin {"draft", "absent"}
      /\ (Status(k)' \in Open => Status(k)' = "pending")
  BY <1>1, <1>4 DEF Live, Open, Rest
<1>6. ~disturbed[k] => Balanced(k)'
  BY <1>1, <1>4, <1>5, BalancedKept DEF OrderInv, SaversKept, Saving, stockVars
<1>7. Billed(k)'
  BY <1>1, <1>4, <1>5 DEF Billed, TypeOK, stockVars
<1>8. Limited(k)'
  BY <1>4, <1>5 DEF Limited, IsOpen, Unlimited
<1>9. OrderInv(k)'
  BY <1>1, <1>5, <1>6, <1>7, <1>8 DEF OrderInv
<1>10. \A o \in Orders \ {k} : billed'[o] = billed[o]
  BY <1>1 DEF TypeOK
<1>11. \A o \in Orders \ {k} : Keeps(o)
  BY <1>1, <1>4, <1>10, FrameKeeps, JobsUntouched DEF Frame, LedgerKept, stockVars
<1> QED
  BY <1>9, <1>11, KeepsOrder DEF IInv

LEMMA LostOrder ==
    ASSUME IInv, NEW k \in Orders, PaymentLost(k), payment[k] # "none", NoSaving,
           job' \in [Workers -> Jobs]
    PROVE  \A o \in Orders : OrderInv(o)'
<1>1. /\ TypeOK /\ order[k] \in Rows /\ OrderInv(k) /\ SetPayment(k, "void")
      /\ disturbed' = disturbed /\ billed' = billed
  BY DEF PaymentLost, IInv, TypeOK
<1>2. payment'[k] = "void" /\ \A o \in Orders \ {k} : payment'[o] = payment[o]
  BY <1>1, PaidRow
<1>3. Status(k) # "absent"
  BY <1>1 DEF OrderInv
<1>4. CASE "cancelled" \in Allowed(Status(k))
  <2>1. CancelOrder(k, order[k])
    BY <1>4 DEF PaymentLost
  <2>2. /\ Status(k)' = "cancelled" /\ qty' = qty
        /\ ledger'[k] - lost'[k] = ledger[k] - lost[k] - qty[k]
        /\ \A o \in Orders \ {k} :
              order'[o] = order[o] /\ ledger'[o] = ledger[o] /\ lost'[o] = lost[o]
    BY <1>1, <2>1, CancelledRow DEF Status
  <2>3. Status(k) \in Live /\ Exists(k)
    BY <1>4, AllowedFacts, StatusFacts DEF Exists
  <2>4. TypeOK'
    BY <1>1, LostType
  <2>5. Closes(k)
    BY <1>1, <1>2, <2>2, <2>3, <2>4, StatusFacts, StockAssumption
    DEF Closes, Reserved, NoSaving, TypeOK
  <2>6. \A o \in Orders \ {k} : Keeps(o)
    BY <1>1, <1>2, <2>2, FrameKeeps DEF Frame, LedgerKept
  <2> QED
    BY <2>5, <2>6, KeepsOrder, ClosesOrder DEF IInv
<1>5. CASE "cancelled" \notin Allowed(Status(k))
  <2>1. order' = order /\ UNCHANGED stockVars
    BY <1>5 DEF PaymentLost, KeepOrder
  <2>2. Moves(k)
    BY <1>1, <1>3, <2>1 DEF Moves, LedgerKept, NoSaving, Status, Exists, stockVars
  <2>3. Limited(k)'
    BY <1>5, <2>1, AllowedFacts DEF Limited, IsOpen, Status
  <2>4. \A o \in Orders \ {k} : Keeps(o)
    BY <1>1, <1>2, <2>1, FrameKeeps DEF Frame, LedgerKept, stockVars
  <2> QED
    BY <2>2, <2>3, <2>4, KeepsOrder, MovesOrder DEF IInv
<1> QED
  BY <1>4, <1>5

\* The payment changes and the order stays live if it was.
LEMMA SettledOrder ==
    ASSUME IInv, NEW k \in Orders, NEW r \in Rows, NEW p,
           SaveOrder(k, r) \/ (KeepOrder /\ r = order[k]),
           SetPayment(k, p), NoSaving, disturbed' = disturbed, billed' = billed,
           payment[k] # "none" \/ p = payment[k], Status(k) # "absent",
           r.package = order[k].package,
           r.status = Status(k) \/ (r.status = "processing" /\ Status(k) \in Live),
           ~disturbed[k] /\ r.status \in Open /\ qty[k] > 0 =>
               r.left # NoHold \/ p \in {"offline", "stuck"} \cup Accepted
    PROVE  \A o \in Orders : OrderInv(o)'
<1>1. TypeOK /\ OrderInv(k)
  BY DEF IInv
<1>2. payment'[k] = p /\ \A o \in Orders \ {k} : payment'[o] = payment[o]
  BY <1>1, PaidRow
<1>3. /\ order'[k] = r
      /\ \A o \in Orders \ {k} : order'[o] = order[o]
      /\ UNCHANGED stockVars
  BY <1>1, SavedRow DEF KeepOrder
<1>4. Status(k) # "absent" /\ Status(k)' = r.status
  BY <1>3 DEF Status
<1>5. Moves(k)
  BY <1>1, <1>2, <1>3, <1>4, StatusFacts
  DEF Moves, LedgerKept, NoSaving, Exists, stockVars, Open
<1>6. ~disturbed[k] => Limited(k)'
  BY <1>2, <1>3, <1>4 DEF Limited, IsOpen, stockVars, Unlimited
<1>7. \A o \in Orders \ {k} : Keeps(o)
  BY <1>1, <1>2, <1>3, FrameKeeps DEF Frame, LedgerKept, stockVars
<1> QED
  BY <1>1, <1>5, <1>6, <1>7, KeepsOrder, MovesOrder DEF IInv

LEMMA ExcusedOrder ==
    ASSUME NEW o \in Orders, disturbed'[o], Status(o)' \notin {"absent", "draft"}
    PROVE  OrderInv(o)'
BY DEF OrderInv

LEMMA Engaged ==
    ASSUME IInv, NEW k \in Orders, payment[k] # "none"
    PROVE  Status(k) # "absent"
BY DEF IInv, OrderInv

\* A copy of the order is saved: the order had stayed pending or processing
\* since it was read, or nothing is said of it any more.
LEMMA TargetOrder ==
    ASSUME IInv, NEW k \in Orders, NEW row \in Rows, SaveTarget(k, row),
           NEW p, SetPayment(k, p), payment[k] # "none", NoSaving, billed' = billed
    PROVE  \A o \in Orders : OrderInv(o)'
<1> DEFINE r == [row EXCEPT !.status = "processing"]
<1>1. TypeOK /\ OrderInv(k) /\ SaveOrder(k, r) /\ r.status = "processing"
  BY DEF IInv, SaveTarget, Rows
<1>2. payment'[k] = p /\ \A o \in Orders \ {k} : payment'[o] = payment[o]
  BY <1>1, PaidRow
<1> HIDE DEF r
<1>3. /\ order'[k] = r
      /\ \A o \in Orders \ {k} : order'[o] = order[o]
      /\ UNCHANGED stockVars
  BY <1>1, SavedRow
<1>4. /\ disturbed'[k] = (disturbed[k] \/ Status(k) \notin {"pending", "processing"})
      /\ \A o \in Orders \ {k} : disturbed'[o] = disturbed[o]
  BY <1>1, Zenon DEF SaveTarget, DisturbedIf, TypeOK
<1>5. Status(k)' = "processing" /\ "processing" \in Live \ Open /\ "pending" \in Live
  BY <1>1, <1>3, StatusFacts DEF Status
<1>6. ASSUME disturbed'[k] PROVE OrderInv(k)'
  BY <1>5, <1>6, ExcusedOrder
<1>7. ASSUME ~disturbed'[k] PROVE OrderInv(k)'
  <2>1. /\ Status(k) \in {"pending", "processing"}
        /\ disturbed'[k] = disturbed[k]
    BY <1>1, <1>4, <1>7 DEF TypeOK
  <2>2. Moves(k)
    BY <1>2, <1>3, <1>5, <2>1, StatusFacts
    DEF Moves, LedgerKept, NoSaving, Exists, stockVars
  <2>3. Limited(k)'
    BY <1>5 DEF Limited, IsOpen
  <2> QED
    BY <1>1, <2>2, <2>3, MovesOrder
<1>8. \A o \in Orders \ {k} : Keeps(o)
  BY <1>1, <1>2, <1>3, <1>4, FrameKeeps DEF Frame, LedgerKept, stockVars
<1> QED
  BY <1>6, <1>7, <1>8, KeepsOrder DEF IInv

LEMMA SucceededOrder ==
    ASSUME IInv, NEW k \in Orders, SucceededEvent(k)
    PROVE  \A o \in Orders : OrderInv(o)'
<1>1. /\ TypeOK /\ order[k] \in Rows /\ job' = job /\ billed' = billed
      /\ SetPayment(k, "paid") /\ payment[k] # "none" /\ "paid" \in Accepted
  BY DEF SucceededEvent, IInv, TargetInv, TypeOK, requestVars, Accepted
<1>2. CASE target[k].status = "pending"
  <2>1. target[k] \in Rows /\ SaveTarget(k, target[k])
    BY <1>1, <1>2 DEF SucceededEvent, Unlocked, Targets, TypeOK
  <2> QED
    BY <1>1, <2>1, JobsUntouched, TargetOrder
<1>3. CASE target[k].status # "pending"
  <2>1. KeepOrder /\ disturbed' = disturbed
    BY <1>3 DEF SucceededEvent
  <2> QED
    BY <1>1, <2>1, JobsUntouched, Engaged, SettledOrder DEF Status
<1> QED
  BY <1>2, <1>3

LEMMA PaymentOrder ==
    ASSUME IInv, NEW k \in Orders, PaymentStep(k)
    PROVE  \A o \in Orders : OrderInv(o)'
<1>1. /\ TypeOK /\ order[k] \in Rows /\ OrderInv(k)
      /\ payment = [payment EXCEPT ![k] = payment[k]]
  BY DEF IInv, TypeOK
<1>2. CASE Capture(k)
  <2> DEFINE p == IF payment[k] = "open" THEN "captured" ELSE "stuck"
  <2>1. /\ payment[k] \in {"open", "failed"} /\ SetPayment(k, p) /\ KeepOrder
        /\ job' = job /\ disturbed' = disturbed /\ billed' = billed
    BY <1>2 DEF Capture, Unrelated, requestVars
  <2>2. ~disturbed[k] /\ Status(k) \in Open /\ qty[k] > 0 => order[k].left # NoHold
    BY <1>1, <2>1 DEF OrderInv, Limited, IsOpen, Accepted, Unlimited
  <2> HIDE DEF p
  <2> QED
    BY <1>1, <2>1, <2>2, JobsUntouched, Engaged, SettledOrder DEF Status
<1>3. CASE FailedEvent(k) \/ CanceledEvent(k)
  <2>1. job' = job /\ payment[k] # "none" /\ PaymentLost(k)
    BY <1>3 DEF FailedEvent, CanceledEvent
  <2> QED
    BY <1>1, <2>1, JobsUntouched, LostOrder DEF TypeOK
<1>4. CASE ReadTarget(k)
  <2>1. /\ KeepOrder /\ job' = job /\ disturbed' = disturbed /\ billed' = billed
        /\ payment' = payment /\ payment[k] # "none"
    BY <1>4 DEF ReadTarget, requestVars
  <2>2. SetPayment(k, payment[k])
    BY <1>1, <2>1 DEF SetPayment
  <2>3. ~disturbed[k] /\ Status(k) \in Open /\ qty[k] > 0 =>
            order[k].left # NoHold \/ payment[k] \in {"offline", "stuck"} \cup Accepted
    BY <1>1 DEF OrderInv, Limited, IsOpen, Unlimited
  <2> QED
    BY <1>1, <2>1, <2>2, <2>3, JobsUntouched, Engaged, SettledOrder DEF Status
<1>5. CASE Settle(k)
  <2> DEFINE s == IF ~ApprovalRequired /\ "processing" \in Allowed(order[k].status)
                  THEN "processing" ELSE order[k].status
             r == [order[k] EXCEPT !.left = NoHold, !.status = s]
  <2>1. r \in Rows /\ r.status = s /\ r.package = order[k].package
    BY <1>1, StatusFacts, HoldFacts DEF Rows
  <2>2. s = Status(k) \/ (s = "processing" /\ Status(k) \in Live)
    BY AllowedFacts DEF Status
  <2>3. /\ SaveOrder(k, r) /\ SetPayment(k, "settled") /\ job' = job
        /\ disturbed' = disturbed /\ billed' = billed
        /\ payment[k] # "none" /\ "settled" \in Accepted
    BY <1>5 DEF Settle, Accepted, Unrelated, requestVars
  <2> HIDE DEF r, s
  <2> QED
    BY <2>1, <2>2, <2>3, JobsUntouched, Engaged, SettledOrder
<1>6. CASE FulfilBooking(k)
  <2> DEFINE r == [order[k] EXCEPT !.status = "processing"]
  <2>1. /\ r \in Rows /\ r.status = "processing" /\ r.package = order[k].package
        /\ "processing" \notin Open /\ "pending" \in Live
    BY <1>1, StatusFacts DEF Rows
  <2>2. /\ SaveOrder(k, r) /\ payment' = payment /\ job' = job
        /\ disturbed' = disturbed /\ billed' = billed
        /\ Status(k) = "pending"
    BY <1>6 DEF FulfilBooking, Unrelated, requestVars
  <2>3. SetPayment(k, payment[k])
    BY <1>1, <2>2 DEF SetPayment
  <2> HIDE DEF r
  <2> QED
    BY <2>1, <2>2, <2>3, JobsUntouched, SettledOrder
<1> QED
  BY <1>2, <1>3, <1>4, <1>5, <1>6, SucceededOrder DEF PaymentStep

\* Staff decide about the payment and do not look at the order.
LEMMA StaffOrder ==
    ASSUME IInv, NEW w \in Workers, NEW k \in Orders,
           \/ MarkCompleted(w, k) \/ MarkFailed(w, k) \/ CancelPayment(w, k)
           \/ VerifyTransfer(w, k) \/ MoveOn(w, k)
    PROVE  \A o \in Orders : OrderInv(o)'
<1>1. /\ TypeOK /\ order[k] \in Rows /\ OrderInv(k) /\ job[w] \in Jobs
      /\ payment = [payment EXCEPT ![k] = payment[k]]
  BY DEF IInv, TypeOK
<1>2. job[w].op \in Deciding /\ job[w].ord = k
  BY DEF MarkCompleted, MarkFailed, DecidePayment, CancelPayment, VerifyTransfer, MoveOn,
         Deciding, Verifying, StaffOps
<1>3. payment[k] # "none" /\ job[w].op # "save"
  BY <1>2, JobOps DEF IInv, JobsInv, Moving
<1>4. Status(k) # "absent"
  BY <1>3, Engaged
<1>5. ASSUME NEW p, SetPayment(k, p), KeepOrder, NoSaving,
             disturbed' = disturbed, billed' = billed,
             p \in {"stuck"} \cup Accepted \/ (p = "failed" /\ payment[k] \in {"open", "failed"})
      PROVE  \A o \in Orders : OrderInv(o)'
  <2>1. ~disturbed[k] /\ Status(k) \in Open /\ qty[k] > 0 =>
            order[k].left # NoHold \/ p \in {"offline", "stuck"} \cup Accepted
    BY <1>1, <1>5 DEF OrderInv, Limited, IsOpen, Unlimited, Accepted
  <2> QED
    BY <1>1, <1>3, <1>4, <1>5, <2>1, SettledOrder DEF Status
<1>6. SetJob(w, Idle) => NoSaving
  BY <1>1, <1>3, OtherJob, JobOps DEF Moving
<1>7. CASE MarkCompleted(w, k)
  BY <1>5, <1>6, <1>7 DEF MarkCompleted, DecidePayment, Accepted
<1>8. CASE MarkFailed(w, k)
  <2> DEFINE p == IF payment[k] \in {"open", "failed"} THEN "failed" ELSE "stuck"
  <2>1. /\ SetPayment(k, p) /\ SetJob(w, Idle) /\ KeepOrder
        /\ disturbed' = disturbed /\ billed' = billed
    BY <1>8 DEF MarkFailed, DecidePayment
  <2>2. p = "stuck" \/ (p = "failed" /\ payment[k] \in {"open", "failed"})
    OBVIOUS
  <2> HIDE DEF p
  <2> QED
    BY <1>5, <1>6, <2>1, <2>2
<1>9. CASE CancelPayment(w, k)
  <2>1. job' \in [Workers -> Jobs] /\ SetJob(w, Idle) /\ PaymentLost(k)
    BY <1>1, <1>9, JobShapes DEF CancelPayment, SetJob, TypeOK
  <2> QED
    BY <1>3, <1>6, <2>1, LostOrder
<1>10. CASE VerifyTransfer(w, k)
  <2>1. job[w].op \in Verifying /\ job[w] = [op |-> job[w].op, ord |-> job[w].ord, snap |-> job[w].snap]
    BY <1>1, <1>10, VerifyFields DEF VerifyTransfer, Verifying
  <2>2. PICK j : SetJob(w, j) /\ j.op # "save"
    BY <1>10, <2>1, JobOps DEF VerifyTransfer, Moving
  <2>3. NoSaving
    BY <1>1, <1>3, <2>2, OtherJob
  <2>4. /\ KeepOrder /\ disturbed' = disturbed /\ billed' = billed
        /\ \E p \in Accepted : SetPayment(k, p)
    BY <1>10 DEF VerifyTransfer, Accepted
  <2> QED
    BY <1>5, <2>3, <2>4
<1>11. CASE MoveOn(w, k)
  <2>1. /\ job[w].op = "moveOn" /\ job[w].snap \in Rows
        /\ job[w] = [op |-> job[w].op, ord |-> job[w].ord, snap |-> job[w].snap]
    BY <1>1, <1>11, VerifyFields, JobFields DEF MoveOn, Verifying
  <2>2. PICK j : SetJob(w, j) /\ j.op # "save"
    BY <1>11, <2>1, JobOps DEF MoveOn, Moving
  <2>3. NoSaving
    BY <1>1, <1>3, <2>2, OtherJob
  <2>4. SaveTarget(k, job[w].snap) /\ SetPayment(k, payment[k]) /\ billed' = billed
    BY <1>1, <1>11 DEF MoveOn, SetPayment
  <2> QED
    BY <1>3, <2>1, <2>3, <2>4, TargetOrder
<1> QED
  BY <1>7, <1>8, <1>9, <1>10, <1>11

LEMMA PackageOrderInv ==
    ASSUME IInv, NEW k \in Orders, PackageOrder(k)
    PROVE  \A o \in Orders : OrderInv(o)'
<1> DEFINE r == [Absent EXCEPT !.status = "pending", !.paying = TRUE, !.package = TRUE]
<1>1. /\ TypeOK /\ OrderInv(k) /\ Status(k) = "absent"
      /\ job' = job /\ disturbed' = disturbed /\ lost' = lost
      /\ order' = [order EXCEPT ![k] = r] /\ r.status = "pending"
  BY DEF IInv, PackageOrder, Unrelated, requestVars, SetOrder, Absent
<1>2. PICK n \in 1..MaxQuantity :
          /\ Take(k, n)
          /\ qty' = [qty EXCEPT ![k] = n]
          /\ billed' = [billed EXCEPT ![k] = n]
  BY DEF PackageOrder
<1>3. PICK p \in {"offline", "paid"} : SetPayment(k, p)
  BY DEF PackageOrder
<1>4. /\ n \in Int /\ qty'[k] = n /\ billed'[k] = n /\ Status(k)' = "pending"
      /\ \A o \in Orders \ {k} :
            order'[o] = order[o] /\ qty'[o] = qty[o] /\ billed'[o] = billed[o]
  BY <1>1, <1>2 DEF TypeOK, Status
<1>5. payment'[k] = p /\ \A o \in Orders \ {k} : payment'[o] = payment[o]
  BY <1>1, <1>3, PaidRow
<1>6. ledger'[k] = ledger[k] + n /\ \A o \in Orders \ {k} : ledger'[o] = ledger[o]
  BY <1>1, <1>2, <1>4, TakeLedger
<1>7. \A w \in Workers : ~Saving(w, k) /\ ~Saving(w, k)'
  BY <1>1 DEF IInv, JobsInv, Saving, Moving
<1>8. ~disturbed'[k] => Balanced(k)'
  <2>1. Reserved(k) = 0 /\ Reserved(k)' = n /\ lost[k] \in Int
    BY <1>1, <1>4, StatusFacts DEF Reserved, TypeOK
  <2>2. ~disturbed[k] => ledger[k] = lost[k]
    BY <1>1, <1>7, <2>1 DEF OrderInv, Balanced
  <2> QED
    BY <1>1, <1>4, <1>6, <1>7, <2>1, <2>2 DEF Balanced
<1>9. Billed(k)' /\ Limited(k)'
  BY <1>4, <1>5 DEF Billed, Limited, Unlimited, Accepted
<1>10. OrderInv(k)'
  BY <1>4, <1>8, <1>9 DEF OrderInv
<1>11. \A o \in Orders \ {k} : Keeps(o)
  BY <1>1, <1>4, <1>5, <1>6, FrameKeeps, JobsUntouched DEF Frame, LedgerKept
<1> QED
  BY <1>10, <1>11, KeepsOrder DEF IInv

LEMMA ExpireOrder ==
    ASSUME IInv, NEW k \in Orders, Expire(k)
    PROVE  \A o \in Orders : OrderInv(o)'
<1> DEFINE how == IF order[k].paying THEN payment[k] ELSE "none"
           r1 == [order[k] EXCEPT !.left = NoHold]
           r2 == [order[k] EXCEPT !.left = RetryTime]
<1>1. /\ TypeOK /\ order[k] \in Rows /\ OrderInv(k) /\ Unrelated /\ billed' = billed
      /\ Status(k) \in Open /\ order[k].left = 0
      /\ job' = job /\ disturbed' = disturbed
  BY DEF Expire, IInv, TypeOK, Lapsed, IsOpen, Unrelated, requestVars
<1>2. /\ r1 \in Rows /\ r2 \in Rows /\ r1.status = Status(k) /\ r2.status = Status(k)
      /\ r1.package = order[k].package /\ r2.package = order[k].package
      /\ r2.left # NoHold /\ Status(k) \in Live /\ 0 # NoHold
  BY <1>1, HoldFacts, StatusFacts DEF Rows, Status, NoHold
<1>3. ASSUME NEW r \in Rows, SaveOrder(k, r), payment' = payment, r.status = Status(k),
             r.package = order[k].package,
             r.left # NoHold \/ payment[k] \in Accepted
      PROVE  \A o \in Orders : OrderInv(o)'
  <2>1. /\ order'[k] = r /\ UNCHANGED stockVars
        /\ \A o \in Orders \ {k} : order'[o] = order[o]
    BY <1>1, <1>3, SavedRow
  <2>2. Moves(k)
    BY <1>1, <1>2, <1>3, <2>1, StatusFacts
    DEF Moves, LedgerKept, SaversKept, Saving, Exists, Status, stockVars
  <2>3. Limited(k)'
    BY <1>3, <2>1 DEF Limited, Unlimited
  <2>4. \A o \in Orders \ {k} : Keeps(o)
    BY <1>1, <1>3, <2>1, FrameKeeps, JobsUntouched DEF Frame, LedgerKept, stockVars
  <2> QED
    BY <1>1, <2>2, <2>3, <2>4, KeepsOrder, MovesOrder DEF IInv
<1>4. CASE SaveOrder(k, r1) /\ payment' = payment /\ how \in Accepted
  <2>1. payment[k] \in Accepted
    BY <1>4 DEF Accepted
  <2> HIDE DEF r1, how
  <2> QED
    BY <1>2, <1>3, <1>4, <2>1
<1>5. CASE SaveOrder(k, r2) /\ payment' = payment
  <2> HIDE DEF r2
  <2> QED
    BY <1>2, <1>3, <1>5
<1>6. CASE CancelOrder(k, r1) /\ IF how = "none" THEN UNCHANGED payment ELSE SetPayment(k, "void")
  <2>1. /\ Status(k)' = "cancelled" /\ qty' = qty
        /\ ledger'[k] - lost'[k] = ledger[k] - lost[k] - qty[k]
        /\ \A o \in Orders \ {k} :
              order'[o] = order[o] /\ ledger'[o] = ledger[o] /\ lost'[o] = lost[o]
    BY <1>1, <1>2, <1>6, CancelledRow DEF Status
  <2>2. /\ payment'[k] # "none" => payment[k] # "none"
        /\ \A o \in Orders \ {k} : payment'[o] = payment[o]
    <3>1. CASE how = "none"
      BY <1>6, <3>1
    <3>2. CASE how # "none"
      BY <1>1, <1>6, <3>2, PaidRow
    <3> QED
      BY <3>1, <3>2
  <2>3. TypeOK'
    BY <1>1, OrderType
  <2>4. Closes(k)
    BY <1>1, <1>2, <2>1, <2>2, <2>3, StatusFacts, StockAssumption
    DEF Closes, Reserved, SaversKept, Saving, Exists, TypeOK
  <2>5. \A o \in Orders \ {k} : Keeps(o)
    BY <1>1, <2>1, <2>2, FrameKeeps, JobsUntouched DEF Frame, LedgerKept
  <2> QED
    BY <2>4, <2>5, KeepsOrder, ClosesOrder DEF IInv
<1>7. CASE /\ how \in {"open", "failed"} /\ KeepOrder
           /\ SetPayment(k, IF how = "open" THEN "canceled" ELSE "stuck")
  <2>1. payment[k] # "none" /\ order[k].left # NoHold
    BY <1>1, <1>2, <1>7
  <2>2. PICK p : SetPayment(k, p)
    BY <1>7
  <2> QED
    BY <1>1, <1>7, <2>1, <2>2, JobsUntouched, Engaged, SettledOrder DEF Status
<1> QED
  BY <1>4, <1>5, <1>6, <1>7 DEF Expire

LEMMA DeleteOrder ==
    ASSUME IInv, NEW k \in Orders, Delete(k)
    PROVE  \A o \in Orders : OrderInv(o)'
<1>1. /\ TypeOK /\ order[k] \in Rows /\ Exists(k) /\ job' = job /\ disturbed' = disturbed
      /\ ledger' = ledger /\ payment' = payment /\ billed' = billed
      /\ order' = [order EXCEPT ![k] = [order[k] EXCEPT !.status = "deleted"]]
      /\ lost' = [lost EXCEPT ![k] = lost[k] + Reserved(k)]
      /\ qty' = [qty EXCEPT ![k] = 0]
  BY DEF Delete, IInv, TypeOK, Unrelated, requestVars, SetOrder, Reserved
<1>2. Status(k)' = "deleted" /\ ~Exists(k)'
  BY <1>1, StatusFacts DEF TypeOK, Rows, Status, Exists
<1>3. Reserved(k) \in Int /\ lost[k] \in Int /\ ledger[k] \in Int /\ qty[k] \in Int
  BY <1>1, StockAssumption DEF TypeOK, Reserved
<1>4. lost'[k] = lost[k] + Reserved(k)
  BY <1>1 DEF TypeOK
<1>5. Closes(k)
  BY <1>1, <1>2, <1>3, <1>4 DEF Closes, SaversKept, Saving
<1>6. \A o \in Orders \ {k} : Keeps(o)
  BY <1>1, FrameKeeps, JobsUntouched DEF Frame, LedgerKept, TypeOK
<1> QED
  BY <1>5, <1>6, KeepsOrder, ClosesOrder DEF IInv

LEMMA TickKeeps ==
    ASSUME IInv, Tick
    PROVE  \A o \in Orders : Keeps(o)
<1> SUFFICES ASSUME NEW o \in Orders PROVE Keeps(o)
  OBVIOUS
<1>1. TypeOK /\ order[o] \in Rows /\ order'[o] = Aged(order[o])
  BY DEF IInv, TypeOK, Tick
<1>2. /\ order'[o].status = order[o].status /\ order'[o].package = order[o].package
      /\ order[o].left # NoHold => order'[o].left # NoHold
  BY <1>1, AgedRow
<1>4. SaversKept(o)
  BY <1>1, AgedJob DEF SaversKept, Saving
<1> QED
  BY <1>2, <1>4 DEF Tick, Keeps, LedgerKept, stockVars

LEMMA TickOrder ==
    ASSUME IInv, Tick
    PROVE  \A o \in Orders : OrderInv(o)'
BY TickKeeps, KeepsOrder DEF IInv

LEMMA StockOrder ==
    ASSUME IInv, AdjustStock
    PROVE  \A o \in Orders : OrderInv(o)'
<1>1. \A o \in Orders : Keeps(o)
  BY DEF AdjustStock, Unrelated, requestVars, Keeps, LedgerKept, SaversKept, Saving
<1> QED
  BY <1>1, KeepsOrder DEF IInv

-----------------------------------------------------------------------------
(* The actions of unlocked requests.                                        *)

\* A request that has read something but saved nothing disturbs no one.
LEMMA AskKeeps ==
    ASSUME IInv, NEW w \in Workers, Asks(w)
    PROVE  \A o \in Orders : Keeps(o)
<1>1. /\ TypeOK /\ job[w] = Idle
      /\ UNCHANGED <<order, stockVars, payment, billed, disturbed>>
  BY DEF IInv, Asks, Ask
<1>2. NoSaving
  BY <1>1, OtherJob, JobOps DEF Asks, Ask, Moving
<1> QED
  BY <1>1, <1>2 DEF Keeps, LedgerKept, NoSaving, stockVars

LEMMA AskOrder ==
    ASSUME IInv, NEW w \in Workers, Asks(w)
    PROVE  \A o \in Orders : OrderInv(o)'
BY AskKeeps, KeepsOrder DEF IInv

LEMMA AbortOrder ==
    ASSUME IInv, NEW w \in Workers, Abort(w)
    PROVE  \A o \in Orders : OrderInv(o)'
<1>1. /\ TypeOK /\ job[w] \in Jobs /\ job[w] # Idle /\ SetJob(w, Idle)
      /\ UNCHANGED <<order, stockVars, payment, billed>>
      /\ DisturbedIf(job[w].ord, job[w].op = "save")
  BY DEF IInv, Abort, TypeOK
<1>2. PICK k \in Orders : k = job[w].ord
  BY <1>1, JobFields
<1>x. Idle.op # "save"
  BY JobOps
<1>3. /\ disturbed'[k] = (disturbed[k] \/ job[w].op = "save")
      /\ \A o \in Orders \ {k} : disturbed'[o] = disturbed[o]
  BY <1>1, <1>2, Zenon DEF DisturbedIf, TypeOK
<1>4. \A o \in Orders \ {k} : Keeps(o)
  BY <1>1, <1>2, <1>3, <1>x, WorkerFrame DEF Frame, LedgerKept, stockVars
<1>5. OrderInv(k)'
  <2>1. CASE job[w].op = "save"
    <3>1. Status(k) # "absent"
      BY <1>2, <2>1 DEF IInv, JobsInv, Moving
    <3>2. disturbed'[k]
      BY <1>2, <1>3, <2>1
    <3>3. Status(k) = "draft" => ~order[k].package
      BY <1>2 DEF IInv, OrderInv
    <3> QED
      BY <1>1, <3>1, <3>2, <3>3 DEF OrderInv, Status
  <2>2. CASE job[w].op # "save"
    <3>1. /\ \A v \in Workers \ {w} : job'[v] = job[v]
          /\ job'[w] = Idle
      BY <1>1 DEF SetJob, TypeOK
    <3>2. SaversKept(k)
      BY <1>2, <1>x, <2>2, <3>1 DEF SaversKept, Saving
    <3>3. disturbed'[k] = disturbed[k]
      BY <1>2, <1>3, <2>2, <1>1, Zenon DEF TypeOK
    <3>4. Keeps(k)
      BY <1>1, <3>2, <3>3 DEF Keeps, LedgerKept, stockVars
    <3> QED
      BY <1>2, <3>4, KeepsOrder DEF IInv
  <2> QED
    BY <2>1, <2>2
<1> QED
  BY <1>4, <1>5, KeepsOrder DEF IInv

LEMMA CreateOrder ==
    ASSUME IInv, NEW w \in Workers, NEW k \in Orders, Create(w, k)
    PROVE  \A o \in Orders : OrderInv(o)'
<1>1. /\ TypeOK /\ job[w] = Idle /\ OrderInv(k) /\ Status(k) = "absent"
      /\ SetJob(w, [op |-> "add", ord |-> k, seen |-> "draft"])
      /\ order' = [order EXCEPT ![k] = NewDraft]
      /\ UNCHANGED <<stockVars, payment, billed, disturbed>>
  BY DEF IInv, Create, Ask, SetOrder
<1>2. qty[k] = 0 /\ payment[k] = "none" /\ Status(k) \notin Live
  BY <1>1, StatusFacts DEF OrderInv
<1>3. Status(k)' = "draft" /\ ~order'[k].package
  BY <1>1 DEF Status, NewDraft, Absent, TypeOK
<1>4. \A v \in Workers : ~Saving(v, k)
  BY <1>1 DEF IInv, JobsInv, Saving, Moving
<1>5. \A v \in Workers : ~Saving(v, k)'
  BY <1>1, <1>4 DEF SetJob, TypeOK, Saving
<1>6. ~disturbed[k] => ledger[k] = lost[k]
  BY <1>1, <1>2, <1>4 DEF OrderInv, Balanced, Reserved, TypeOK
<1>7. ~disturbed'[k] => Balanced(k)'
  <2>1. Reserved(k)' = 0
    BY <1>1, <1>2 DEF Reserved, stockVars
  <2>2. lost[k] \in Int
    BY <1>1 DEF TypeOK
  <2> QED
    BY <1>1, <1>5, <1>6, <2>1, <2>2 DEF Balanced, stockVars
<1>8. Billed(k)' /\ Limited(k)'
  BY <1>1, <1>2 DEF Billed, Limited, stockVars
<1>9. OrderInv(k)'
  BY <1>3, <1>7, <1>8 DEF OrderInv
<1>10. \A o \in Orders \ {k} : Keeps(o)
  BY <1>1, WorkerFrame, JobOps DEF Frame, LedgerKept, stockVars, TypeOK
<1> QED
  BY <1>9, <1>10, KeepsOrder DEF IInv

\* The items of a draft change by n units and the stock with them.
LEMMA ItemsOrder ==
    ASSUME IInv, NEW w \in Workers, NEW k \in Orders, NEW op \in ItemOps, NEW n \in Int,
           WriteItems(w, k, op),
           Take(k, n),
           qty' = [qty EXCEPT ![k] = qty[k] + n],
           \A o \in Orders \ {k} : order'[o] = order[o],
           Status(k)' = Status(k) \/ (Status(k)' = "deleted" /\ qty[k] + n = 0),
           order'[k].package = order[k].package,
           Status(k) = "draft" /\ ~disturbed[k] => order'[k].left # NoHold \/ Unlimited(k)
    PROVE  \A o \in Orders : OrderInv(o)'
<1>1. /\ TypeOK /\ OrderInv(k) /\ job[w] \in Jobs /\ job[w].op = op /\ job[w].ord = k
      /\ Exists(k) /\ SetJob(w, Idle) /\ DisturbedIf(k, Status(k) # job[w].seen)
      /\ payment' = payment /\ billed' = billed /\ lost' = lost
  BY DEF IInv, WriteItems, TypeOK
<1>2. /\ ledger'[k] = ledger[k] + n
      /\ \A o \in Orders \ {k} : ledger'[o] = ledger[o]
      /\ qty'[k] = qty[k] + n
      /\ \A o \in Orders \ {k} : qty'[o] = qty[o]
  BY <1>1, TakeLedger DEF TypeOK
<1>3. /\ disturbed'[k] = (disturbed[k] \/ Status(k) # job[w].seen)
      /\ \A o \in Orders \ {k} : disturbed'[o] = disturbed[o]
  BY <1>1, Zenon DEF DisturbedIf, TypeOK
<1>4. job[w].seen = "draft" /\ job[w].op # "save" /\ Idle.op # "save"
  BY <1>1, JobOps DEF IInv, JobsInv, ItemOps
<1>5. \A o \in Orders \ {k} : Keeps(o)
  BY <1>1, <1>2, <1>3, <1>4, WorkerFrame DEF Frame, LedgerKept
<1>6. /\ \A v \in Workers \ {w} : job'[v] = job[v]
      /\ job'[w] = Idle
  BY <1>1 DEF SetJob, TypeOK
<1>7. SaversKept(k)
  BY <1>4, <1>6 DEF SaversKept, Saving
<1>8. Status(k)' # "absent"
  BY <1>1, StatusFacts DEF Exists
<1>9. ASSUME ~disturbed'[k]
      PROVE  Balanced(k)' /\ Billed(k)' /\ Limited(k)'
  <2>1. ~disturbed[k] /\ Status(k) = "draft"
    BY <1>3, <1>4, <1>9
  <2>2. Balanced(k) /\ payment[k] = "none" /\ Status(k) \in Live /\ IsOpen(k)
    BY <1>1, <2>1, StatusFacts DEF OrderInv, Billed, IsOpen
  <2>3. /\ qty[k] \in Int /\ ledger[k] \in Int /\ lost[k] \in Int
        /\ \A v \in Workers : Saving(v, k) => job[v].units \in Int
    BY <1>1, StockAssumption, JobFields DEF TypeOK, Saving
  <2>4. Reserved(k) = qty[k] /\ (Status(k)' = "deleted" => Status(k)' \notin Live)
    BY <2>2, StatusFacts DEF Reserved
  <2>5. Reserved(k)' = qty[k] + n
    BY <1>2, <2>2, <2>4 DEF Reserved
  <2>6. (\A v \in Workers : ~Saving(v, k)') => ledger'[k] = Reserved(k)' + lost'[k]
    BY <1>1, <1>2, <1>7, <2>2, <2>3, <2>4, <2>5 DEF Balanced, SaversKept
  <2>7. ASSUME NEW v \in Workers, Saving(v, k)',
               \A u \in Workers \ {v} : ~Saving(u, k)', Status(k)' \in Live
        PROVE  ledger'[k] = lost'[k] + qty'[k] - job'[v].units
    <3>1. Saving(v, k) /\ job'[v].units = job[v].units /\ \A u \in Workers \ {v} : ~Saving(u, k)
      BY <1>7, <2>7 DEF SaversKept
    <3>2. ledger[k] = lost[k] + qty[k] - job[v].units
      BY <2>2, <3>1 DEF Balanced
    <3> QED
      BY <1>1, <1>2, <2>3, <3>1, <3>2
  <2>8. Balanced(k)'
    BY <2>6, <2>7 DEF Balanced
  <2>9. Billed(k)' /\ Limited(k)'
    BY <1>1, <2>1, <2>2 DEF Billed, Limited, Unlimited
  <2> QED
    BY <2>8, <2>9
<1>10. OrderInv(k)'
  <2>1. Status(k)' = "draft" => ~order'[k].package
    BY <1>1 DEF OrderInv
  <2> QED
    BY <1>8, <1>9, <2>1 DEF OrderInv
<1> QED
  BY <1>5, <1>10, KeepsOrder DEF IInv

LEMMA ItemStepOrder ==
    ASSUME IInv, NEW w \in Workers, NEW k \in Orders,
           AddItem(w, k) \/ UpdateItem(w, k) \/ RemoveItem(w, k)
    PROVE  \A o \in Orders : OrderInv(o)'
<1>1. /\ TypeOK /\ OrderInv(k) /\ order[k] \in Rows /\ qty[k] \in Int /\ MaxQuantity \in Int
      /\ qty[k] >= 0
      /\ "add" \in ItemOps /\ "update" \in ItemOps /\ "remove" \in ItemOps
  BY StockAssumption DEF IInv, TypeOK, ItemOps
<1>2. CASE AddItem(w, k)
  <2>1. PICK n \in 1..(MaxQuantity - qty[k]) :
            Take(k, n) /\ qty' = [qty EXCEPT ![k] = qty[k] + n]
    BY <1>2 DEF AddItem
  <2> DEFINE l == IF StartsHold(k) THEN HoldTime ELSE order[k].left
  <2>2. WriteItems(w, k, "add") /\ order' = [order EXCEPT ![k] = [order[k] EXCEPT !.left = l]]
    BY <1>2 DEF AddItem, SetOrder
  <2>3. Status(k) = "draft" => l # NoHold
    BY <1>1, HoldFacts, StatusFacts DEF StartsHold, IsOpen, OrderInv
  <2> HIDE DEF l
  <2>4. /\ Status(k)' = Status(k) /\ order'[k].left = l /\ order'[k].package = order[k].package
        /\ \A o \in Orders \ {k} : order'[o] = order[o]
    BY <1>1, <2>2 DEF TypeOK, Rows, Status
  <2>5. n \in Int
    BY <1>1
  <2> QED
    BY <1>1, <2>1, <2>2, <2>3, <2>4, <2>5, ItemsOrder
<1>3. CASE UpdateItem(w, k)
  <2>1. PICK n \in 1..MaxQuantity : Take(k, n - qty[k]) /\ qty' = [qty EXCEPT ![k] = n]
    BY <1>3 DEF UpdateItem
  <2>2. WriteItems(w, k, "update") /\ order' = order /\ qty[k] > 0
    BY <1>3 DEF UpdateItem
  <2>3. n - qty[k] \in Int /\ qty[k] + (n - qty[k]) = n
    BY <1>1
  <2>4. /\ Status(k) = "draft" /\ ~disturbed[k] => order'[k].left # NoHold \/ Unlimited(k)
        /\ order'[k].package = order[k].package
    BY <1>1, <2>2, StatusFacts DEF OrderInv, Limited, IsOpen
  <2>5. Status(k)' = Status(k) /\ \A o \in Orders \ {k} : order'[o] = order[o]
    BY <2>2 DEF Status
  <2>6. qty' = [qty EXCEPT ![k] = qty[k] + (n - qty[k])]
    BY <2>1, <2>3
  <2> QED
    BY <1>1, <2>1, <2>2, <2>3, <2>4, <2>5, <2>6, ItemsOrder
<1>4. CASE RemoveItem(w, k)
  <2>1. PICK n \in 1..qty[k] :
            /\ Take(k, -n)
            /\ qty' = [qty EXCEPT ![k] = qty[k] - n]
            /\ order' = [order EXCEPT ![k] =
                           [order[k] EXCEPT !.status = IF n = qty[k] THEN "deleted" ELSE order[k].status]]
    BY <1>4 DEF RemoveItem, SetOrder
  <2>2. WriteItems(w, k, "remove")
    BY <1>4 DEF RemoveItem
  <2>3. -n \in Int /\ qty[k] + (-n) = qty[k] - n /\ qty[k] > 0 /\ n \in Int
    BY <1>1
  <2>4. /\ order'[k].left = order[k].left /\ order'[k].package = order[k].package
        /\ order'[k].status = IF n = qty[k] THEN "deleted" ELSE order[k].status
        /\ \A o \in Orders \ {k} : order'[o] = order[o]
    BY <1>1, <2>1 DEF TypeOK, Rows
  <2>5. Status(k)' = Status(k) \/ (Status(k)' = "deleted" /\ qty[k] + (-n) = 0)
    BY <1>1, <2>3, <2>4 DEF Status
  <2>6. Status(k) = "draft" /\ ~disturbed[k] => order'[k].left # NoHold \/ Unlimited(k)
    BY <1>1, <2>3, <2>4, StatusFacts DEF OrderInv, Limited, IsOpen
  <2>7. qty' = [qty EXCEPT ![k] = qty[k] + (-n)]
    BY <2>1, <2>3
  <2> QED
    BY <1>1, <2>1, <2>2, <2>3, <2>4, <2>5, <2>6, <2>7, ItemsOrder
<1> QED
  BY <1>2, <1>3, <1>4

LEMMA PutBackOrder ==
    ASSUME IInv, NEW w \in Workers, NEW k \in Orders, PutBack(w, k)
    PROVE  \A o \in Orders : OrderInv(o)'
<1> DEFINE j == [op |-> "save", ord |-> k, snap |-> job[w].snap, to |-> job[w].to, units |-> qty[k]]
<1>1. /\ TypeOK /\ OrderInv(k) /\ job[w] \in Jobs /\ job[w].op = "move" /\ job[w].ord = k
      /\ Restore(k) /\ SetJob(w, j)
      /\ DisturbedIf(k, order[k] # job[w].snap)
      /\ UNCHANGED <<order, qty, payment, billed>>
  BY DEF IInv, PutBack, TypeOK
<1>2. Status(k) # "absent" /\ job[w].to \in Allowed(job[w].snap.status)
  BY <1>1 DEF IInv, JobsInv, Moving
<1>3. /\ disturbed'[k] = (disturbed[k] \/ order[k] # job[w].snap)
      /\ \A o \in Orders \ {k} : disturbed'[o] = disturbed[o]
  BY <1>1, Zenon DEF DisturbedIf, TypeOK
<1>4. /\ ledger'[k] - lost'[k] = ledger[k] - lost[k] - qty[k]
      /\ \A o \in Orders \ {k} : ledger'[o] = ledger[o] /\ lost'[o] = lost[o]
  BY <1>1, RestoreLedger
<1>5. /\ \A v \in Workers \ {w} : job'[v] = job[v]
      /\ job'[w] = j
  BY <1>1 DEF SetJob, TypeOK
<1>6. j.op = "save" /\ j.ord = k /\ j.units = qty[k]
  OBVIOUS
<1> HIDE DEF j
<1>7. \A o \in Orders \ {k} : Keeps(o)
  <2>1. Frame(k)
    BY <1>1, <1>3, <1>4 DEF Frame, LedgerKept
  <2>2. \A o \in Orders \ {k} : SaversKept(o)
    BY <1>1, <1>5, <1>6 DEF SaversKept, Saving
  <2> QED
    BY <2>1, <2>2 DEF Frame, Keeps
<1>8. ASSUME ~disturbed'[k]
      PROVE  Balanced(k)' /\ Billed(k)' /\ Limited(k)'
  <2>1. ~disturbed[k] /\ Status(k) \in Live
    BY <1>2, <1>3, <1>8, AllowedFacts DEF Status
  <2>2. Balanced(k) /\ Billed(k) /\ Limited(k)
    BY <1>1, <2>1 DEF OrderInv
  <2>3. Saving(w, k)' /\ ~Saving(w, k)
    BY <1>1, <1>5, <1>6 DEF Saving
  <2>4. ASSUME NEW v \in Workers, Saving(v, k)', \A u \in Workers \ {v} : ~Saving(u, k)'
        PROVE  ledger'[k] = lost'[k] + qty'[k] - job'[v].units
    <3>1. v = w
      BY <2>3, <2>4
    <3>2. \A u \in Workers : ~Saving(u, k)
      BY <1>5, <2>3, <2>4, <3>1 DEF Saving
    <3>3. ledger[k] = qty[k] + lost[k]
      BY <2>1, <2>2, <3>2 DEF Balanced, Reserved
    <3>4. TypeOK'
      BY <1>1, MoveType
    <3>5. /\ ledger[k] \in Int /\ lost[k] \in Int /\ qty[k] \in Int
          /\ ledger'[k] \in Int /\ lost'[k] \in Int
      BY <1>1, <3>4, StockAssumption DEF TypeOK
    <3> QED
      BY <1>1, <1>4, <1>5, <1>6, <3>1, <3>3, <3>5
  <2>5. Balanced(k)'
    BY <2>3, <2>4 DEF Balanced
  <2>6. Billed(k)' /\ Limited(k)'
    BY <1>1, <2>2 DEF Billed, Limited, Unlimited, Status, Exists, IsOpen
  <2> QED
    BY <2>5, <2>6
<1>9. OrderInv(k)'
  BY <1>1, <1>2, <1>8 DEF OrderInv, Status
<1> QED
  BY <1>7, <1>9, KeepsOrder DEF IInv

LEMMA SaveMoveOrder ==
    ASSUME IInv, NEW w \in Workers, NEW k \in Orders, SaveMove(w, k)
    PROVE  \A o \in Orders : OrderInv(o)'
<1> DEFINE r == [job[w].snap EXCEPT !.status = job[w].to]
<1>1. /\ TypeOK /\ OrderInv(k) /\ job[w] \in Jobs /\ job[w].op \in Moving /\ job[w].ord = k
      /\ job[w].op = "move" => job[w].to \notin Closed
      /\ SetJob(w, Idle)
      /\ order' = [order EXCEPT ![k] = r]
      /\ DisturbedIf(k, order[k] # job[w].snap \/ (job[w].op = "save" /\ qty[k] # job[w].units))
      /\ UNCHANGED <<stockVars, payment, billed>>
  BY DEF IInv, SaveMove, Moving, TypeOK, SetOrder
<1>2. /\ job[w].snap \in Rows /\ job[w].to \in Allowed(job[w].snap.status)
      /\ job[w].op = "save" => job[w].to \in Closed /\ job[w].units \in 0..MaxQuantity
  BY <1>1, JobFields DEF IInv, JobsInv
<1>3. /\ job[w].to \in Statuses \ {"draft"} /\ job[w].snap.status \in Live
      /\ job[w].to \in Open => job[w].snap.status \in Open
  BY <1>2, AllowedFacts
<1>4. /\ order'[k] = r /\ r.status = job[w].to /\ r.left = job[w].snap.left
      /\ \A o \in Orders \ {k} : order'[o] = order[o]
  BY <1>1, <1>2 DEF TypeOK, Rows
<1> HIDE DEF r
<1>5. /\ disturbed'[k] = (disturbed[k] \/ order[k] # job[w].snap
                            \/ (job[w].op = "save" /\ qty[k] # job[w].units))
      /\ \A o \in Orders \ {k} : disturbed'[o] = disturbed[o]
  BY <1>1, Zenon DEF DisturbedIf, TypeOK
<1>6. /\ \A v \in Workers \ {w} : job'[v] = job[v]
      /\ job'[w] = Idle /\ Idle.op # "save"
  BY <1>1, JobOps DEF SetJob, TypeOK
<1>7. \A o \in Orders \ {k} : Keeps(o)
  BY <1>1, <1>4, <1>5, <1>6, WorkerFrame DEF Frame, LedgerKept, stockVars
<1>8. ASSUME ~disturbed'[k]
      PROVE  Balanced(k)' /\ Billed(k)' /\ Limited(k)'
  <2>1. /\ ~disturbed[k] /\ order[k] = job[w].snap
        /\ job[w].op = "save" => qty[k] = job[w].units
    BY <1>5, <1>8
  <2>2. Balanced(k) /\ Billed(k) /\ Limited(k)
    BY <1>1, <2>1 DEF OrderInv
  <2>3. Status(k) \in Live /\ Exists(k) /\ Status(k)' = job[w].to
    BY <1>3, <1>4, <2>1, StatusFacts DEF Status, Exists
  <2>4. Balanced(k)'
    <3>1. CASE job[w].op = "save"
      <4>1. Status(k)' \notin Live /\ Saving(w, k)
        BY <1>1, <1>2, <2>3, <3>1, StatusFacts DEF Saving
      <4>2. Reserved(k)' = 0
        BY <4>1 DEF Reserved
      <4>3. ASSUME \A v \in Workers : ~Saving(v, k)'
            PROVE  ledger'[k] = lost'[k]
        <5>1. \A v \in Workers \ {w} : ~Saving(v, k)
          BY <1>6, <4>3 DEF Saving
        <5>2. ledger[k] = lost[k] + qty[k] - job[w].units
          BY <2>2, <2>3, <4>1, <5>1 DEF Balanced
        <5>3. lost[k] \in Int /\ qty[k] \in Int
          BY <1>1, StockAssumption DEF TypeOK
        <5> QED
          BY <1>1, <2>1, <3>1, <5>2, <5>3 DEF stockVars
      <4>4. lost'[k] \in Int
        BY <1>1 DEF TypeOK, stockVars
      <4> QED
        BY <4>1, <4>2, <4>3, <4>4 DEF Balanced
    <3>2. CASE job[w].op = "move"
      <4>1. SaversKept(k)
        BY <1>6, <3>2 DEF SaversKept, Saving
      <4>2. Status(k)' \in Live
        BY <1>1, <1>3, <2>3, <3>2 DEF Statuses
      <4> QED
        BY <1>1, <2>2, <2>3, <4>1, <4>2, BalancedKept DEF stockVars
    <3> QED
      BY <1>1, <3>1, <3>2 DEF Moving
  <2>5. Billed(k)'
    BY <1>1, <1>3, <2>2, <2>3 DEF Billed, stockVars
  <2>6. Limited(k)'
    BY <1>1, <1>3, <1>4, <2>1, <2>2, <2>3 DEF Limited, Unlimited, IsOpen, Status, stockVars
  <2> QED
    BY <2>4, <2>5, <2>6
<1>9. Status(k)' \notin {"absent", "draft"}
  BY <1>3, <1>4, StatusFacts DEF Status
<1>10. OrderInv(k)'
  BY <1>8, <1>9 DEF OrderInv
<1> QED
  BY <1>7, <1>10, KeepsOrder DEF IInv

LEMMA OrderStep ==
    ASSUME IInv, Next
    PROVE  \A o \in Orders : OrderInv(o)'
<1>0. TypeOK
  BY DEF IInv
<1>1. ASSUME NEW k \in Orders,
             \/ Extend(k) \/ Checkout(k) \/ PackageOrder(k)
             \/ PaymentStep(k) \/ Expire(k) \/ Delete(k)
      PROVE  \A o \in Orders : OrderInv(o)'
  BY <1>1, ExtendOrder, CheckoutOrder, PackageOrderInv, PaymentOrder, ExpireOrder, DeleteOrder
<1>2. ASSUME NEW w \in Workers, NEW k \in Orders, RequestStep(w, k)
      PROVE  \A o \in Orders : OrderInv(o)'
  BY <1>0, <1>2, CreateOrder, ReadsAsk, AskOrder, ItemStepOrder, PutBackOrder, SaveMoveOrder
  DEF RequestStep
<1>3. ASSUME NEW w \in Workers, NEW k \in Orders, StaffStep(w, k)
      PROVE  \A o \in Orders : OrderInv(o)'
  BY <1>0, <1>3, ReadsAsk, AskOrder, StaffOrder DEF StaffStep
<1> QED
  BY <1>1, <1>2, <1>3, AbortOrder, StockOrder, TickOrder DEF Next

-----------------------------------------------------------------------------
(* The jobs.                                                                *)

\* Order o is not forgotten.
Remembered(o) == Status(o) # "absent" => Status(o)' # "absent"

LEMMA SavedStatus ==
    ASSUME TypeOK, NEW k \in Orders, NEW r, SetOrder(k, r), r.status # "absent"
    PROVE  \A o \in Orders : Remembered(o)
BY DEF SetOrder, TypeOK, Remembered, Status

LEMMA CancelledStatus ==
    ASSUME TypeOK, NEW k \in Orders, NEW r \in Rows, CancelOrder(k, r)
    PROVE  \A o \in Orders : Remembered(o)
BY CancelledRow DEF Remembered, Status

LEMMA KeptStatus ==
    ASSUME order' = order
    PROVE  \A o \in Orders : Remembered(o)
BY DEF Remembered, Status

LEMMA LostRemembers ==
    ASSUME TypeOK, NEW k \in Orders, PaymentLost(k)
    PROVE  \A o \in Orders : Remembered(o)
<1>1. order[k] \in Rows
  BY DEF TypeOK
<1> QED
  BY <1>1, CancelledStatus, KeptStatus DEF PaymentLost, KeepOrder

LEMMA TargetRemembers ==
    ASSUME TypeOK, NEW k \in Orders, NEW r \in Rows, SaveTarget(k, r)
    PROVE  \A o \in Orders : Remembered(o)
<1>1. [r EXCEPT !.status = "processing"].status # "absent"
  BY DEF Rows
<1> QED
  BY <1>1, SavedStatus DEF SaveTarget, SaveOrder

LEMMA LockedRemembers ==
    ASSUME TypeOK, NEW k \in Orders,
           \/ Extend(k) \/ Checkout(k) \/ PackageOrder(k)
           \/ PaymentStep(k) \/ Expire(k) \/ Delete(k)
    PROVE  \A o \in Orders : Remembered(o)
<1>1. order[k] \in Rows /\ (Exists(k) \/ IsOpen(k) => order[k].status # "absent")
  BY StatusFacts DEF TypeOK, Exists, IsOpen, Status
<1>2. CASE Extend(k)
  <2>1. PICK t \in 1..ExtensionTime :
            SetOrder(k, [order[k] EXCEPT !.left = order[k].left + t, !.ext = order[k].ext + 1])
    BY <1>2 DEF Extend, SaveOrder
  <2>2. [order[k] EXCEPT !.left = order[k].left + t, !.ext = order[k].ext + 1].status # "absent"
    BY <1>1, <1>2 DEF Extend, Rows
  <2> QED
    BY <2>1, <2>2, SavedStatus
<1>3. CASE Checkout(k)
  <2> DEFINE r1 == [order[k] EXCEPT !.status = "pending", !.left = CheckoutTime, !.ext = 0,
                                   !.paying = TRUE]
             r2 == [order[k] EXCEPT !.status = "pending", !.left = NoHold, !.paying = TRUE]
             r3 == [order[k] EXCEPT !.status = "processing", !.left = NoHold]
  <2>1. r1.status # "absent" /\ r2.status # "absent" /\ r3.status # "absent"
    BY <1>1 DEF Rows
  <2>2. SetOrder(k, r1) \/ SetOrder(k, r2) \/ SetOrder(k, r3)
    BY <1>3 DEF Checkout, SaveOrder
  <2> HIDE DEF r1, r2, r3
  <2> QED
    BY <2>1, <2>2, SavedStatus
<1>4. CASE PackageOrder(k)
  <2>1. [Absent EXCEPT !.status = "pending", !.paying = TRUE, !.package = TRUE].status # "absent"
    BY DEF Absent
  <2> QED
    BY <1>4, <2>1, SavedStatus DEF PackageOrder
<1>6. CASE Settle(k)
  <2> DEFINE s == IF ~ApprovalRequired /\ "processing" \in Allowed(order[k].status)
                  THEN "processing" ELSE order[k].status
             r == [order[k] EXCEPT !.left = NoHold, !.status = s]
  <2>1. r.status # "absent"
    BY <1>1, <1>6 DEF Settle, Rows
  <2>2. SetOrder(k, r)
    BY <1>6 DEF Settle, SaveOrder
  <2> HIDE DEF r
  <2> QED
    BY <2>1, <2>2, SavedStatus
<1>7. CASE Expire(k)
  <2> DEFINE r1 == [order[k] EXCEPT !.left = NoHold]
             r2 == [order[k] EXCEPT !.left = RetryTime]
  <2>1. /\ r1.status # "absent" /\ r2.status # "absent"
        /\ r1 \in Rows
    BY <1>1, <1>7, HoldFacts DEF Expire, Lapsed, Rows
  <2>2. SetOrder(k, r1) \/ SetOrder(k, r2) \/ CancelOrder(k, r1) \/ order' = order
    BY <1>7 DEF Expire, SaveOrder, KeepOrder
  <2> HIDE DEF r1, r2
  <2> QED
    BY <2>1, <2>2, SavedStatus, CancelledStatus, KeptStatus
<1>8. CASE Delete(k)
  <2>1. [order[k] EXCEPT !.status = "deleted"].status # "absent"
    BY <1>1 DEF Rows
  <2> QED
    BY <1>8, <2>1, SavedStatus DEF Delete
<1>9. CASE PaymentStep(k)
  <2>1. CASE Capture(k) \/ ReadTarget(k)
    BY <2>1, KeptStatus DEF Capture, ReadTarget, KeepOrder
  <2>2. CASE FailedEvent(k) \/ CanceledEvent(k)
    BY <2>2, LostRemembers DEF FailedEvent, CanceledEvent
  <2>3. CASE SucceededEvent(k)
    <3>1. CASE target[k].status = "pending"
      <4>1. target[k] \in Rows
        BY <2>3 DEF SucceededEvent, Unlocked, Targets, TypeOK
      <4> QED
        BY <2>3, <3>1, <4>1, TargetRemembers DEF SucceededEvent
    <3>2. CASE target[k].status # "pending"
      BY <2>3, <3>2, KeptStatus DEF SucceededEvent, KeepOrder
    <3> QED
      BY <3>1, <3>2
  <2>4. CASE FulfilBooking(k)
    <3>1. [order[k] EXCEPT !.status = "processing"].status # "absent"
      BY <1>1 DEF Rows
    <3> QED
      BY <2>4, <3>1, SavedStatus DEF FulfilBooking, SaveOrder
  <2> QED
    BY <1>6, <1>9, <2>1, <2>2, <2>3, <2>4 DEF PaymentStep
<1> QED
  BY <1>2, <1>3, <1>4, <1>6, <1>7, <1>8, <1>9

LEMMA StaffRemembers ==
    ASSUME TypeOK, NEW w \in Workers, NEW k \in Orders, StaffStep(w, k)
    PROVE  \A o \in Orders : Remembered(o)
<1>1. CASE ReadPayment(w, k) \/ ReadTransfer(w, k) \/ VerifyTransfer(w, k)
  BY <1>1, KeptStatus DEF ReadPayment, ReadTransfer, VerifyTransfer, KeepOrder
<1>2. CASE MarkCompleted(w, k) \/ MarkFailed(w, k)
  BY <1>2, KeptStatus DEF MarkCompleted, MarkFailed, DecidePayment, KeepOrder
<1>3. CASE CancelPayment(w, k)
  BY <1>3, LostRemembers DEF CancelPayment
<1>4. CASE MoveOn(w, k)
  <2>1. job[w].snap \in Rows
    BY <1>4, JobFields DEF MoveOn, Verifying, TypeOK
  <2> QED
    BY <1>4, <2>1, TargetRemembers DEF MoveOn
<1> QED
  BY <1>1, <1>2, <1>3, <1>4 DEF StaffStep

LEMMA RequestRemembers ==
    ASSUME TypeOK, NEW w \in Workers, NEW k \in Orders, RequestStep(w, k)
    PROVE  \A o \in Orders : Remembered(o)
<1>1. order[k] \in Rows /\ (Exists(k) => order[k].status # "absent")
  BY StatusFacts DEF TypeOK, Exists, Status
<1>2. CASE Create(w, k)
  BY <1>2, SavedStatus DEF Create, NewDraft, Absent
<1>3. CASE ReadForItems(w, k) \/ ReadForMove(w, k) \/ UpdateItem(w, k) \/ PutBack(w, k)
  BY <1>3, KeptStatus DEF ReadForItems, ReadForMove, UpdateItem, PutBack
<1>4. CASE AddItem(w, k)
  <2> DEFINE l == IF StartsHold(k) THEN HoldTime ELSE order[k].left
  <2>1. SetOrder(k, [order[k] EXCEPT !.left = l]) /\ Exists(k)
    BY <1>4 DEF AddItem, WriteItems
  <2> HIDE DEF l
  <2>2. [order[k] EXCEPT !.left = l].status # "absent"
    BY <1>1, <2>1 DEF Rows
  <2> QED
    BY <2>1, <2>2, SavedStatus
<1>5. CASE RemoveItem(w, k)
  <2>1. PICK n \in 1..qty[k] :
            SetOrder(k, [order[k] EXCEPT !.status = IF n = qty[k] THEN "deleted" ELSE order[k].status])
    BY <1>5 DEF RemoveItem
  <2>2. [order[k] EXCEPT !.status = IF n = qty[k] THEN "deleted" ELSE order[k].status].status # "absent"
    BY <1>1, <1>5 DEF RemoveItem, WriteItems, Rows
  <2> QED
    BY <2>1, <2>2, SavedStatus
<1>6. CASE SaveMove(w, k)
  <2>1. job[w].snap \in Rows /\ job[w].to \in Statuses
    BY <1>6, JobFields DEF SaveMove, Moving, TypeOK
  <2>2. [job[w].snap EXCEPT !.status = job[w].to].status # "absent"
    BY <2>1, StatusFacts DEF Rows
  <2> QED
    BY <1>6, <2>2, SavedStatus DEF SaveMove
<1> QED
  BY <1>2, <1>3, <1>4, <1>5, <1>6 DEF RequestStep

LEMMA StepRemembers ==
    ASSUME TypeOK, Next
    PROVE  \A o \in Orders : Remembered(o)
<1>1. CASE \E w \in Workers : Abort(w)
  BY <1>1, KeptStatus DEF Abort
<1>2. CASE AdjustStock
  BY <1>2, KeptStatus DEF AdjustStock
<1>3. CASE Tick
  BY <1>3, AgedRow DEF Tick, TypeOK, Remembered, Status
<1> QED
  BY <1>1, <1>2, <1>3, LockedRemembers, RequestRemembers, StaffRemembers DEF Next

\* No payment is taken back.
PaymentsStay == \A o \in Orders : payment[o] # "none" => payment'[o] # "none"

LEMMA PaidStays ==
    ASSUME TypeOK,
           payment' = payment \/ \E o \in Orders : \E p : p # "none" /\ SetPayment(o, p)
    PROVE  PaymentsStay
BY DEF PaymentsStay, SetPayment, TypeOK

LEMMA StepPayments ==
    ASSUME TypeOK, Next
    PROVE  PaymentsStay
<1>1. ASSUME NEW o \in Orders,
             \/ Extend(o) \/ Checkout(o) \/ PackageOrder(o)
             \/ PaymentStep(o) \/ Expire(o) \/ Delete(o)
      PROVE  PaymentsStay
  <2>1. CASE Extend(o) \/ Delete(o)
    BY <2>1, PaidStays DEF Extend, Delete
  <2>2. CASE Checkout(o) \/ PackageOrder(o)
    BY <2>2, PaidStays DEF Checkout, PackageOrder
  <2>3. CASE Expire(o)
    BY <2>3, PaidStays DEF Expire
  <2>4. CASE Capture(o) \/ FailedEvent(o) \/ CanceledEvent(o)
    BY <2>4, PaidStays DEF Capture, FailedEvent, CanceledEvent, PaymentLost
  <2>5. CASE ReadTarget(o) \/ SucceededEvent(o) \/ Settle(o) \/ FulfilBooking(o)
    BY <2>5, PaidStays DEF ReadTarget, SucceededEvent, Settle, FulfilBooking
  <2> QED
    BY <1>1, <2>1, <2>2, <2>3, <2>4, <2>5 DEF PaymentStep
<1>2. ASSUME NEW w \in Workers, NEW o \in Orders, RequestStep(w, o)
      PROVE  PaymentsStay
  <2>1. payment' = payment
    BY <1>2 DEF RequestStep, Create, ReadForItems, ReadForMove, AddItem, UpdateItem, RemoveItem,
                WriteItems, PutBack, SaveMove
  <2> QED
    BY <2>1, PaidStays
<1>3. ASSUME NEW w \in Workers, NEW o \in Orders, StaffStep(w, o)
      PROVE  PaymentsStay
  <2>1. CASE ReadPayment(w, o) \/ ReadTransfer(w, o) \/ MoveOn(w, o)
    BY <2>1, PaidStays DEF ReadPayment, ReadTransfer, MoveOn
  <2>2. CASE MarkCompleted(w, o) \/ MarkFailed(w, o)
    BY <2>2, PaidStays DEF MarkCompleted, MarkFailed, DecidePayment
  <2>3. CASE CancelPayment(w, o) \/ VerifyTransfer(w, o)
    BY <2>3, PaidStays DEF CancelPayment, PaymentLost, VerifyTransfer
  <2> QED
    BY <1>3, <2>1, <2>2, <2>3 DEF StaffStep
<1>4. ASSUME (\E w \in Workers : Abort(w)) \/ AdjustStock \/ Tick
      PROVE  PaymentsStay
  BY <1>4, PaidStays DEF Abort, AdjustStock, Tick
<1> QED
  BY <1>1, <1>2, <1>3, <1>4 DEF Next

LEMMA TargetStep ==
    ASSUME TypeOK, TargetInv, Next
    PROVE  TargetInv'
<1>1. PaymentsStay
  BY StepPayments
<1>2. ASSUME \A o \in Orders : Unlocked(o) => Unlocked(o)'
      PROVE  TargetInv'
  BY <1>1, <1>2 DEF TargetInv, PaymentsStay
<1>3. ASSUME NEW k \in Orders, ReadTarget(k)
      PROVE  TargetInv'
  <2>1. payment' = payment /\ payment[k] # "none" /\ \A o \in Orders \ {k} : target'[o] = target[o]
    BY <1>3 DEF ReadTarget, TypeOK
  <2> QED
    BY <2>1 DEF TargetInv, Unlocked
<1>4. ASSUME NEW k \in Orders, SucceededEvent(k)
      PROVE  TargetInv'
  BY <1>2, <1>4 DEF SucceededEvent, TypeOK, Unlocked
<1>5. ASSUME target' = target
      PROVE  TargetInv'
  BY <1>2, <1>5 DEF Unlocked
<1>6. CASE Tick
  BY <1>2, <1>6 DEF Tick, Unlocked
<1>7. ASSUME NEW k \in Orders,
             \/ Extend(k) \/ Checkout(k) \/ PackageOrder(k) \/ Expire(k) \/ Delete(k)
             \/ Capture(k) \/ FailedEvent(k) \/ CanceledEvent(k) \/ Settle(k) \/ FulfilBooking(k)
      PROVE  target' = target
  BY <1>7 DEF Extend, Checkout, PackageOrder, Expire, Delete, Capture, FailedEvent, CanceledEvent,
              PaymentLost, Settle, FulfilBooking, Unrelated
<1>8. ASSUME NEW w \in Workers, NEW k \in Orders, RequestStep(w, k) \/ StaffStep(w, k)
      PROVE  target' = target
  BY <1>8 DEF RequestStep, Create, ReadForItems, ReadForMove, AddItem, UpdateItem, RemoveItem,
              WriteItems, PutBack, SaveMove, StaffStep, ReadPayment, MarkCompleted, MarkFailed,
              DecidePayment, CancelPayment, PaymentLost, ReadTransfer, VerifyTransfer, MoveOn
<1>9. ASSUME (\E w \in Workers : Abort(w)) \/ AdjustStock
      PROVE  target' = target
  BY <1>9 DEF Abort, AdjustStock, Unrelated
<1> QED
  BY <1>3, <1>4, <1>5, <1>6, <1>7, <1>8, <1>9 DEF Next, PaymentStep

\* One worker goes on with job j, the others with theirs.
LEMMA JobSet ==
    ASSUME TypeOK, JobsInv, \A o \in Orders : Remembered(o), PaymentsStay,
           NEW w \in Workers, NEW j, SetJob(w, j),
           j.op \in Moving => /\ j.to \in Allowed(j.snap.status)
                              /\ j.ord \in Orders /\ Status(j.ord) # "absent",
           j.op = "save" => j.to \in Closed,
           j.op \in ItemOps => j.seen = "draft",
           j.op \in Deciding => j.ord \in Orders /\ payment[j.ord] # "none"
    PROVE  JobsInv'
<1> SUFFICES ASSUME NEW v \in Workers
             PROVE  /\ job'[v].op \in Moving =>
                          /\ job'[v].to \in Allowed(job'[v].snap.status)
                          /\ order'[job'[v].ord].status # "absent"
                    /\ job'[v].op = "save" => job'[v].to \in Closed
                    /\ job'[v].op \in ItemOps => job'[v].seen = "draft"
                    /\ job'[v].op \in Deciding => payment'[job'[v].ord] # "none"
  BY DEF JobsInv, Status
<1>1. CASE v = w
  <2>1. job'[v] = j
    BY <1>1 DEF SetJob, TypeOK
  <2> QED
    BY <2>1 DEF Remembered, Status, PaymentsStay
<1>2. CASE v # w
  <2>1. job'[v] = job[v] /\ job[v] \in Jobs
    BY <1>2 DEF SetJob, TypeOK
  <2>2. job[v].op \in Moving \cup Deciding => job[v].ord \in Orders
    BY <2>1, JobFields, JobOps
  <2> QED
    BY <2>1, <2>2 DEF JobsInv, Remembered, Status, PaymentsStay
<1> QED
  BY <1>1, <1>2

LEMMA JobsKept ==
    ASSUME TypeOK, JobsInv, \A o \in Orders : Remembered(o), PaymentsStay, job' = job
    PROVE  JobsInv'
<1>1. \A w \in Workers : job[w].op \in Moving \cup Deciding => job[w].ord \in Orders
  BY JobFields, JobOps DEF TypeOK
<1> QED
  BY <1>1 DEF JobsInv, Remembered, Status, PaymentsStay

LEMMA LockedJobs ==
    ASSUME TypeOK, JobsInv, \A o \in Orders : Remembered(o), PaymentsStay, NEW k \in Orders,
           \/ Extend(k) \/ Checkout(k) \/ PackageOrder(k)
           \/ PaymentStep(k) \/ Expire(k) \/ Delete(k)
    PROVE  JobsInv'
<1>1. CASE PaymentStep(k)
  <2>1. job' = job
    BY <1>1 DEF PaymentStep, Capture, FailedEvent, CanceledEvent, ReadTarget, SucceededEvent,
                Settle, FulfilBooking, Unrelated, requestVars
  <2> QED
    BY <2>1, JobsKept
<1>2. CASE Extend(k) \/ Checkout(k) \/ PackageOrder(k) \/ Expire(k) \/ Delete(k)
  BY <1>2, JobsKept DEF Extend, Checkout, PackageOrder, Expire, Delete, Unrelated, requestVars
<1> QED
  BY <1>1, <1>2

LEMMA RequestJobs ==
    ASSUME TypeOK, JobsInv, \A o \in Orders : Remembered(o), PaymentsStay,
           NEW w \in Workers, NEW k \in Orders, RequestStep(w, k)
    PROVE  JobsInv'
<1>0. ASSUME SetJob(w, Idle) PROVE JobsInv'
  BY <1>0, JobSet, JobOps DEF Moving
<1>x. /\ "add" \in ItemOps /\ {"move", "save"} = Moving
      /\ \A op \in ItemOps : op \notin Moving /\ op # "save" /\ op \notin Deciding
      /\ \A op \in Moving : op \notin ItemOps /\ op \notin Deciding
  BY JobOps DEF ItemOps, Moving
<1>1. CASE Create(w, k)
  <2>1. PICK j : j = [op |-> "add", ord |-> k, seen |-> "draft"]
    OBVIOUS
  <2>2. SetJob(w, j)
    BY <1>1, <2>1 DEF Create, Ask
  <2>3. /\ j.op \in ItemOps /\ j.op \notin Moving /\ j.op # "save" /\ j.op \notin Deciding
        /\ j.seen = "draft"
    BY <1>x, <2>1
  <2> QED
    BY <2>2, <2>3, JobSet
<1>2. CASE ReadForItems(w, k)
  <2>1. PICK op \in ItemOps : SetJob(w, [op |-> op, ord |-> k, seen |-> Status(k)])
    BY <1>2 DEF ReadForItems, Ask
  <2>2. PICK j : j = [op |-> op, ord |-> k, seen |-> Status(k)]
    OBVIOUS
  <2>3. SetJob(w, j)
    BY <2>1, <2>2
  <2>4. /\ j.op \in ItemOps /\ j.op \notin Moving /\ j.op # "save" /\ j.op \notin Deciding
        /\ j.seen = "draft"
    BY <1>2, <1>x, <2>2 DEF ReadForItems
  <2> QED
    BY <2>3, <2>4, JobSet
<1>3. CASE ReadForMove(w, k)
  <2>1. PICK to \in Allowed(Status(k)) :
            SetJob(w, [op |-> "move", ord |-> k, snap |-> order[k], to |-> to])
    BY <1>3 DEF ReadForMove, Ask
  <2>2. PICK j : j = [op |-> "move", ord |-> k, snap |-> order[k], to |-> to]
    OBVIOUS
  <2>3. SetJob(w, j)
    BY <2>1, <2>2
  <2>4. Status(k) # "absent"
    BY <1>3, StatusFacts DEF ReadForMove, Exists
  <2>5. /\ j.op = "move" /\ j.op \notin ItemOps /\ j.op # "save" /\ j.op \notin Deciding
        /\ j.to \in Allowed(j.snap.status) /\ j.ord \in Orders /\ Status(j.ord) # "absent"
    BY <1>x, <2>2, <2>4 DEF Status
  <2> QED
    BY <2>3, <2>5, JobSet
<1>4. CASE PutBack(w, k)
  <2>1. PICK j : j = [op |-> "save", ord |-> k, snap |-> job[w].snap, to |-> job[w].to,
                      units |-> qty[k]]
    OBVIOUS
  <2>2. SetJob(w, j)
    BY <1>4, <2>1 DEF PutBack
  <2>3. /\ job[w].to \in Allowed(job[w].snap.status) /\ Status(k) # "absent"
        /\ job[w].to \in Closed
    BY <1>4 DEF PutBack, JobsInv, Moving
  <2>4. /\ j.op = "save" /\ j.op \notin ItemOps /\ j.op \notin Deciding
        /\ j.to \in Allowed(j.snap.status) /\ j.ord \in Orders /\ Status(j.ord) # "absent"
        /\ j.to \in Closed
    BY <1>x, <2>1, <2>3
  <2> QED
    BY <2>2, <2>4, JobSet
<1>5. CASE AddItem(w, k) \/ UpdateItem(w, k) \/ RemoveItem(w, k) \/ SaveMove(w, k)
  BY <1>0, <1>5 DEF AddItem, UpdateItem, RemoveItem, WriteItems, SaveMove
<1> QED
  BY <1>1, <1>2, <1>3, <1>4, <1>5 DEF RequestStep

LEMMA StaffJobsStep ==
    ASSUME IInv, \A o \in Orders : Remembered(o), PaymentsStay,
           NEW w \in Workers, NEW k \in Orders, StaffStep(w, k)
    PROVE  JobsInv'
<1>0. TypeOK /\ JobsInv /\ job[w] \in Jobs
  BY DEF IInv, TypeOK
<1>1. \A op \in Deciding : op \notin Moving /\ op # "save" /\ op \notin ItemOps
  BY JobOps DEF Moving
<1>2. ASSUME SetJob(w, Idle) PROVE JobsInv'
  BY <1>0, <1>2, JobSet, JobOps DEF Moving
<1>3. ASSUME NEW j, SetJob(w, j), j.op \in Deciding, j.ord = k, payment[k] # "none"
      PROVE  JobsInv'
  BY <1>0, <1>1, <1>3, JobSet
<1>4. CASE ReadPayment(w, k)
  <2>1. PICK op \in StaffOps : SetJob(w, [op |-> op, ord |-> k])
    BY <1>4 DEF ReadPayment, Ask
  <2>2. PICK j : j = [op |-> op, ord |-> k]
    OBVIOUS
  <2>3. SetJob(w, j) /\ j.op \in Deciding /\ j.ord = k /\ payment[k] # "none"
    BY <1>4, <2>1, <2>2 DEF ReadPayment, Pending, Deciding
  <2> QED
    BY <1>3, <2>3
<1>5. CASE ReadTransfer(w, k)
  <2>1. PICK j : j = [op |-> "verify", ord |-> k, snap |-> order[k]]
    OBVIOUS
  <2>2. SetJob(w, j) /\ j.op \in Deciding /\ j.ord = k /\ payment[k] # "none"
    BY <1>5, <2>1 DEF ReadTransfer, Ask, Deciding, Verifying
  <2> QED
    BY <1>3, <2>2
<1>6. CASE MarkCompleted(w, k) \/ MarkFailed(w, k) \/ CancelPayment(w, k)
  BY <1>2, <1>6 DEF MarkCompleted, MarkFailed, DecidePayment, CancelPayment
<1>7. CASE VerifyTransfer(w, k) \/ MoveOn(w, k)
  <2>1. job[w].op \in Verifying /\ job[w].ord = k /\ payment[k] # "none"
    BY <1>0, <1>7 DEF VerifyTransfer, MoveOn, Verifying, Deciding, JobsInv
  <2>2. job[w] = [op |-> job[w].op, ord |-> job[w].ord, snap |-> job[w].snap]
    BY <1>0, <2>1, VerifyFields
  <2>3. PICK j : SetJob(w, j) /\ (j = Idle \/ (j.op \in Verifying /\ j.ord = k))
    BY <1>7, <2>1, <2>2 DEF VerifyTransfer, MoveOn, Verifying
  <2> QED
    BY <1>2, <1>3, <2>1, <2>3 DEF Deciding
<1> QED
  BY <1>4, <1>5, <1>6, <1>7 DEF StaffStep

LEMMA TickJobs ==
    ASSUME TypeOK, JobsInv, Tick
    PROVE  JobsInv'
<1> SUFFICES ASSUME NEW w \in Workers
             PROVE  /\ job'[w].op \in Moving =>
                          /\ job'[w].to \in Allowed(job'[w].snap.status)
                          /\ order'[job'[w].ord].status # "absent"
                    /\ job'[w].op = "save" => job'[w].to \in Closed
                    /\ job'[w].op \in ItemOps => job'[w].seen = "draft"
                    /\ job'[w].op \in Deciding => payment'[job'[w].ord] # "none"
  BY DEF JobsInv, Status
<1>1. /\ job'[w].op = job[w].op /\ job'[w].ord = job[w].ord
      /\ job[w].op \in Moving => /\ job'[w].to = job[w].to
                                 /\ job'[w].snap.status = job[w].snap.status
      /\ job[w].op \in ItemOps => job'[w].seen = job[w].seen
  BY AgedJob
<1>2. /\ job[w].op \in Moving => job[w].ord \in Orders
      /\ \A o \in Orders : order'[o].status = order[o].status
      /\ payment' = payment
  BY JobFields, JobOps, AgedRow DEF Tick, TypeOK
<1> QED
  BY <1>1, <1>2 DEF JobsInv, Status, Moving

LEMMA JobsStep ==
    ASSUME IInv, Next
    PROVE  JobsInv'
<1>0. TypeOK /\ JobsInv /\ PaymentsStay /\ \A o \in Orders : Remembered(o)
  BY StepRemembers, StepPayments DEF IInv
<1>1. ASSUME NEW w \in Workers, Abort(w) PROVE JobsInv'
  BY <1>0, <1>1, JobSet, JobOps DEF Abort, Moving
<1>2. CASE AdjustStock
  BY <1>0, <1>2, JobsKept DEF AdjustStock, Unrelated, requestVars
<1> QED
  BY <1>0, <1>1, <1>2, LockedJobs, RequestJobs, StaffJobsStep, TickJobs DEF Next

-----------------------------------------------------------------------------
(* The inductive invariant and what follows from it.                        *)

LEMMA InvInit == Init => IInv
<1> SUFFICES ASSUME Init PROVE IInv
  OBVIOUS
<1>1. TypeOK
  BY TypeInit
<1>2. JobsInv /\ TargetInv
  BY JobOps DEF Init, JobsInv, Moving, TargetInv, Unlocked
<1>3. ASSUME NEW o \in Orders PROVE OrderInv(o)
  <2>1. /\ Status(o) = "absent" /\ qty[o] = 0 /\ payment[o] = "none"
        /\ ledger[o] = 0 /\ lost[o] = 0
    BY DEF Init, Status, Absent
  <2>2. \A w \in Workers : ~Saving(w, o)
    BY DEF Init, Saving, Idle
  <2>3. Reserved(o) = 0 /\ ~IsOpen(o)
    BY <2>1, StatusFacts DEF Reserved, IsOpen
  <2> QED
    BY <2>1, <2>2, <2>3 DEF OrderInv, Balanced, Billed, Limited
<1> QED
  BY <1>1, <1>2, <1>3 DEF IInv

LEMMA InvStep == IInv /\ [Next]_vars => IInv'
<1> SUFFICES ASSUME IInv, [Next]_vars PROVE IInv'
  OBVIOUS
<1>1. CASE Next
  BY <1>1, TypeStep, JobsStep, TargetStep, OrderStep DEF IInv
<1>2. CASE UNCHANGED vars
  <2>1. JobsInv' /\ TargetInv'
    BY <1>2 DEF vars, IInv, JobsInv, TargetInv, Unlocked, Status
  <2>2. \A o \in Orders : OrderInv(o)'
    BY <1>2 DEF vars, IInv, OrderInv, Balanced, Billed, Limited, Unlimited, Saving, Reserved,
                Status, Exists, IsOpen
  <2> QED
    BY <1>2, <2>1, <2>2, TypeStep DEF IInv
<1> QED
  BY <1>1, <1>2

\* The jobs and every order satisfy the inductive invariant in every reachable
\* state (the locked steps and the unlocked requests of orders.py and
\* viewsets/orders.py keep it).
THEOREM Invariant == Spec => []IInv
<1> QED
  BY InvInit, InvStep, PTL DEF Spec

\* The stock movements logged for an order account for the units its items
\* reserve, whatever cancels, expires, refunds or deletes it: no other request
\* is between the two halves of transition_to, none met a changed order, and no
\* payment handler has saved its copy over one (webhooks.py 187-208).
THEOREM LedgerBalances == Spec => []StockBalances
<1>1. IInv => StockBalances
  BY DEF IInv, OrderInv, Balanced, StockBalances, Quiet, Saving
<1> QED
  BY <1>1, Invariant, PTL

\* An order with a payment holds the units its checkout charged for, in the
\* absence of an item request that met a checked-out order.
THEOREM HoldsWhatWasBilled == Spec => []BilledUndisturbed
<1>1. IInv => BilledUndisturbed
  BY DEF IInv, OrderInv, Billed, BilledUndisturbed
<1> QED
  BY <1>1, Invariant, PTL

\* An open order with items has a hold, is to be paid offline or is paid, or is
\* one that mark_failed or a refused transfer left as it was: no path of items,
\* checkout, packages, expiry and payments leaves another (orders.py 508-510).
THEOREM OpenIsLimited == Spec => []HoldOrPayment
<1>1. IInv => HoldOrPayment
  BY DEF IInv, OrderInv, Limited, HoldOrPayment
<1> QED
  BY <1>1, Invariant, PTL

-----------------------------------------------------------------------------
(* Closed orders.                                                           *)

\* Order o, if closed, stays as it is or is deleted.
Final(o) ==
    Status(o) \in Closed /\ ~disturbed'[o] => order'[o].status \in {Status(o), "deleted"}

LEMMA ClosedFacts ==
    ASSUME NEW s \in Closed
    PROVE  s \notin Open /\ s \notin Live /\ s # "draft" /\ s # "pending" /\ Allowed(s) = {}
BY DEF Closed, Open, Live, Rest, Allowed

LEMMA SavedFinal ==
    ASSUME TypeOK, NEW k \in Orders, NEW r, SetOrder(k, r),
           Status(k) \in Closed /\ ~disturbed'[k] => r.status \in {Status(k), "deleted"}
    PROVE  \A o \in Orders : Final(o)
BY DEF SetOrder, TypeOK, Final, Status

LEMMA KeptFinal ==
    ASSUME order' = order
    PROVE  \A o \in Orders : Final(o)
BY DEF Final, Status

LEMMA LostFinal ==
    ASSUME TypeOK, NEW k \in Orders, PaymentLost(k)
    PROVE  \A o \in Orders : Final(o)
<1>1. CASE "cancelled" \in Allowed(Status(k))
  BY <1>1, SavedFinal, ClosedFacts DEF PaymentLost, CancelOrder
<1>2. CASE "cancelled" \notin Allowed(Status(k))
  BY <1>2, KeptFinal DEF PaymentLost, KeepOrder
<1> QED
  BY <1>1, <1>2

\* A copy saved over a closed order disturbs it.
LEMMA TargetFinal ==
    ASSUME TypeOK, NEW k \in Orders, NEW r, SaveTarget(k, r)
    PROVE  \A o \in Orders : Final(o)
<1>1. ~disturbed'[k] => Status(k) \in {"pending", "processing"}
  BY DEF SaveTarget, DisturbedIf, TypeOK
<1>2. Status(k) \in Closed => disturbed'[k]
  BY <1>1, ClosedFacts, StatusFacts
<1> QED
  BY <1>2, SavedFinal DEF SaveTarget, SaveOrder

LEMMA LockedFinal ==
    ASSUME TypeOK, NEW k \in Orders,
           \/ Extend(k) \/ Checkout(k) \/ PackageOrder(k)
           \/ PaymentStep(k) \/ Expire(k) \/ Delete(k)
    PROVE  \A o \in Orders : Final(o)
<1>0. order[k] \in Rows
  BY DEF TypeOK
<1>1. ASSUME NEW r, SetOrder(k, r), Status(k) \notin Closed PROVE \A o \in Orders : Final(o)
  BY <1>1, SavedFinal
<1>2. CASE Extend(k)
  BY <1>1, <1>2, ClosedFacts DEF Extend, SaveOrder, IsOpen
<1>3. CASE Checkout(k)
  BY <1>1, <1>3, ClosedFacts DEF Checkout, SaveOrder
<1>4. CASE PackageOrder(k)
  BY <1>1, <1>4, StatusFacts DEF PackageOrder
<1>6. CASE Settle(k)
  <2> DEFINE s == IF ~ApprovalRequired /\ "processing" \in Allowed(order[k].status)
                  THEN "processing" ELSE order[k].status
             r == [order[k] EXCEPT !.left = NoHold, !.status = s]
  <2>1. SetOrder(k, r)
    BY <1>6 DEF Settle, SaveOrder
  <2>2. Status(k) \in Closed => s = Status(k)
    BY ClosedFacts DEF Status
  <2>3. r.status = s
    BY <1>0 DEF Rows
  <2> HIDE DEF r, s
  <2> QED
    BY <2>1, <2>2, <2>3, SavedFinal
<1>7. CASE Expire(k)
  <2>1. Status(k) \notin Closed
    BY <1>7, ClosedFacts DEF Expire, Lapsed, IsOpen
  <2> QED
    BY <1>1, <1>7, <2>1, KeptFinal DEF Expire, SaveOrder, CancelOrder, KeepOrder
<1>8. CASE Delete(k)
  <2>1. [order[k] EXCEPT !.status = "deleted"].status = "deleted"
    BY <1>0 DEF Rows
  <2> QED
    BY <1>8, <2>1, SavedFinal DEF Delete
<1>9. CASE PaymentStep(k)
  <2>1. CASE Capture(k) \/ ReadTarget(k)
    BY <2>1, KeptFinal DEF Capture, ReadTarget, KeepOrder
  <2>2. CASE FailedEvent(k) \/ CanceledEvent(k)
    BY <2>2, LostFinal DEF FailedEvent, CanceledEvent
  <2>3. CASE SucceededEvent(k)
    BY <2>3, TargetFinal, KeptFinal DEF SucceededEvent, KeepOrder
  <2>4. CASE FulfilBooking(k)
    BY <1>1, <2>4, ClosedFacts DEF FulfilBooking, SaveOrder
  <2> QED
    BY <1>6, <1>9, <2>1, <2>2, <2>3, <2>4 DEF PaymentStep
<1> QED
  BY <1>2, <1>3, <1>4, <1>6, <1>7, <1>8, <1>9

LEMMA StaffFinal ==
    ASSUME TypeOK, NEW w \in Workers, NEW k \in Orders, StaffStep(w, k)
    PROVE  \A o \in Orders : Final(o)
<1>1. CASE ReadPayment(w, k) \/ ReadTransfer(w, k) \/ VerifyTransfer(w, k)
  BY <1>1, KeptFinal DEF ReadPayment, ReadTransfer, VerifyTransfer, KeepOrder
<1>2. CASE MarkCompleted(w, k) \/ MarkFailed(w, k)
  BY <1>2, KeptFinal DEF MarkCompleted, MarkFailed, DecidePayment, KeepOrder
<1>3. CASE CancelPayment(w, k) \/ MoveOn(w, k)
  BY <1>3, LostFinal, TargetFinal DEF CancelPayment, MoveOn
<1> QED
  BY <1>1, <1>2, <1>3 DEF StaffStep

\* An unlocked request that meets a closed order was disturbed: it checked
\* that the order was a draft, or that the transition it saves is allowed.
LEMMA RequestFinal ==
    ASSUME TypeOK, JobsInv, NEW w \in Workers, NEW k \in Orders, RequestStep(w, k)
    PROVE  \A o \in Orders : Final(o)
<1>0. job[w] \in Jobs /\ disturbed \in [Orders -> BOOLEAN]
  BY DEF TypeOK
<1>1. CASE Create(w, k)
  <2>1. Status(k) \notin Closed
    BY <1>1, StatusFacts DEF Create
  <2> QED
    BY <1>1, <2>1, SavedFinal DEF Create
<1>2. CASE ReadForItems(w, k) \/ ReadForMove(w, k) \/ UpdateItem(w, k) \/ PutBack(w, k)
  BY <1>2, KeptFinal DEF ReadForItems, ReadForMove, UpdateItem, PutBack
<1>3. ASSUME NEW op \in ItemOps, WriteItems(w, k, op), ~disturbed'[k]
      PROVE  Status(k) \notin Closed
  <2>1. Status(k) = job[w].seen
    BY <1>0, <1>3 DEF WriteItems, DisturbedIf
  <2>2. job[w].seen = "draft"
    BY <1>3 DEF WriteItems, JobsInv
  <2> QED
    BY <2>1, <2>2, ClosedFacts
<1>4. CASE AddItem(w, k)
  <2>1. PICK r : SetOrder(k, r)
    BY <1>4 DEF AddItem
  <2>2. ~disturbed'[k] => Status(k) \notin Closed
    BY <1>3, <1>4 DEF AddItem, ItemOps
  <2> QED
    BY <2>1, <2>2, SavedFinal
<1>5. CASE RemoveItem(w, k)
  <2>1. PICK r : SetOrder(k, r)
    BY <1>5 DEF RemoveItem
  <2>2. ~disturbed'[k] => Status(k) \notin Closed
    BY <1>3, <1>5 DEF RemoveItem, ItemOps
  <2> QED
    BY <2>1, <2>2, SavedFinal
<1>6. CASE SaveMove(w, k)
  <2>1. PICK r : SetOrder(k, r)
    BY <1>6 DEF SaveMove
  <2>2. job[w].to \in Allowed(job[w].snap.status)
    BY <1>6 DEF SaveMove, JobsInv, Moving
  <2>3. ~disturbed'[k] => order[k] = job[w].snap
    BY <1>0, <1>6 DEF SaveMove, DisturbedIf
  <2>4. ~disturbed'[k] => Status(k) \notin Closed
    BY <2>2, <2>3, ClosedFacts DEF Status
  <2> QED
    BY <2>1, <2>4, SavedFinal
<1> QED
  BY <1>1, <1>2, <1>4, <1>5, <1>6 DEF RequestStep

LEMMA StepFinal ==
    ASSUME IInv, [Next]_vars
    PROVE  \A o \in Orders : Final(o)
<1>1. CASE \E w \in Workers : Abort(w)
  BY <1>1, KeptFinal DEF Abort
<1>2. CASE AdjustStock \/ UNCHANGED vars
  BY <1>2, KeptFinal DEF AdjustStock, vars
<1>3. CASE Tick
  BY <1>3, AgedRow DEF Tick, IInv, TypeOK, Final, Status
<1> QED
  BY <1>1, <1>2, <1>3, LockedFinal, RequestFinal, StaffFinal DEF Next, IInv

\* No undisturbed step takes up an order that was cancelled or refunded, whose
\* stock went back: not an expiry, a failed payment, a fulfilment, that of a
\* booking or a refund.  The copies that payment handlers save are what disturbs.
THEOREM ClosedStaysClosed == Spec => ClosedIsFinal
<1>1. IInv /\ [Next]_vars =>
        [\A o \in Orders :
            Status(o) \in Closed /\ ~disturbed'[o] =>
                order'[o].status \in {Status(o), "deleted"}]_vars
  BY StepFinal DEF Final
<1> QED
  BY <1>1, Invariant, PTL DEF Spec, ClosedIsFinal
-----------------------------------------------------------------------------
(* The module keeps OrderContract.                                          *)

\* Seen from outside, nothing happens to the order.
SameView(o) ==
    /\ Phase(o)' = Phase(o) /\ Reserved(o)' = Reserved(o)
    /\ ledger'[o] = ledger[o] /\ lost'[o] = lost[o] /\ billed'[o] = billed[o]

Books(o) == <<ledger[o], lost[o], billed[o]>>

\* The steps of the contract that an order takes while nothing is promised of
\* its books, because a request is closing it or has written over it.
ViewLoose(o) ==
    \/ Phase(o)' = "excused"
    \/ Phase(o) = "closing" /\ Phase(o)' = "closing" /\ lost'[o] >= lost[o]

\* The stock of the order is put back or written off.
ViewReturned(o) ==
    /\ \/ ledger'[o] = ledger[o] - Reserved(o) /\ lost'[o] = lost[o]
       \/ lost'[o] = lost[o] + Reserved(o) /\ ledger'[o] = ledger[o]
    /\ billed'[o] = billed[o]

\* The other steps, one for each action of the contract.
ViewCart(o) ==
    \/ /\ Phase(o) = "none" /\ Phase(o)' = "cart"
       /\ Reserved(o)' = Reserved(o) /\ UNCHANGED Books(o)
    \/ /\ Phase(o) = "cart" /\ Phase(o)' = "cart"
       /\ Reserved(o)' \in 0..MaxQuantity
       /\ ledger'[o] = ledger[o] + Reserved(o)' - Reserved(o)
       /\ lost'[o] = lost[o] /\ billed'[o] = billed[o]
    \/ /\ Phase(o) = "cart" /\ Phase(o)' = "gone"
       /\ Reserved(o)' = 0
       /\ ledger'[o] = ledger[o] - Reserved(o)
       /\ lost'[o] = lost[o] /\ billed'[o] = billed[o]
    \/ /\ Phase(o) = "cart" /\ Phase(o)' = "held"
       /\ Reserved(o)' = Reserved(o)
       /\ ledger'[o] = ledger[o] /\ lost'[o] = lost[o]
       /\ billed'[o] \in {billed[o], Reserved(o)}
    \/ /\ Phase(o) = "none" /\ Phase(o)' = "held"
       /\ \E n \in 1..MaxQuantity :
             /\ Reserved(o)' = n /\ billed'[o] = n
             /\ ledger'[o] = ledger[o] + n
       /\ lost'[o] = lost[o]

ViewClose(o) ==
    \/ /\ Phase(o) \in {"cart", "held"} /\ Phase(o)' = "closed"
       /\ Reserved(o)' = 0 /\ ViewReturned(o)
    \/ /\ Phase(o) \in {"cart", "held"} /\ Phase(o)' = "closing"
       /\ Reserved(o)' = Reserved(o) /\ ViewReturned(o)
    \/ /\ Phase(o) = "closing" /\ Phase(o)' = "closed"
       /\ ledger[o] = lost[o]
       /\ Reserved(o)' = 0 /\ UNCHANGED Books(o)
    \/ /\ Phase(o) \in {"cart", "held", "closed"} /\ Phase(o)' = "gone"
       /\ Reserved(o)' = 0
       /\ lost'[o] = lost[o] + Reserved(o)
       /\ ledger'[o] = ledger[o] /\ billed'[o] = billed[o]

ViewStep(o) == SameView(o) \/ ViewLoose(o) \/ ViewCart(o) \/ ViewClose(o)

\* A step on one order is a step of the contract if its view moves as the
\* contract allows.
LEMMA ContractMove ==
    ASSUME TypeOK, TypeOK', NEW k \in Orders, ViewStep(k),
           \A o \in Orders \ {k} : SameView(o)
    PROVE  [Contract!ContractNext]_(Contract!contractVars)
<1> DEFINE phase == [o \in Orders |-> Phase(o)]
           units == [o \in Orders |-> Reserved(o)]
<1>1. /\ phase' = [phase EXCEPT ![k] = Phase(k)'] /\ phase[k] = Phase(k)
      /\ units' = [units EXCEPT ![k] = Reserved(k)'] /\ units[k] = Reserved(k)
  BY DEF SameView
<1>2. /\ ledger' = [ledger EXCEPT ![k] = ledger'[k]]
      /\ lost' = [lost EXCEPT ![k] = lost'[k]]
      /\ billed' = [billed EXCEPT ![k] = billed'[k]]
  BY DEF SameView, TypeOK
<1>3. /\ Phase(k)' = Phase(k) => phase' = phase
      /\ Reserved(k)' = Reserved(k) => units' = units
      /\ ledger'[k] = ledger[k] => ledger' = ledger
      /\ lost'[k] = lost[k] => lost' = lost
      /\ billed'[k] = billed[k] => billed' = billed
  <2>1. /\ ledger = [ledger EXCEPT ![k] = ledger[k]]
        /\ lost = [lost EXCEPT ![k] = lost[k]]
        /\ billed = [billed EXCEPT ![k] = billed[k]]
    BY DEF TypeOK
  <2>2. phase = [phase EXCEPT ![k] = Phase(k)] /\ units = [units EXCEPT ![k] = Reserved(k)]
    OBVIOUS
  <2> HIDE DEF phase, units
  <2> QED
    BY <1>1, <1>2, <2>1, <2>2
<1>4. \A o \in Orders \ {k} :
          /\ units'[o] = units[o] /\ ledger'[o] = ledger[o]
          /\ lost'[o] = lost[o] /\ billed'[o] = billed[o]
  BY DEF SameView
<1>5. /\ units' \in [Orders -> 0..MaxQuantity] /\ ledger' \in [Orders -> Int]
      /\ lost' \in [Orders -> Nat] /\ billed' \in [Orders -> 0..MaxQuantity]
  <2>1. \A o \in Orders : Reserved(o)' \in 0..MaxQuantity
    BY StockAssumption DEF TypeOK, Reserved
  <2> QED
    BY <2>1 DEF TypeOK
<1>6. CASE SameView(k)
  BY <1>3, <1>6 DEF SameView, Contract!contractVars
<1>7. CASE ViewLoose(k)
  <2>1. CASE Phase(k)' = "excused"
    <3>1. Contract!Excuse(k)
      BY <1>1, <1>4, <1>5, <2>1 DEF Contract!Excuse, Contract!AnyBooks
    <3> QED
      BY <3>1 DEF Contract!ContractNext
  <2>2. CASE Phase(k) = "closing" /\ Phase(k)' = "closing" /\ lost'[k] >= lost[k]
    <3>1. Contract!Intrude(k)
      BY <1>1, <1>3, <1>4, <1>5, <2>2 DEF Contract!Intrude, Contract!AnyBooks
    <3> QED
      BY <3>1 DEF Contract!ContractNext
  <2> QED
    BY <1>7, <2>1, <2>2 DEF ViewLoose
<1> HIDE DEF phase, units
<1>8. CASE ViewCart(k)
  <2>1. CASE /\ Phase(k) = "none" /\ Phase(k)' = "cart"
             /\ Reserved(k)' = Reserved(k) /\ UNCHANGED Books(k)
    BY <1>1, <1>3, <2>1
    DEF Books, phase, units, Contract!ContractNext, Contract!Open, Contract!Moves
  <2>2. CASE /\ Phase(k) = "cart" /\ Phase(k)' = "cart"
             /\ Reserved(k)' \in 0..MaxQuantity
             /\ ledger'[k] = ledger[k] + Reserved(k)' - Reserved(k)
             /\ lost'[k] = lost[k] /\ billed'[k] = billed[k]
    <3>1. ledger' = [ledger EXCEPT ![k] = ledger[k] + Reserved(k)' - units[k]]
      BY <1>1, <1>2, <2>2
    <3>2. Contract!Fill(k)
      BY <1>1, <1>3, <2>2, <3>1 DEF phase, units, Contract!Fill, Contract!Claims
    <3> QED
      BY <3>2 DEF Contract!ContractNext
  <2>3. CASE /\ Phase(k) = "cart" /\ Phase(k)' = "gone"
             /\ Reserved(k)' = 0
             /\ ledger'[k] = ledger[k] - Reserved(k)
             /\ lost'[k] = lost[k] /\ billed'[k] = billed[k]
    <3>1. Contract!Empty(k)
      BY <1>1, <1>2, <1>3, <2>3 DEF phase, units, Contract!Empty, Contract!Moves, Contract!Claims
    <3> QED
      BY <3>1 DEF Contract!ContractNext
  <2>4. CASE /\ Phase(k) = "cart" /\ Phase(k)' = "held"
             /\ Reserved(k)' = Reserved(k)
             /\ ledger'[k] = ledger[k] /\ lost'[k] = lost[k]
             /\ billed'[k] \in {billed[k], Reserved(k)}
    <3>1. Contract!Submit(k) \/ Contract!Bill(k)
      BY <1>1, <1>2, <1>3, <2>4 DEF phase, units, Contract!Submit, Contract!Bill, Contract!Moves
    <3> QED
      BY <3>1 DEF Contract!ContractNext
  <2>5. ASSUME Phase(k) = "none", Phase(k)' = "held", NEW n \in 1..MaxQuantity,
               Reserved(k)' = n, billed'[k] = n, ledger'[k] = ledger[k] + n, lost'[k] = lost[k]
        PROVE  [Contract!ContractNext]_(Contract!contractVars)
    <3>1. Contract!Reserve(k)
      BY <1>1, <1>2, <1>3, <2>5
      DEF phase, units, Contract!Reserve, Contract!Moves, Contract!Claims
    <3> QED
      BY <3>1 DEF Contract!ContractNext
  <2> QED
    BY <1>8, <2>1, <2>2, <2>3, <2>4, <2>5 DEF ViewCart
<1>9. CASE ViewClose(k)
  <2>1. ASSUME ViewReturned(k)
        PROVE  Contract!Returned(k) /\ billed' = billed
    BY <1>1, <1>2, <1>3, <2>1 DEF ViewReturned, units, Contract!Returned
  <2>2. CASE /\ Phase(k) \in {"cart", "held"} /\ Phase(k)' = "closed"
             /\ Reserved(k)' = 0 /\ ViewReturned(k)
    <3>1. Contract!Close(k)
      BY <1>1, <2>1, <2>2 DEF phase, units, Contract!Close, Contract!Moves, Contract!Claims
    <3> QED
      BY <3>1 DEF Contract!ContractNext
  <2>3. CASE /\ Phase(k) \in {"cart", "held"} /\ Phase(k)' = "closing"
             /\ Reserved(k)' = Reserved(k) /\ ViewReturned(k)
    <3>1. Contract!BeginClosing(k)
      BY <1>1, <1>3, <2>1, <2>3 DEF phase, units, Contract!BeginClosing, Contract!Moves
    <3> QED
      BY <3>1 DEF Contract!ContractNext
  <2>4. CASE /\ Phase(k) = "closing" /\ Phase(k)' = "closed"
             /\ ledger[k] = lost[k]
             /\ Reserved(k)' = 0 /\ UNCHANGED Books(k)
    <3>1. Contract!FinishClosing(k)
      BY <1>1, <1>3, <2>4
      DEF Books, phase, units, Contract!FinishClosing, Contract!Moves, Contract!Claims
    <3> QED
      BY <3>1 DEF Contract!ContractNext
  <2>5. CASE /\ Phase(k) \in {"cart", "held", "closed"} /\ Phase(k)' = "gone"
             /\ Reserved(k)' = 0
             /\ lost'[k] = lost[k] + Reserved(k)
             /\ ledger'[k] = ledger[k] /\ billed'[k] = billed[k]
    <3>1. Contract!Discard(k)
      BY <1>1, <1>2, <1>3, <2>5
      DEF phase, units, Contract!Discard, Contract!Moves, Contract!Claims
    <3> QED
      BY <3>1 DEF Contract!ContractNext
  <2> QED
    BY <1>9, <2>2, <2>3, <2>4, <2>5 DEF ViewClose
<1> QED
  BY <1>6, <1>7, <1>8, <1>9 DEF ViewStep

\* The phase of an order, by cases.
LEMMA PhaseFacts ==
    ASSUME NEW o \in Orders, Status(o) \in Statuses \cup {"absent", "deleted"}
    PROVE  /\ disturbed[o] => Phase(o) = "excused"
           /\ ~disturbed[o] /\ ~Quiet(o) => Phase(o) = "closing"
           /\ ~disturbed[o] /\ Quiet(o) =>
                 /\ Status(o) = "absent" => Phase(o) = "none"
                 /\ Status(o) = "draft" => Phase(o) = "cart"
                 /\ Status(o) \in Live \ {"draft"} => Phase(o) = "held"
                 /\ Status(o) \in Closed => Phase(o) = "closed"
                 /\ Status(o) = "deleted" => Phase(o) = "gone"
BY DEF Phase, Stage, Statuses, Live, Open, Rest, Closed

LEMMA StatusType ==
    ASSUME TypeOK, NEW o \in Orders
    PROVE  Status(o) \in Statuses \cup {"absent", "deleted"}
BY RowFields DEF TypeOK, Status

LEMMA QuietSaving ==
    ASSUME NEW o \in Orders
    PROVE  Quiet(o) <=> \A w \in Workers : ~Saving(w, o)
BY DEF Quiet, Saving

LEMMA QuietKept ==
    ASSUME NEW o \in Orders, SaversKept(o)
    PROVE  Quiet(o)' <=> Quiet(o)
BY DEF SaversKept, Quiet, Saving

LEMMA KeptView ==
    ASSUME NEW o \in Orders, Keeps(o)
    PROVE  SameView(o)
<1>1. Status(o)' = Status(o) /\ (Quiet(o)' <=> Quiet(o)) /\ disturbed'[o] = disturbed[o]
  BY QuietKept DEF Keeps, LedgerKept, Status
<1>2. Phase(o)' = Phase(o)
  BY <1>1 DEF Phase
<1> QED
  BY <1>1, <1>2 DEF Keeps, LedgerKept, SameView, Reserved

\* A step that only moves the status of an order from one of the same phase to
\* another is not seen.
LEMMA HeldView ==
    ASSUME TypeOK, NEW o \in Orders, LedgerKept(o), SaversKept(o),
           \/ Status(o)' = Status(o)
           \/ Status(o) \in Live \ {"draft"} /\ Status(o)' \in Live \ {"draft"}
    PROVE  SameView(o)
<1>1. (Quiet(o)' <=> Quiet(o)) /\ disturbed'[o] = disturbed[o]
  BY QuietKept DEF LedgerKept
<1>2. Stage(Status(o)') = Stage(Status(o)) /\ (Status(o)' \in Live <=> Status(o) \in Live)
  <2>1. CASE Status(o) \in Live \ {"draft"} /\ Status(o)' \in Live \ {"draft"}
    <3>1. \A s \in Live \ {"draft"} : Stage(s) = "held"
      BY DEF Stage, Live, Open, Rest, Closed
    <3> QED
      BY <2>1, <3>1
  <2> QED
    BY <2>1
<1>3. Phase(o)' = Phase(o)
  BY <1>1, <1>2 DEF Phase
<1> QED
  BY <1>2, <1>3 DEF LedgerKept, SameView, Reserved

\* Nothing more has to be shown of an order that is excused or being closed.
LEMMA LooseView ==
    ASSUME TypeOK, TypeOK', NEW o \in Orders, lost'[o] >= lost[o],
           disturbed[o] => disturbed'[o],
           disturbed'[o] \/ (~Quiet(o) /\ ~Quiet(o)')
    PROVE  ViewLoose(o)
<1>1. Status(o) \in Statuses \cup {"absent", "deleted"}
      /\ Status(o)' \in Statuses \cup {"absent", "deleted"}
  BY StatusType, RowFields DEF TypeOK, Status
<1>2. disturbed'[o] => Phase(o)' = "excused"
  BY DEF Phase
<1>3. ~disturbed'[o] => Phase(o) = "closing" /\ Phase(o)' = "closing"
  BY DEF Phase
<1> QED
  BY <1>2, <1>3 DEF ViewLoose

LEMMA RestoreView ==
    ASSUME TypeOK, NEW o \in Orders, Restore(o)
    PROVE  /\ \/ ledger'[o] = ledger[o] - qty[o] /\ lost'[o] = lost[o]
              \/ lost'[o] = lost[o] + qty[o] /\ ledger'[o] = ledger[o]
           /\ lost'[o] >= lost[o]
           /\ \A k \in Orders \ {o} : ledger'[k] = ledger[k] /\ lost'[k] = lost[k]
<1>0. qty[o] \in Nat /\ -qty[o] \in Int /\ ledger[o] \in Int /\ lost[o] \in Nat
  BY StockAssumption DEF TypeOK
<1>1. CASE stock + qty[o] <= StockCap
  <2>1. Take(o, -qty[o]) /\ lost' = lost
    BY <1>1 DEF Restore
  <2> QED
    BY <1>0, <2>1, TakeLedger
<1>2. CASE ~(stock + qty[o] <= StockCap)
  BY <1>0, <1>2 DEF Restore, TypeOK
<1> QED
  BY <1>1, <1>2

\* No request begins or ends its second half, and none meets a change.
Locked == NoSaving /\ disturbed' = disturbed

LEMMA LockedKept ==
    ASSUME Locked, NEW o \in Orders
    PROVE  SaversKept(o) /\ disturbed'[o] = disturbed[o] /\ (Quiet(o)' <=> Quiet(o))
BY QuietKept DEF Locked, NoSaving

LEMMA UnrelatedLocked ==
    ASSUME Unrelated
    PROVE  Locked
BY JobsUntouched DEF Unrelated, requestVars, Locked

\* The order is cancelled and its stock put back.
LEMMA CancelView ==
    ASSUME TypeOK, TypeOK', NEW k \in Orders, NEW r \in Rows, CancelOrder(k, r), Locked,
           Status(k) \in Live, UNCHANGED billed
    PROVE  ViewStep(k) /\ \A o \in Orders \ {k} : SameView(o)
<1>1. /\ Status(k)' = "cancelled" /\ qty' = qty
      /\ \A o \in Orders \ {k} :
            order'[o] = order[o] /\ ledger'[o] = ledger[o] /\ lost'[o] = lost[o]
  BY CancelledRow DEF Status
<1>2. /\ \/ ledger'[k] = ledger[k] - qty[k] /\ lost'[k] = lost[k]
         \/ lost'[k] = lost[k] + qty[k] /\ ledger'[k] = ledger[k]
      /\ lost'[k] >= lost[k]
  BY RestoreView DEF CancelOrder
<1>3. Reserved(k) = qty[k] /\ Reserved(k)' = 0
  BY <1>1, StatusFacts DEF Reserved
<1>4. ASSUME disturbed[k] \/ ~Quiet(k) PROVE ViewStep(k)
  <2>1. disturbed'[k] \/ (~Quiet(k) /\ ~Quiet(k)')
    BY <1>4, LockedKept
  <2>2. disturbed[k] => disturbed'[k]
    BY LockedKept
  <2> QED
    BY <1>2, <2>1, <2>2, LooseView DEF ViewStep
<1>5. ASSUME ~disturbed[k], Quiet(k) PROVE ViewStep(k)
  <2>1. Phase(k) \in {"cart", "held"}
    BY <1>5, PhaseFacts, StatusFacts
  <2>2. Phase(k)' = "closed"
    <3>1. Phase(k)' = Stage("cancelled")
      BY <1>1, <1>5, LockedKept DEF Phase
    <3> QED
      BY <3>1, StatusFacts DEF Stage
  <2>3. ViewReturned(k)
    BY <1>2, <1>3 DEF ViewReturned
  <2>4. ViewClose(k)
    BY <1>3, <2>1, <2>2, <2>3 DEF ViewClose
  <2> QED
    BY <2>4 DEF ViewStep
<1>6. \A o \in Orders \ {k} : SameView(o)
  <2> SUFFICES ASSUME NEW o \in Orders \ {k} PROVE SameView(o)
    OBVIOUS
  <2>1. LedgerKept(o) /\ Status(o)' = Status(o)
    BY <1>1, LockedKept DEF LedgerKept, Status
  <2> QED
    BY <2>1, LockedKept, HeldView
<1> QED
  BY <1>4, <1>5, <1>6

\* The row of one order is saved, its phase does not change, and no stock moves.
LEMMA SaveView ==
    ASSUME TypeOK, NEW k \in Orders, NEW r, SaveOrder(k, r) \/ (KeepOrder /\ r = order[k]),
           Locked, UNCHANGED billed,
           \/ r.status = Status(k)
           \/ Status(k) \in Live \ {"draft"} /\ r.status \in Live \ {"draft"}
    PROVE  \A o \in Orders : SameView(o)
<1>1. /\ order'[k] = r /\ UNCHANGED stockVars
      /\ \A o \in Orders \ {k} : order'[o] = order[o]
  BY SavedRow DEF KeepOrder
<1> SUFFICES ASSUME NEW o \in Orders PROVE SameView(o)
  OBVIOUS
<1>2. LedgerKept(o) /\ SaversKept(o)
  BY <1>1, LockedKept DEF LedgerKept, stockVars
<1>3. \/ Status(o)' = Status(o)
      \/ Status(o) \in Live \ {"draft"} /\ Status(o)' \in Live \ {"draft"}
  BY <1>1 DEF Status
<1> QED
  BY <1>2, <1>3, HeldView

\* One order moves as the contract allows, and no other is seen to move.
ViewMove == \E k \in Orders : ViewStep(k) /\ \A o \in Orders \ {k} : SameView(o)

LEMMA ExtendView ==
    ASSUME TypeOK, NEW k \in Orders, Extend(k)
    PROVE  \A o \in Orders : SameView(o)
<1> DEFINE r(t) == [order[k] EXCEPT !.left = order[k].left + t, !.ext = order[k].ext + 1]
<1>1. PICK t \in 1..ExtensionTime : SaveOrder(k, r(t))
  BY DEF Extend
<1>2. r(t).status = Status(k)
  BY DEF TypeOK, Rows, Status
<1>3. Locked /\ UNCHANGED billed
  BY UnrelatedLocked DEF Extend
<1> HIDE DEF r
<1> QED
  BY <1>1, <1>2, <1>3, SaveView

LEMMA CheckoutView ==
    ASSUME TypeOK, TypeOK', NEW k \in Orders, Checkout(k)
    PROVE  ViewStep(k) /\ \A o \in Orders \ {k} : SameView(o)
<1> DEFINE r1 == [order[k] EXCEPT !.status = "pending", !.left = CheckoutTime, !.ext = 0,
                                   !.paying = TRUE]
           r2 == [order[k] EXCEPT !.status = "pending", !.left = NoHold, !.paying = TRUE]
           r3 == [order[k] EXCEPT !.status = "processing", !.left = NoHold]
<1>1. /\ order[k] \in Rows /\ Status(k) = "draft" /\ Locked
      /\ billed' = [billed EXCEPT ![k] = qty[k]]
  BY UnrelatedLocked DEF Checkout, TypeOK
<1>2. {r1.status, r2.status, r3.status} \subseteq {"pending", "processing"}
  BY <1>1 DEF Rows
<1>3. SaveOrder(k, r1) \/ SaveOrder(k, r2) \/ SaveOrder(k, r3)
  BY DEF Checkout
<1>4. /\ Status(k)' \in Live \ {"draft"} /\ UNCHANGED stockVars
      /\ \A o \in Orders \ {k} : order'[o] = order[o]
  <2> HIDE DEF r1, r2, r3
  <2> QED
    BY <1>2, <1>3, SavedRow DEF Status, Live, Open, Rest
<1>5. /\ Reserved(k) = qty[k] /\ Reserved(k)' = Reserved(k)
      /\ ledger'[k] = ledger[k] /\ lost'[k] = lost[k] /\ lost[k] \in Int
      /\ billed'[k] = Reserved(k)
  BY <1>1, <1>4, StatusFacts DEF Reserved, stockVars, TypeOK
<1>6. ASSUME disturbed[k] \/ ~Quiet(k) PROVE ViewStep(k)
  <2>1. disturbed'[k] \/ (~Quiet(k) /\ ~Quiet(k)')
    BY <1>1, <1>6, LockedKept
  <2>2. disturbed[k] => disturbed'[k]
    BY <1>1, LockedKept
  <2> QED
    BY <1>5, <2>1, <2>2, LooseView DEF ViewStep
<1>7. ASSUME ~disturbed[k], Quiet(k) PROVE ViewStep(k)
  <2>1. Phase(k) = "cart"
    BY <1>1, <1>7, PhaseFacts, StatusFacts
  <2>2. Phase(k)' = "held"
    <3>1. Phase(k)' = Stage(Status(k)')
      BY <1>1, <1>7, LockedKept DEF Phase
    <3> QED
      BY <1>4, <3>1 DEF Stage, Live, Open, Rest, Closed
  <2> QED
    BY <1>5, <2>1, <2>2 DEF ViewStep, ViewCart
<1>8. \A o \in Orders \ {k} : SameView(o)
  <2> SUFFICES ASSUME NEW o \in Orders \ {k} PROVE SameView(o)
    OBVIOUS
  <2>1. billed'[o] = billed[o]
    BY <1>1 DEF TypeOK
  <2>2. LedgerKept(o) /\ Status(o)' = Status(o)
    BY <1>1, <1>4, <2>1, LockedKept DEF LedgerKept, Status, stockVars
  <2> QED
    BY <1>1, <2>2, LockedKept, HeldView
<1> QED
  BY <1>6, <1>7, <1>8

LEMMA LostView ==
    ASSUME TypeOK, TypeOK', NEW k \in Orders, PaymentLost(k), NoSaving
    PROVE  ViewMove
<1>1. order[k] \in Rows /\ Locked /\ UNCHANGED billed
  BY DEF PaymentLost, TypeOK, Locked
<1>2. CASE "cancelled" \in Allowed(Status(k))
  <2>1. CancelOrder(k, order[k]) /\ Status(k) \in Live
    BY <1>2, AllowedFacts DEF PaymentLost
  <2> QED
    BY <1>1, <2>1, CancelView DEF ViewMove
<1>3. CASE "cancelled" \notin Allowed(Status(k))
  <2>1. KeepOrder
    BY <1>3 DEF PaymentLost
  <2> QED
    BY <1>1, <2>1, SaveView DEF Status, ViewStep, ViewMove
<1> QED
  BY <1>2, <1>3

\* A copy of the order is saved: it had stayed pending or processing, or nothing
\* is promised of it any more.
LEMMA TargetView ==
    ASSUME TypeOK, TypeOK', NEW k \in Orders, NEW row \in Rows, SaveTarget(k, row),
           NoSaving, UNCHANGED billed
    PROVE  ViewMove
<1> DEFINE r == [row EXCEPT !.status = "processing"]
<1>1. SaveOrder(k, r) /\ r.status = "processing"
  BY DEF SaveTarget, Rows
<1> HIDE DEF r
<1>2. /\ disturbed'[k] = (disturbed[k] \/ Status(k) \notin {"pending", "processing"})
      /\ \A o \in Orders \ {k} : disturbed'[o] = disturbed[o]
  BY Zenon DEF SaveTarget, DisturbedIf, TypeOK
<1>3. /\ UNCHANGED stockVars /\ Status(k)' = "processing"
      /\ \A o \in Orders \ {k} : order'[o] = order[o]
  BY <1>1, SavedRow DEF Status
<1>4. ASSUME disturbed'[k] PROVE ViewStep(k)
  BY <1>4 DEF ViewStep, ViewLoose, Phase
<1>5. ASSUME ~disturbed'[k] PROVE ViewStep(k)
  <2>1. Status(k) \in {"pending", "processing"} /\ disturbed'[k] = disturbed[k]
    BY <1>2, <1>5 DEF TypeOK
  <2>2. {"pending", "processing"} \subseteq Live \ {"draft"}
    BY StatusFacts
  <2>3. LedgerKept(k) /\ SaversKept(k)
    BY <1>3, <2>1 DEF LedgerKept, NoSaving, stockVars
  <2> QED
    BY <1>3, <2>1, <2>2, <2>3, HeldView DEF ViewStep
<1>6. \A o \in Orders \ {k} : SameView(o)
  <2> SUFFICES ASSUME NEW o \in Orders \ {k} PROVE SameView(o)
    OBVIOUS
  <2>1. LedgerKept(o) /\ SaversKept(o) /\ Status(o)' = Status(o)
    BY <1>2, <1>3 DEF LedgerKept, NoSaving, Status, stockVars
  <2> QED
    BY <2>1, HeldView
<1> QED
  BY <1>4, <1>5, <1>6 DEF ViewMove

LEMMA SucceededView ==
    ASSUME TypeOK, TypeOK', NEW k \in Orders, SucceededEvent(k)
    PROVE  ViewMove
<1>1. NoSaving /\ UNCHANGED billed
  BY JobsUntouched DEF SucceededEvent, requestVars
<1>2. CASE target[k].status = "pending"
  <2>1. target[k] \in Rows /\ SaveTarget(k, target[k])
    BY <1>2 DEF SucceededEvent, Unlocked, Targets, TypeOK
  <2> QED
    BY <1>1, <2>1, TargetView
<1>3. CASE target[k].status # "pending"
  <2>1. KeepOrder /\ Locked
    BY <1>1, <1>3 DEF SucceededEvent, Locked
  <2> QED
    BY <1>1, <2>1, SaveView DEF Status, ViewStep, ViewMove
<1> QED
  BY <1>2, <1>3

LEMMA FulfilView ==
    ASSUME TypeOK, NEW k \in Orders, FulfilBooking(k)
    PROVE  \A o \in Orders : SameView(o)
<1> DEFINE r == [order[k] EXCEPT !.status = "processing"]
<1>1. Locked /\ UNCHANGED billed /\ SaveOrder(k, r) /\ Status(k) = "pending"
  BY UnrelatedLocked DEF FulfilBooking
<1>2. r.status = "processing" /\ {"pending", "processing"} \subseteq Live \ {"draft"}
  BY StatusFacts DEF TypeOK, Rows
<1> HIDE DEF r
<1> QED
  BY <1>1, <1>2, SaveView

LEMMA PackageView ==
    ASSUME IInv, TypeOK', NEW k \in Orders, PackageOrder(k)
    PROVE  ViewMove
<1>1. /\ TypeOK /\ OrderInv(k) /\ Status(k) = "absent"
      /\ Locked /\ lost' = lost /\ job' = job
      /\ Status(k)' = "pending" /\ \A o \in Orders \ {k} : order'[o] = order[o]
  BY UnrelatedLocked DEF IInv, PackageOrder, Unrelated, requestVars, SetOrder, Absent, TypeOK, Status
<1>2. PICK n \in 1..MaxQuantity :
          /\ Take(k, n)
          /\ qty' = [qty EXCEPT ![k] = n]
          /\ billed' = [billed EXCEPT ![k] = n]
  BY DEF PackageOrder
<1>3. /\ n \in Int /\ qty'[k] = n /\ billed'[k] = n
      /\ \A o \in Orders \ {k} : qty'[o] = qty[o] /\ billed'[o] = billed[o]
  BY <1>1, <1>2 DEF TypeOK
<1>4. ledger'[k] = ledger[k] + n /\ \A o \in Orders \ {k} : ledger'[o] = ledger[o]
  BY <1>1, <1>2, <1>3, TakeLedger
<1>5. Quiet(k) /\ Quiet(k)'
  <2>1. \A w \in Workers : ~Saving(w, k)
    BY <1>1 DEF IInv, JobsInv, Saving, Moving
  <2> QED
    BY <1>1, <2>1, LockedKept, QuietSaving
<1>6. ASSUME disturbed[k] PROVE ViewStep(k)
  BY <1>1, <1>6 DEF Locked, ViewStep, ViewLoose, Phase
<1>7. ASSUME ~disturbed[k] PROVE ViewStep(k)
  <2>1. Phase(k) = Stage("absent") /\ Phase(k)' = Stage("pending")
    BY <1>1, <1>5, <1>7 DEF Phase, Locked
  <2>2. Phase(k) = "none" /\ Phase(k)' = "held"
    BY <2>1 DEF Stage, Closed
  <2>3. Reserved(k)' = n
    BY <1>1, <1>3, StatusFacts DEF Reserved
  <2> QED
    BY <1>1, <1>2, <1>3, <1>4, <2>2, <2>3 DEF ViewStep, ViewCart
<1>8. \A o \in Orders \ {k} : SameView(o)
  <2> SUFFICES ASSUME NEW o \in Orders \ {k} PROVE SameView(o)
    OBVIOUS
  <2>1. LedgerKept(o) /\ Status(o)' = Status(o)
    BY <1>1, <1>3, <1>4, LockedKept DEF LedgerKept, Status
  <2> QED
    BY <1>1, <2>1, LockedKept, HeldView
<1> QED
  BY <1>6, <1>7, <1>8 DEF ViewMove

LEMMA SettleView ==
    ASSUME TypeOK, NEW k \in Orders, Settle(k)
    PROVE  \A o \in Orders : SameView(o)
<1> DEFINE s == IF ~ApprovalRequired /\ "processing" \in Allowed(order[k].status)
                THEN "processing" ELSE order[k].status
           r == [order[k] EXCEPT !.left = NoHold, !.status = s]
<1>1. order[k] \in Rows /\ Locked /\ UNCHANGED billed /\ SaveOrder(k, r)
  BY UnrelatedLocked DEF Settle, TypeOK
<1>2. r.status = s
  BY <1>1 DEF Rows
<1>3. \/ s = Status(k)
      \/ Status(k) \in Live \ {"draft"} /\ s \in Live \ {"draft"}
  BY AllowedFacts, StatusFacts DEF Status
<1> HIDE DEF r, s
<1> QED
  BY <1>1, <1>2, <1>3, SaveView

LEMMA ExpireView ==
    ASSUME TypeOK, TypeOK', NEW k \in Orders, Expire(k)
    PROVE  ViewStep(k) /\ \A o \in Orders \ {k} : SameView(o)
<1> DEFINE r1 == [order[k] EXCEPT !.left = NoHold]
           r2 == [order[k] EXCEPT !.left = RetryTime]
<1>1. /\ order[k] \in Rows /\ Locked /\ UNCHANGED billed
      /\ Status(k) \in Live
  BY StatusFacts, UnrelatedLocked DEF Expire, Lapsed, IsOpen, TypeOK
<1>2. r1 \in Rows /\ r1.status = Status(k) /\ r2.status = Status(k)
  BY <1>1, HoldFacts DEF Rows, Status
<1>3. SaveOrder(k, r1) \/ SaveOrder(k, r2) \/ CancelOrder(k, r1) \/ KeepOrder
  BY DEF Expire
<1> HIDE DEF r1, r2
<1>4. CASE SaveOrder(k, r1) \/ SaveOrder(k, r2)
  BY <1>1, <1>2, <1>4, SaveView DEF ViewStep
<1>5. CASE CancelOrder(k, r1)
  BY <1>1, <1>2, <1>5, CancelView
<1>6. CASE KeepOrder
  BY <1>1, <1>6, SaveView DEF ViewStep, Status
<1> QED
  BY <1>3, <1>4, <1>5, <1>6

LEMMA DeleteView ==
    ASSUME TypeOK, TypeOK', NEW k \in Orders, Delete(k)
    PROVE  ViewStep(k) /\ \A o \in Orders \ {k} : SameView(o)
<1>1. /\ order[k] \in Rows /\ Exists(k) /\ Locked
      /\ ledger' = ledger /\ billed' = billed
      /\ order' = [order EXCEPT ![k] = [order[k] EXCEPT !.status = "deleted"]]
      /\ lost' = [lost EXCEPT ![k] = lost[k] + Reserved(k)]
      /\ qty' = [qty EXCEPT ![k] = 0]
  BY UnrelatedLocked DEF Delete, TypeOK, SetOrder, Reserved
<1>2. Status(k)' = "deleted" /\ Reserved(k)' = 0
  BY <1>1, StatusFacts DEF TypeOK, Rows, Status, Reserved
<1>3. /\ Reserved(k) \in Nat /\ lost[k] \in Int
      /\ lost'[k] = lost[k] + Reserved(k)
  BY <1>1, StockAssumption DEF TypeOK, Reserved
<1>4. ASSUME disturbed[k] \/ ~Quiet(k) PROVE ViewStep(k)
  <2>1. disturbed'[k] \/ (~Quiet(k) /\ ~Quiet(k)')
    BY <1>1, <1>4, LockedKept
  <2>2. disturbed[k] => disturbed'[k]
    BY <1>1, LockedKept
  <2> QED
    BY <1>3, <2>1, <2>2, LooseView DEF ViewStep
<1>5. ASSUME ~disturbed[k], Quiet(k) PROVE ViewStep(k)
  <2>1. Phase(k) \in {"cart", "held", "closed"}
    BY <1>1, <1>5, PhaseFacts, StatusFacts DEF Exists, Statuses
  <2>2. Phase(k)' = "gone"
    <3>1. Phase(k)' = Stage("deleted")
      BY <1>1, <1>2, <1>5, LockedKept DEF Phase
    <3> QED
      BY <3>1 DEF Stage, Closed
  <2> QED
    BY <1>1, <1>2, <1>3, <2>1, <2>2 DEF ViewStep, ViewClose
<1>6. \A o \in Orders \ {k} : SameView(o)
  <2> SUFFICES ASSUME NEW o \in Orders \ {k} PROVE SameView(o)
    OBVIOUS
  <2>1. LedgerKept(o) /\ Status(o)' = Status(o)
    BY <1>1, LockedKept DEF LedgerKept, Status, TypeOK
  <2> QED
    BY <1>1, <2>1, LockedKept, HeldView
<1> QED
  BY <1>4, <1>5, <1>6

LEMMA LockedView ==
    ASSUME IInv, TypeOK', NEW k \in Orders,
           \/ Extend(k) \/ Checkout(k) \/ PackageOrder(k)
           \/ PaymentStep(k) \/ Expire(k) \/ Delete(k)
    PROVE  ViewMove
<1>0. TypeOK
  BY DEF IInv
<1>1. ASSUME \A o \in Orders : SameView(o) PROVE ViewMove
  BY <1>1 DEF ViewMove, ViewStep
<1>2. CASE Capture(k)
  <2>1. KeepOrder /\ Locked /\ UNCHANGED billed
    BY <1>2, UnrelatedLocked DEF Capture
  <2> QED
    BY <1>0, <1>1, <2>1, SaveView DEF Status
<1>3. CASE FailedEvent(k) \/ CanceledEvent(k)
  BY <1>0, <1>3, JobsUntouched, LostView DEF FailedEvent, CanceledEvent
<1>4. CASE ReadTarget(k)
  <2>1. KeepOrder /\ Locked /\ UNCHANGED billed
    BY <1>4, JobsUntouched DEF ReadTarget, requestVars, Locked
  <2> QED
    BY <1>0, <1>1, <2>1, SaveView DEF Status
<1>5. CASE PaymentStep(k)
  BY <1>0, <1>1, <1>2, <1>3, <1>4, <1>5, SucceededView, SettleView, FulfilView DEF PaymentStep
<1>6. CASE Extend(k) \/ Checkout(k)
  BY <1>0, <1>1, <1>6, ExtendView, CheckoutView DEF ViewMove
<1>7. CASE Expire(k) \/ Delete(k)
  BY <1>0, <1>7, ExpireView, DeleteView DEF ViewMove
<1> QED
  BY <1>5, <1>6, <1>7, PackageView

LEMMA StaffView ==
    ASSUME IInv, TypeOK', NEW w \in Workers, NEW k \in Orders,
           \/ MarkCompleted(w, k) \/ MarkFailed(w, k) \/ CancelPayment(w, k)
           \/ VerifyTransfer(w, k) \/ MoveOn(w, k)
    PROVE  ViewMove
<1>0. TypeOK /\ job[w] \in Jobs
  BY DEF IInv, TypeOK
<1>1. job[w].op \in Deciding /\ job[w].ord = k /\ job[w].op # "save"
  BY JobOps DEF MarkCompleted, MarkFailed, DecidePayment, CancelPayment, VerifyTransfer, MoveOn,
                Deciding, Verifying, StaffOps
<1>2. PICK j : SetJob(w, j) /\ j.op # "save"
  <2>1. CASE MarkCompleted(w, k) \/ MarkFailed(w, k) \/ CancelPayment(w, k)
    BY <2>1, JobOps DEF MarkCompleted, MarkFailed, DecidePayment, CancelPayment, Moving
  <2>2. CASE VerifyTransfer(w, k) \/ MoveOn(w, k)
    <3>1. job[w] = [op |-> job[w].op, ord |-> job[w].ord, snap |-> job[w].snap]
      BY <1>0, <2>2, VerifyFields DEF VerifyTransfer, MoveOn, Verifying
    <3> QED
      BY <2>2, <3>1, JobOps DEF VerifyTransfer, MoveOn, Moving
  <2> QED
    BY <2>1, <2>2
<1>3. NoSaving
  BY <1>0, <1>1, <1>2, OtherJob
<1>4. ASSUME KeepOrder, disturbed' = disturbed, UNCHANGED billed
      PROVE  ViewMove
  <2>1. Locked
    BY <1>3, <1>4 DEF Locked
  <2> QED
    BY <1>0, <1>4, <2>1, SaveView DEF Status, ViewMove, ViewStep
<1>5. CASE MarkCompleted(w, k) \/ MarkFailed(w, k) \/ VerifyTransfer(w, k)
  BY <1>4, <1>5 DEF MarkCompleted, MarkFailed, DecidePayment, VerifyTransfer
<1>6. CASE CancelPayment(w, k)
  BY <1>0, <1>3, <1>6, LostView DEF CancelPayment
<1>7. CASE MoveOn(w, k)
  <2>1. job[w].snap \in Rows
    BY <1>0, <1>7, JobFields DEF MoveOn, Verifying
  <2> QED
    BY <1>0, <1>3, <1>7, <2>1, TargetView DEF MoveOn
<1> QED
  BY <1>5, <1>6, <1>7

\* A request that saves nothing is not seen, unless it dies half way.
LEMMA AskView ==
    ASSUME IInv, NEW w \in Workers, Asks(w)
    PROVE  \A o \in Orders : SameView(o)
BY AskKeeps, KeptView

LEMMA AbortView ==
    ASSUME IInv, TypeOK', NEW w \in Workers, Abort(w)
    PROVE  ViewMove
<1>1. /\ TypeOK /\ job[w] \in Jobs /\ job[w] # Idle /\ SetJob(w, Idle)
      /\ UNCHANGED <<order, stockVars, payment, billed>>
      /\ DisturbedIf(job[w].ord, job[w].op = "save")
  BY DEF IInv, Abort, TypeOK
<1>2. PICK k \in Orders : k = job[w].ord
  BY <1>1, JobFields
<1>3. Idle.op # "save"
  BY JobOps
<1>4. /\ disturbed'[k] = (disturbed[k] \/ job[w].op = "save")
      /\ \A o \in Orders \ {k} : disturbed'[o] = disturbed[o]
  BY <1>1, <1>2, Zenon DEF DisturbedIf, TypeOK
<1>5. \A o \in Orders \ {k} : SameView(o)
  <2>1. \A o \in Orders \ {k} : Keeps(o)
    BY <1>1, <1>2, <1>3, <1>4, WorkerFrame DEF Frame, LedgerKept, stockVars
  <2> QED
    BY <2>1, KeptView
<1>6. ViewStep(k)
  <2>1. CASE job[w].op = "save"
    <3>1. disturbed'[k]
      BY <1>4, <2>1
    <3> QED
      BY <3>1 DEF ViewStep, ViewLoose, Phase
  <2>2. CASE job[w].op # "save"
    <3>1. job'[w] = Idle /\ \A v \in Workers \ {w} : job'[v] = job[v]
      BY <1>1 DEF SetJob, TypeOK
    <3>2. SaversKept(k)
      BY <1>2, <1>3, <2>2, <3>1 DEF SaversKept, Saving
    <3>3. disturbed'[k] = disturbed[k]
      BY <1>2, <1>4, <2>2, <1>1, Zenon DEF TypeOK
    <3>4. Keeps(k)
      BY <1>1, <3>2, <3>3 DEF Keeps, LedgerKept, stockVars
    <3> QED
      BY <1>2, <3>4, KeptView DEF ViewStep
  <2> QED
    BY <2>1, <2>2
<1> QED
  BY <1>5, <1>6 DEF ViewMove

LEMMA CreateView ==
    ASSUME IInv, TypeOK', NEW w \in Workers, NEW k \in Orders, Create(w, k)
    PROVE  ViewMove
<1>1. /\ TypeOK /\ job[w] = Idle /\ OrderInv(k) /\ Status(k) = "absent"
      /\ SetJob(w, [op |-> "add", ord |-> k, seen |-> "draft"])
      /\ order' = [order EXCEPT ![k] = NewDraft]
      /\ UNCHANGED <<stockVars, payment, billed, disturbed>>
  BY DEF IInv, Create, Ask, SetOrder
<1>2. Status(k)' = "draft" /\ \A o \in Orders \ {k} : order'[o] = order[o]
  BY <1>1 DEF Status, NewDraft, Absent, TypeOK
<1>3. Reserved(k) = 0 /\ Reserved(k)' = 0
  BY <1>1, <1>2, StatusFacts DEF OrderInv, Reserved, stockVars
<1>4. Quiet(k) /\ Quiet(k)'
  <2>1. \A v \in Workers : ~Saving(v, k)
    BY <1>1 DEF IInv, JobsInv, Saving, Moving
  <2>2. \A v \in Workers : ~Saving(v, k)'
    BY <1>1, <2>1 DEF SetJob, TypeOK, Saving
  <2> QED
    BY <2>1, <2>2 DEF Quiet, Saving
<1>5. ViewStep(k)
  <2>1. CASE disturbed[k]
    BY <1>1, <2>1 DEF ViewStep, ViewLoose, Phase
  <2>2. CASE ~disturbed[k]
    <3>1. Phase(k) = Stage("absent") /\ Phase(k)' = Stage("draft")
      BY <1>1, <1>2, <1>4, <2>2 DEF Phase
    <3>2. Phase(k) = "none" /\ Phase(k)' = "cart"
      BY <3>1 DEF Stage, Closed
    <3>3. UNCHANGED Books(k)
      BY <1>1 DEF Books, stockVars
    <3> QED
      BY <1>3, <3>2, <3>3 DEF ViewStep, ViewCart
  <2> QED
    BY <2>1, <2>2
<1>6. \A o \in Orders \ {k} : SameView(o)
  <2>1. \A o \in Orders \ {k} : Keeps(o)
    BY <1>1, WorkerFrame, JobOps DEF Frame, LedgerKept, stockVars, TypeOK
  <2> QED
    BY <2>1, KeptView
<1> QED
  BY <1>5, <1>6 DEF ViewMove

\* The items of a draft change by n units and the stock with them.
LEMMA ItemsView ==
    ASSUME IInv, TypeOK', NEW w \in Workers, NEW k \in Orders, NEW op \in ItemOps, NEW n \in Int,
           WriteItems(w, k, op),
           Take(k, n),
           qty' = [qty EXCEPT ![k] = qty[k] + n],
           \A o \in Orders \ {k} : order'[o] = order[o],
           Status(k)' = Status(k) \/ (Status(k)' = "deleted" /\ qty[k] + n = 0)
    PROVE  ViewMove
<1>1. /\ TypeOK /\ job[w] \in Jobs /\ job[w].op = op /\ job[w].ord = k
      /\ SetJob(w, Idle) /\ DisturbedIf(k, Status(k) # job[w].seen)
      /\ payment' = payment /\ billed' = billed /\ lost' = lost
  BY DEF IInv, WriteItems, TypeOK
<1>2. /\ ledger'[k] = ledger[k] + n
      /\ \A o \in Orders \ {k} : ledger'[o] = ledger[o]
      /\ qty'[k] = qty[k] + n
      /\ \A o \in Orders \ {k} : qty'[o] = qty[o]
  BY <1>1, TakeLedger DEF TypeOK
<1>3. /\ disturbed'[k] = (disturbed[k] \/ Status(k) # job[w].seen)
      /\ \A o \in Orders \ {k} : disturbed'[o] = disturbed[o]
  BY <1>1, Zenon DEF DisturbedIf, TypeOK
<1>4. job[w].seen = "draft" /\ job[w].op # "save" /\ Idle.op # "save"
  BY <1>1, JobOps DEF IInv, JobsInv, ItemOps
<1>5. \A o \in Orders \ {k} : SameView(o)
  <2>1. \A o \in Orders \ {k} : Keeps(o)
    BY <1>1, <1>2, <1>3, <1>4, WorkerFrame DEF Frame, LedgerKept
  <2> QED
    BY <2>1, KeptView
<1>6. SaversKept(k)
  <2>1. job'[w] = Idle /\ \A v \in Workers \ {w} : job'[v] = job[v]
    BY <1>1 DEF SetJob, TypeOK
  <2> QED
    BY <1>4, <2>1 DEF SaversKept, Saving
<1>7. lost[k] \in Int /\ ledger[k] \in Int /\ qty[k] \in Int /\ qty'[k] \in 0..MaxQuantity
  BY <1>1, StockAssumption DEF TypeOK
<1>8. ASSUME disturbed'[k] \/ ~Quiet(k) PROVE ViewStep(k)
  <2>1. disturbed'[k] \/ (~Quiet(k) /\ ~Quiet(k)')
    BY <1>6, <1>8, QuietKept
  <2>2. disturbed[k] => disturbed'[k]
    BY <1>3
  <2>3. lost'[k] >= lost[k]
    BY <1>1, <1>7
  <2> QED
    BY <1>1, <2>1, <2>2, <2>3, LooseView DEF ViewStep
<1>9. ASSUME ~disturbed'[k], Quiet(k) PROVE ViewStep(k)
  <2>1. ~disturbed[k] /\ Status(k) = "draft" /\ Quiet(k)'
    BY <1>3, <1>4, <1>6, <1>9, QuietKept
  <2>2. Phase(k) = "cart" /\ Reserved(k) = qty[k]
    BY <1>9, <2>1, StatusFacts DEF Phase, Stage, Reserved
  <2>3. CASE Status(k)' = Status(k)
    <3>1. Phase(k)' = "cart" /\ Reserved(k)' = qty'[k]
      BY <1>9, <2>1, <2>3, StatusFacts DEF Phase, Stage, Reserved
    <3>2. ledger'[k] = ledger[k] + Reserved(k)' - Reserved(k)
      BY <1>2, <1>7, <2>2, <3>1
    <3> QED
      BY <1>1, <1>7, <2>2, <3>1, <3>2 DEF ViewStep, ViewCart
  <2>4. CASE Status(k)' = "deleted" /\ qty[k] + n = 0
    <3>1. Phase(k)' = "gone" /\ Reserved(k)' = 0
      BY <1>9, <2>1, <2>4, StatusFacts DEF Phase, Stage, Reserved, Closed
    <3>2. ledger'[k] = ledger[k] - Reserved(k)
      BY <1>2, <1>7, <2>2, <2>4
    <3> QED
      BY <1>1, <2>2, <3>1, <3>2 DEF ViewStep, ViewCart
  <2> QED
    BY <2>3, <2>4
<1> QED
  BY <1>5, <1>8, <1>9 DEF ViewMove

LEMMA ItemStepView ==
    ASSUME IInv, TypeOK', NEW w \in Workers, NEW k \in Orders,
           AddItem(w, k) \/ UpdateItem(w, k) \/ RemoveItem(w, k)
    PROVE  ViewMove
<1>1. /\ TypeOK /\ order[k] \in Rows /\ qty[k] \in Int /\ MaxQuantity \in Int
      /\ "add" \in ItemOps /\ "update" \in ItemOps /\ "remove" \in ItemOps
  BY StockAssumption DEF IInv, TypeOK, ItemOps
<1>2. CASE AddItem(w, k)
  <2> DEFINE l == IF StartsHold(k) THEN HoldTime ELSE order[k].left
  <2>1. PICK n \in 1..(MaxQuantity - qty[k]) :
            Take(k, n) /\ qty' = [qty EXCEPT ![k] = qty[k] + n]
    BY <1>2 DEF AddItem
  <2>2. WriteItems(w, k, "add") /\ order' = [order EXCEPT ![k] = [order[k] EXCEPT !.left = l]]
    BY <1>2 DEF AddItem, SetOrder
  <2> HIDE DEF l
  <2>3. /\ Status(k)' = Status(k) /\ n \in Int
        /\ \A o \in Orders \ {k} : order'[o] = order[o]
    BY <1>1, <2>2 DEF TypeOK, Rows, Status
  <2> QED
    BY <1>1, <2>1, <2>2, <2>3, ItemsView
<1>3. CASE UpdateItem(w, k)
  <2>1. PICK n \in 1..MaxQuantity : Take(k, n - qty[k]) /\ qty' = [qty EXCEPT ![k] = n]
    BY <1>3 DEF UpdateItem
  <2>2. WriteItems(w, k, "update") /\ order' = order
    BY <1>3 DEF UpdateItem
  <2>3. n - qty[k] \in Int /\ qty[k] + (n - qty[k]) = n
    BY <1>1
  <2>4. Status(k)' = Status(k) /\ \A o \in Orders \ {k} : order'[o] = order[o]
    BY <2>2 DEF Status
  <2>5. qty' = [qty EXCEPT ![k] = qty[k] + (n - qty[k])]
    BY <2>1, <2>3
  <2> QED
    BY <1>1, <2>1, <2>2, <2>3, <2>4, <2>5, ItemsView
<1>4. CASE RemoveItem(w, k)
  <2>1. PICK n \in 1..qty[k] :
            /\ Take(k, -n)
            /\ qty' = [qty EXCEPT ![k] = qty[k] - n]
            /\ order' = [order EXCEPT ![k] =
                           [order[k] EXCEPT !.status = IF n = qty[k] THEN "deleted" ELSE order[k].status]]
    BY <1>4 DEF RemoveItem, SetOrder
  <2>2. WriteItems(w, k, "remove")
    BY <1>4 DEF RemoveItem
  <2>3. -n \in Int /\ n \in Int /\ qty[k] + (-n) = qty[k] - n
    BY <1>1
  <2>4. /\ order'[k].status = IF n = qty[k] THEN "deleted" ELSE order[k].status
        /\ \A o \in Orders \ {k} : order'[o] = order[o]
    BY <1>1, <2>1 DEF TypeOK, Rows
  <2>5. Status(k)' = Status(k) \/ (Status(k)' = "deleted" /\ qty[k] + (-n) = 0)
    BY <1>1, <2>3, <2>4 DEF Status
  <2>6. qty' = [qty EXCEPT ![k] = qty[k] + (-n)]
    BY <2>1, <2>3
  <2> QED
    BY <1>1, <2>1, <2>2, <2>3, <2>4, <2>5, <2>6, ItemsView
<1> QED
  BY <1>2, <1>3, <1>4

LEMMA PutBackView ==
    ASSUME IInv, TypeOK', NEW w \in Workers, NEW k \in Orders, PutBack(w, k)
    PROVE  ViewMove
<1> DEFINE j == [op |-> "save", ord |-> k, snap |-> job[w].snap, to |-> job[w].to, units |-> qty[k]]
<1>1. /\ TypeOK /\ job[w] \in Jobs /\ job[w].op = "move" /\ job[w].ord = k
      /\ Restore(k) /\ SetJob(w, j)
      /\ DisturbedIf(k, order[k] # job[w].snap)
      /\ UNCHANGED <<order, qty, payment, billed>>
  BY DEF IInv, PutBack, TypeOK
<1>2. /\ disturbed'[k] = (disturbed[k] \/ order[k] # job[w].snap)
      /\ \A o \in Orders \ {k} : disturbed'[o] = disturbed[o]
  BY <1>1, Zenon DEF DisturbedIf, TypeOK
<1>3. /\ \/ ledger'[k] = ledger[k] - qty[k] /\ lost'[k] = lost[k]
         \/ lost'[k] = lost[k] + qty[k] /\ ledger'[k] = ledger[k]
      /\ lost'[k] >= lost[k]
      /\ \A o \in Orders \ {k} : ledger'[o] = ledger[o] /\ lost'[o] = lost[o]
  BY <1>1, RestoreView
<1>4. job'[w] = j /\ \A v \in Workers \ {w} : job'[v] = job[v]
  BY <1>1 DEF SetJob, TypeOK
<1>5. j.op = "save" /\ j.ord = k
  OBVIOUS
<1> HIDE DEF j
<1>6. \A o \in Orders \ {k} : SameView(o)
  <2>1. Frame(k)
    BY <1>1, <1>2, <1>3 DEF Frame, LedgerKept
  <2>2. \A o \in Orders \ {k} : SaversKept(o)
    BY <1>1, <1>4, <1>5 DEF SaversKept, Saving
  <2>3. \A o \in Orders \ {k} : Keeps(o)
    BY <2>1, <2>2 DEF Frame, Keeps
  <2> QED
    BY <2>3, KeptView
<1>7. ~Quiet(k)'
  BY <1>4, <1>5 DEF Quiet
<1>8. ASSUME disturbed'[k] \/ ~Quiet(k) PROVE ViewStep(k)
  <2>1. disturbed[k] => disturbed'[k]
    BY <1>2
  <2> QED
    BY <1>1, <1>3, <1>7, <1>8, <2>1, LooseView DEF ViewStep
<1>9. ASSUME ~disturbed'[k], Quiet(k) PROVE ViewStep(k)
  <2>1. ~disturbed[k] /\ order[k] = job[w].snap
    BY <1>2, <1>9
  <2>2. Status(k) \in Live
    BY <1>1, <2>1, AllowedFacts DEF IInv, JobsInv, Moving, Status
  <2>3. Phase(k) \in {"cart", "held"} /\ Phase(k)' = "closing"
    <3>1. Phase(k) \in {"cart", "held"}
      BY <1>9, <2>1, <2>2, PhaseFacts, StatusFacts
    <3>2. Phase(k)' = "closing"
      BY <1>7, <1>9 DEF Phase
    <3> QED
      BY <3>1, <3>2
  <2>4. Reserved(k) = qty[k] /\ Reserved(k)' = Reserved(k)
    BY <1>1, <2>2 DEF Reserved, Status
  <2>5. ViewReturned(k)
    BY <1>1, <1>3, <2>4 DEF ViewReturned
  <2>6. ViewClose(k)
    BY <2>3, <2>4, <2>5 DEF ViewClose
  <2> QED
    BY <2>6 DEF ViewStep
<1> QED
  BY <1>6, <1>8, <1>9 DEF ViewMove

\* The second half of a transition finds the books balanced by the first, or
\* has met a change.
LEMMA SaveMoveView ==
    ASSUME IInv, IInv', NEW w \in Workers, NEW k \in Orders, SaveMove(w, k)
    PROVE  ViewMove
<1> DEFINE r == [job[w].snap EXCEPT !.status = job[w].to]
<1>1. /\ TypeOK /\ TypeOK' /\ OrderInv(k)' /\ job[w] \in Jobs
      /\ job[w].op \in Moving /\ job[w].ord = k
      /\ job[w].op = "move" => job[w].to \notin Closed
      /\ SetJob(w, Idle)
      /\ order' = [order EXCEPT ![k] = r]
      /\ DisturbedIf(k, order[k] # job[w].snap \/ (job[w].op = "save" /\ qty[k] # job[w].units))
      /\ UNCHANGED <<stockVars, payment, billed>>
  BY DEF IInv, SaveMove, Moving, TypeOK, SetOrder
<1>2. /\ job[w].snap \in Rows /\ job[w].to \in Allowed(job[w].snap.status)
      /\ job[w].op = "save" => job[w].to \in Closed
  BY <1>1, JobFields DEF IInv, JobsInv
<1>3. /\ Status(k)' = job[w].to
      /\ \A o \in Orders \ {k} : order'[o] = order[o]
  BY <1>1, <1>2 DEF TypeOK, Rows, Status
<1> HIDE DEF r
<1>4. /\ disturbed'[k] = (disturbed[k] \/ order[k] # job[w].snap
                            \/ (job[w].op = "save" /\ qty[k] # job[w].units))
      /\ \A o \in Orders \ {k} : disturbed'[o] = disturbed[o]
  BY <1>1, Zenon DEF DisturbedIf, TypeOK
<1>5. /\ job'[w] = Idle /\ Idle.op # "save"
      /\ \A v \in Workers \ {w} : job'[v] = job[v]
  BY <1>1, JobOps DEF SetJob, TypeOK
<1>6. \A o \in Orders \ {k} : SameView(o)
  <2>1. \A o \in Orders \ {k} : Keeps(o)
    BY <1>1, <1>3, <1>4, <1>5, WorkerFrame DEF Frame, LedgerKept, stockVars
  <2> QED
    BY <2>1, KeptView
<1>7. ledger'[k] = ledger[k] /\ lost'[k] = lost[k] /\ lost[k] \in Int /\ billed'[k] = billed[k]
  BY <1>1 DEF stockVars, TypeOK
<1>8. ASSUME disturbed'[k] \/ (~Quiet(k) /\ ~Quiet(k)') PROVE ViewStep(k)
  <2>1. disturbed[k] => disturbed'[k]
    BY <1>4
  <2>2. lost'[k] >= lost[k]
    BY <1>7
  <2> QED
    BY <1>1, <1>8, <2>1, <2>2, LooseView DEF ViewStep
<1>9. ASSUME ~disturbed'[k] PROVE ~disturbed[k] /\ order[k] = job[w].snap /\ Status(k) \in Live
  BY <1>2, <1>4, <1>9, AllowedFacts DEF Status
<1>10. ASSUME ~disturbed'[k], ~Quiet(k), Quiet(k)' PROVE ViewStep(k)
  <2>1. job[w].op = "save"
    BY <1>5, <1>10 DEF Quiet
  <2>2. Status(k)' \in Closed /\ Reserved(k)' = 0
    BY <1>2, <1>3, <2>1, StatusFacts DEF Reserved
  <2>3. Phase(k) = "closing" /\ Phase(k)' = "closed"
    <3>1. Phase(k) = "closing"
      BY <1>9, <1>10 DEF Phase
    <3>2. Phase(k)' = Stage(Status(k)')
      BY <1>10 DEF Phase
    <3>3. \A s \in Closed : Stage(s) = "closed"
      BY DEF Stage, Closed
    <3> QED
      BY <2>2, <3>1, <3>2, <3>3
  <2>4. ledger[k] = lost[k]
    <3>1. \A v \in Workers : ~Saving(v, k)'
      BY <1>10 DEF Quiet, Saving
    <3>2. ledger'[k] = Reserved(k)' + lost'[k]
      BY <1>1, <1>10, <3>1 DEF OrderInv, Balanced
    <3> QED
      BY <1>7, <2>2, <3>2
  <2>5. UNCHANGED Books(k)
    BY <1>7 DEF Books
  <2> QED
    BY <2>2, <2>3, <2>4, <2>5 DEF ViewStep, ViewClose
<1>11. ASSUME ~disturbed'[k], Quiet(k) PROVE ViewStep(k)
  <2>1. job[w].op = "move"
    BY <1>1, <1>11 DEF Quiet, Moving
  <2>2. Status(k)' \in Live \ {"draft"}
    BY <1>1, <1>2, <1>3, <2>1, AllowedFacts DEF Statuses
  <2>3. SaversKept(k)
    BY <1>5, <2>1 DEF SaversKept, Saving
  <2>4. Quiet(k)' /\ disturbed'[k] = disturbed[k]
    <3>1. disturbed[k] \in BOOLEAN /\ disturbed'[k] \in BOOLEAN
      BY <1>1 DEF TypeOK
    <3> QED
      BY <1>9, <1>11, <2>3, <3>1, QuietKept
  <2>5. CASE Status(k) # "draft"
    <3>1. LedgerKept(k)
      BY <1>1, <2>4 DEF LedgerKept, stockVars
    <3> QED
      BY <1>1, <1>9, <1>11, <2>2, <2>3, <2>5, <3>1, HeldView DEF ViewStep
  <2>6. CASE Status(k) = "draft"
    <3>1. Phase(k) = Stage("draft") /\ Phase(k)' = Stage(Status(k)')
      BY <1>9, <1>11, <2>4, <2>6 DEF Phase
    <3>2. Phase(k) = "cart" /\ Phase(k)' = "held"
      <4>1. Stage("draft") = "cart" /\ \A s \in Live \ {"draft"} : Stage(s) = "held"
        BY DEF Stage, Live, Open, Rest, Closed
      <4> QED
        BY <2>2, <3>1, <4>1
    <3>3. Reserved(k)' = Reserved(k)
      BY <1>1, <1>9, <1>11, <2>2 DEF Reserved, stockVars
    <3> QED
      BY <1>7, <3>2, <3>3 DEF ViewStep, ViewCart
  <2> QED
    BY <2>5, <2>6
<1> QED
  BY <1>6, <1>8, <1>10, <1>11 DEF ViewMove

LEMMA QuietStepView ==
    ASSUME IInv, AdjustStock \/ Tick
    PROVE  \A o \in Orders : SameView(o)
<1>1. CASE AdjustStock
  <2>1. \A o \in Orders : Keeps(o)
    BY <1>1 DEF AdjustStock, Unrelated, requestVars, Keeps, LedgerKept, SaversKept, Saving
  <2> QED
    BY <2>1, KeptView
<1>2. CASE Tick
  BY <1>2, TickKeeps, KeptView
<1> QED
  BY <1>1, <1>2

LEMMA ContractInitially == Init => Contract!ContractInit
<1> SUFFICES ASSUME Init PROVE Contract!ContractInit
  OBVIOUS
<1>1. ASSUME NEW o \in Orders PROVE Phase(o) = "none" /\ Reserved(o) = 0
  <2>1. Status(o) = "absent" /\ ~disturbed[o] /\ Quiet(o)
    BY JobOps DEF Init, Status, Absent, Quiet
  <2> QED
    BY <2>1 DEF Phase, Stage, Closed, Init, Reserved
<1> QED
  BY <1>1 DEF Init, Contract!ContractInit

LEMMA ContractStep ==
    IInv /\ IInv' /\ [Next]_vars => [Contract!ContractNext]_(Contract!contractVars)
<1> SUFFICES ASSUME IInv, IInv', [Next]_vars
             PROVE  [Contract!ContractNext]_(Contract!contractVars)
  OBVIOUS
<1>0. TypeOK /\ TypeOK'
  BY DEF IInv
<1>1. ASSUME ViewMove PROVE [Contract!ContractNext]_(Contract!contractVars)
  BY <1>0, <1>1, ContractMove DEF ViewMove
<1>2. ASSUME \A o \in Orders : SameView(o)
      PROVE  [Contract!ContractNext]_(Contract!contractVars)
  BY <1>0, <1>2 DEF SameView, Contract!contractVars, TypeOK
<1>3. ASSUME NEW k \in Orders,
             \/ Extend(k) \/ Checkout(k) \/ PackageOrder(k)
             \/ PaymentStep(k) \/ Expire(k) \/ Delete(k)
      PROVE  ViewMove
  BY <1>0, <1>3, LockedView
<1>4. ASSUME NEW w \in Workers, NEW k \in Orders, RequestStep(w, k)
      PROVE  [Contract!ContractNext]_(Contract!contractVars)
  <2>1. CASE ReadForItems(w, k) \/ ReadForMove(w, k)
    BY <1>0, <1>2, <2>1, ReadsAsk, AskView
  <2>2. CASE Create(w, k) \/ PutBack(w, k) \/ SaveMove(w, k)
    BY <1>0, <1>1, <2>2, CreateView, PutBackView, SaveMoveView
  <2>3. CASE AddItem(w, k) \/ UpdateItem(w, k) \/ RemoveItem(w, k)
    BY <1>0, <1>1, <2>3, ItemStepView
  <2> QED
    BY <1>4, <2>1, <2>2, <2>3 DEF RequestStep
<1>7. ASSUME NEW w \in Workers, NEW k \in Orders, StaffStep(w, k)
      PROVE  [Contract!ContractNext]_(Contract!contractVars)
  BY <1>0, <1>1, <1>2, <1>7, ReadsAsk, AskView, StaffView DEF StaffStep
<1>5. ASSUME NEW w \in Workers, Abort(w) PROVE ViewMove
  BY <1>0, <1>5, AbortView
<1>6. CASE UNCHANGED vars
  BY <1>6 DEF vars, Contract!contractVars, Phase, Quiet, Reserved, Status
<1> QED
  BY <1>1, <1>2, <1>3, <1>4, <1>5, <1>6, <1>7, QuietStepView DEF Next

\* Every behaviour of OrderHold, its holds, payments and racing requests left
\* out, is one that OrderContract allows.
THEOREM Refinement == Spec => KeepsContract
BY Invariant, ContractInitially, ContractStep, PTL
DEF Spec, KeepsContract, Contract!ContractSpec

-----------------------------------------------------------------------------
(* What OrderContract is worth: its own consequences, for the rows of this  *)
(* module.                                                                  *)

LEMMA ContractInvInit == Contract!ContractInit => Contract!ContractInv
BY StockAssumption
DEF Contract!ContractInit, Contract!ContractInv, Contract!ContractTypeOK, Contract!Balanced,
    Contract!ChargedIsHeld, Contract!Empties, Contract!Phases

\* One entry of the books: phase, units, taken, lost and charged.
Entry(ph, u, t, l, c) ==
    /\ ph \in Contract!Phases /\ u \in 0..MaxQuantity /\ t \in Int /\ l \in Nat
    /\ c \in 0..MaxQuantity
    /\ ph \notin {"closing", "excused"} => t = u + l
    /\ ph = "held" /\ c # 0 => u = c
    /\ ph \in {"none", "closed", "gone"} => u = 0
    /\ ph \in {"none", "cart"} => c = 0

\* Only the entry of one order is rewritten.
LEMMA EntryStep ==
    ASSUME Contract!ContractInv, NEW k \in Orders,
           [o \in Orders |-> Phase(o)]' = [[o \in Orders |-> Phase(o)] EXCEPT ![k] = Phase(k)'],
           [o \in Orders |-> Reserved(o)]' = [[o \in Orders |-> Reserved(o)] EXCEPT ![k] = Reserved(k)'],
           ledger' = [ledger EXCEPT ![k] = ledger'[k]],
           lost' = [lost EXCEPT ![k] = lost'[k]],
           billed' = [billed EXCEPT ![k] = billed'[k]],
           Entry(Phase(k)', Reserved(k)', ledger'[k], lost'[k], billed'[k])
    PROVE  Contract!ContractInv'
<1> DEFINE phase == [o \in Orders |-> Phase(o)]
           units == [o \in Orders |-> Reserved(o)]
<1>1. /\ phase \in [Orders -> Contract!Phases] /\ units \in [Orders -> 0..MaxQuantity]
      /\ ledger \in [Orders -> Int] /\ lost \in [Orders -> Nat]
      /\ billed \in [Orders -> 0..MaxQuantity]
      /\ \A o \in Orders : Entry(phase[o], units[o], ledger[o], lost[o], billed[o])
  BY DEF Entry, Contract!ContractInv, Contract!ContractTypeOK, Contract!Balanced,
         Contract!ChargedIsHeld, Contract!Empties
<1>2. /\ phase' = [phase EXCEPT ![k] = Phase(k)']
      /\ units' = [units EXCEPT ![k] = Reserved(k)']
  OBVIOUS
<1>3. ASSUME phase' \in [Orders -> Contract!Phases], units' \in [Orders -> 0..MaxQuantity],
             ledger' \in [Orders -> Int], lost' \in [Orders -> Nat],
             billed' \in [Orders -> 0..MaxQuantity],
             \A o \in Orders : Entry(phase'[o], units'[o], ledger'[o], lost'[o], billed'[o])
      PROVE  Contract!ContractInv'
  BY <1>3 DEF Entry, Contract!ContractInv, Contract!ContractTypeOK, Contract!Balanced,
              Contract!ChargedIsHeld, Contract!Empties
<1> HIDE DEF phase, units
<1>4. /\ phase' \in [Orders -> Contract!Phases] /\ units' \in [Orders -> 0..MaxQuantity]
      /\ ledger' \in [Orders -> Int] /\ lost' \in [Orders -> Nat]
      /\ billed' \in [Orders -> 0..MaxQuantity]
  BY <1>1, <1>2 DEF Entry
<1>5. ASSUME NEW o \in Orders
      PROVE  Entry(phase'[o], units'[o], ledger'[o], lost'[o], billed'[o])
  BY <1>1, <1>2
<1> QED
  BY <1>3, <1>4, <1>5

LEMMA ContractInvStep ==
    Contract!ContractInv /\ [Contract!ContractNext]_(Contract!contractVars)
        => Contract!ContractInv'
<1> SUFFICES ASSUME Contract!ContractInv, [Contract!ContractNext]_(Contract!contractVars)
             PROVE  Contract!ContractInv'
  OBVIOUS
<1> DEFINE phase == [o \in Orders |-> Phase(o)]
           units == [o \in Orders |-> Reserved(o)]
<1>1. CASE UNCHANGED Contract!contractVars
  BY <1>1 DEF Contract!contractVars, Contract!ContractInv, Contract!ContractTypeOK,
              Contract!Balanced, Contract!ChargedIsHeld, Contract!Empties
<1>2. /\ phase \in [Orders -> Contract!Phases] /\ units \in [Orders -> 0..MaxQuantity]
      /\ ledger \in [Orders -> Int] /\ lost \in [Orders -> Nat]
      /\ billed \in [Orders -> 0..MaxQuantity]
      /\ \A o \in Orders : Entry(phase[o], units[o], ledger[o], lost[o], billed[o])
      /\ \A o \in Orders : phase[o] = Phase(o) /\ units[o] = Reserved(o)
      /\ \A o \in Orders : phase'[o] = Phase(o)' /\ units'[o] = Reserved(o)'
  BY DEF Entry, Contract!ContractInv, Contract!ContractTypeOK, Contract!Balanced,
         Contract!ChargedIsHeld, Contract!Empties
<1>3. ASSUME NEW k \in Orders,
             phase' = [phase EXCEPT ![k] = phase'[k]], units' = [units EXCEPT ![k] = units'[k]],
             ledger' = [ledger EXCEPT ![k] = ledger'[k]], lost' = [lost EXCEPT ![k] = lost'[k]],
             billed' = [billed EXCEPT ![k] = billed'[k]],
             Entry(phase'[k], units'[k], ledger'[k], lost'[k], billed'[k])
      PROVE  Contract!ContractInv'
  BY <1>3, EntryStep
<1>4. 0 \in 0..MaxQuantity
  BY StockAssumption
<1> HIDE DEF phase, units
<1>5. ASSUME NEW k \in Orders, Contract!Open(k) PROVE Contract!ContractInv'
  <2>1. /\ phase[k] = "none" /\ phase' = [phase EXCEPT ![k] = "cart"]
        /\ UNCHANGED <<units, ledger, lost, billed>>
    BY <1>5 DEF phase, units, Contract!Open, Contract!Moves, Contract!Claims
  <2>2. /\ phase' = [phase EXCEPT ![k] = phase'[k]]
        /\ units' = [units EXCEPT ![k] = units'[k]]
        /\ ledger' = [ledger EXCEPT ![k] = ledger'[k]]
        /\ lost' = [lost EXCEPT ![k] = lost'[k]]
        /\ billed' = [billed EXCEPT ![k] = billed'[k]]
    BY <1>2, <2>1
  <2>3. Entry(phase'[k], units'[k], ledger'[k], lost'[k], billed'[k])
    BY <1>2, <1>4, <2>1 DEF Entry, Contract!Phases
  <2> QED
    BY <1>3, <2>2, <2>3
<1>6. ASSUME NEW k \in Orders, Contract!Fill(k) PROVE Contract!ContractInv'
  <2>1. PICK n \in 0..MaxQuantity :
            /\ phase[k] = "cart" /\ phase' = phase
            /\ units' = [units EXCEPT ![k] = n]
            /\ ledger' = [ledger EXCEPT ![k] = ledger[k] + n - units[k]]
            /\ UNCHANGED <<lost, billed>>
    BY <1>6 DEF phase, units, Contract!Fill, Contract!Moves, Contract!Claims
  <2>2. /\ phase' = [phase EXCEPT ![k] = phase'[k]]
        /\ units' = [units EXCEPT ![k] = units'[k]]
        /\ ledger' = [ledger EXCEPT ![k] = ledger'[k]]
        /\ lost' = [lost EXCEPT ![k] = lost'[k]]
        /\ billed' = [billed EXCEPT ![k] = billed'[k]]
    BY <1>2, <2>1
  <2>3. Entry(phase'[k], units'[k], ledger'[k], lost'[k], billed'[k])
    BY <1>2, <1>4, <2>1 DEF Entry, Contract!Phases
  <2> QED
    BY <1>3, <2>2, <2>3
<1>7. ASSUME NEW k \in Orders, Contract!Empty(k) PROVE Contract!ContractInv'
  <2>1. /\ phase[k] = "cart" /\ phase' = [phase EXCEPT ![k] = "gone"]
        /\ units' = [units EXCEPT ![k] = 0]
        /\ ledger' = [ledger EXCEPT ![k] = ledger[k] - units[k]]
        /\ UNCHANGED <<lost, billed>>
    BY <1>7 DEF phase, units, Contract!Empty, Contract!Moves, Contract!Claims
  <2>2. /\ phase' = [phase EXCEPT ![k] = phase'[k]]
        /\ units' = [units EXCEPT ![k] = units'[k]]
        /\ ledger' = [ledger EXCEPT ![k] = ledger'[k]]
        /\ lost' = [lost EXCEPT ![k] = lost'[k]]
        /\ billed' = [billed EXCEPT ![k] = billed'[k]]
    BY <1>2, <2>1
  <2>3. Entry(phase'[k], units'[k], ledger'[k], lost'[k], billed'[k])
    BY <1>2, <1>4, <2>1 DEF Entry, Contract!Phases
  <2> QED
    BY <1>3, <2>2, <2>3
<1>8. ASSUME NEW k \in Orders, Contract!Submit(k) PROVE Contract!ContractInv'
  <2>1. /\ phase[k] = "cart" /\ phase' = [phase EXCEPT ![k] = "held"]
        /\ UNCHANGED <<units, ledger, lost, billed>>
    BY <1>8 DEF phase, units, Contract!Submit, Contract!Moves, Contract!Claims
  <2>2. /\ phase' = [phase EXCEPT ![k] = phase'[k]]
        /\ units' = [units EXCEPT ![k] = units'[k]]
        /\ ledger' = [ledger EXCEPT ![k] = ledger'[k]]
        /\ lost' = [lost EXCEPT ![k] = lost'[k]]
        /\ billed' = [billed EXCEPT ![k] = billed'[k]]
    BY <1>2, <2>1
  <2>3. Entry(phase'[k], units'[k], ledger'[k], lost'[k], billed'[k])
    BY <1>2, <1>4, <2>1 DEF Entry, Contract!Phases
  <2> QED
    BY <1>3, <2>2, <2>3
<1>9. ASSUME NEW k \in Orders, Contract!Bill(k) PROVE Contract!ContractInv'
  <2>1. /\ phase[k] = "cart" /\ phase' = [phase EXCEPT ![k] = "held"]
        /\ billed' = [billed EXCEPT ![k] = units[k]]
        /\ UNCHANGED <<units, ledger, lost>>
    BY <1>9 DEF phase, units, Contract!Bill, Contract!Moves, Contract!Claims
  <2>2. /\ phase' = [phase EXCEPT ![k] = phase'[k]]
        /\ units' = [units EXCEPT ![k] = units'[k]]
        /\ ledger' = [ledger EXCEPT ![k] = ledger'[k]]
        /\ lost' = [lost EXCEPT ![k] = lost'[k]]
        /\ billed' = [billed EXCEPT ![k] = billed'[k]]
    BY <1>2, <2>1
  <2>3. Entry(phase'[k], units'[k], ledger'[k], lost'[k], billed'[k])
    BY <1>2, <1>4, <2>1 DEF Entry, Contract!Phases
  <2> QED
    BY <1>3, <2>2, <2>3
<1>16. ASSUME NEW k \in Orders, Contract!Reserve(k) PROVE Contract!ContractInv'
  <2>1. PICK n \in 1..MaxQuantity :
            /\ phase[k] = "none" /\ phase' = [phase EXCEPT ![k] = "held"]
            /\ units' = [units EXCEPT ![k] = n]
            /\ ledger' = [ledger EXCEPT ![k] = ledger[k] + n]
            /\ billed' = [billed EXCEPT ![k] = n]
            /\ lost' = lost
    BY <1>16 DEF phase, units, Contract!Reserve, Contract!Moves, Contract!Claims
  <2>2. /\ phase' = [phase EXCEPT ![k] = phase'[k]]
        /\ units' = [units EXCEPT ![k] = units'[k]]
        /\ ledger' = [ledger EXCEPT ![k] = ledger'[k]]
        /\ lost' = [lost EXCEPT ![k] = lost'[k]]
        /\ billed' = [billed EXCEPT ![k] = billed'[k]]
    BY <1>2, <2>1
  <2>3. n \in 0..MaxQuantity
    BY StockAssumption
  <2>4. Entry(phase'[k], units'[k], ledger'[k], lost'[k], billed'[k])
    BY <1>2, <1>4, <2>1, <2>3 DEF Entry, Contract!Phases
  <2> QED
    BY <1>3, <2>2, <2>4
<1>10. ASSUME NEW k \in Orders, Contract!Close(k) PROVE Contract!ContractInv'
  <2>1. /\ phase[k] \in {"cart", "held"} /\ phase' = [phase EXCEPT ![k] = "closed"]
        /\ units' = [units EXCEPT ![k] = 0] /\ billed' = billed
        /\ \/ ledger' = [ledger EXCEPT ![k] = ledger[k] - units[k]] /\ lost' = lost
           \/ lost' = [lost EXCEPT ![k] = lost[k] + units[k]] /\ ledger' = ledger
    BY <1>10 DEF phase, units, Contract!Close, Contract!Moves, Contract!Claims, Contract!Returned
  <2>2. /\ phase' = [phase EXCEPT ![k] = phase'[k]]
        /\ units' = [units EXCEPT ![k] = units'[k]]
        /\ ledger' = [ledger EXCEPT ![k] = ledger'[k]]
        /\ lost' = [lost EXCEPT ![k] = lost'[k]]
        /\ billed' = [billed EXCEPT ![k] = billed'[k]]
    BY <1>2, <2>1
  <2>3. Entry(phase'[k], units'[k], ledger'[k], lost'[k], billed'[k])
    BY <1>2, <1>4, <2>1 DEF Entry, Contract!Phases
  <2> QED
    BY <1>3, <2>2, <2>3
<1>11. ASSUME NEW k \in Orders, Contract!BeginClosing(k) PROVE Contract!ContractInv'
  <2>1. /\ phase[k] \in {"cart", "held"} /\ phase' = [phase EXCEPT ![k] = "closing"]
        /\ UNCHANGED <<units, billed>>
        /\ \/ ledger' = [ledger EXCEPT ![k] = ledger[k] - units[k]] /\ lost' = lost
           \/ lost' = [lost EXCEPT ![k] = lost[k] + units[k]] /\ ledger' = ledger
    BY <1>11 DEF phase, units, Contract!BeginClosing, Contract!Moves, Contract!Claims, Contract!Returned
  <2>2. /\ phase' = [phase EXCEPT ![k] = phase'[k]]
        /\ units' = [units EXCEPT ![k] = units'[k]]
        /\ ledger' = [ledger EXCEPT ![k] = ledger'[k]]
        /\ lost' = [lost EXCEPT ![k] = lost'[k]]
        /\ billed' = [billed EXCEPT ![k] = billed'[k]]
    BY <1>2, <2>1
  <2>3. Entry(phase'[k], units'[k], ledger'[k], lost'[k], billed'[k])
    BY <1>2, <1>4, <2>1 DEF Entry, Contract!Phases
  <2> QED
    BY <1>3, <2>2, <2>3
<1>12. ASSUME NEW k \in Orders, Contract!FinishClosing(k) PROVE Contract!ContractInv'
  <2>1. /\ phase[k] = "closing" /\ phase' = [phase EXCEPT ![k] = "closed"]
        /\ ledger[k] = lost[k] /\ units' = [units EXCEPT ![k] = 0]
        /\ UNCHANGED <<ledger, lost, billed>>
    BY <1>12 DEF phase, units, Contract!FinishClosing, Contract!Moves, Contract!Claims
  <2>2. /\ phase' = [phase EXCEPT ![k] = phase'[k]]
        /\ units' = [units EXCEPT ![k] = units'[k]]
        /\ ledger' = [ledger EXCEPT ![k] = ledger'[k]]
        /\ lost' = [lost EXCEPT ![k] = lost'[k]]
        /\ billed' = [billed EXCEPT ![k] = billed'[k]]
    BY <1>2, <2>1
  <2>3. Entry(phase'[k], units'[k], ledger'[k], lost'[k], billed'[k])
    BY <1>2, <1>4, <2>1 DEF Entry, Contract!Phases
  <2> QED
    BY <1>3, <2>2, <2>3
<1>13. ASSUME NEW k \in Orders, Contract!Discard(k) PROVE Contract!ContractInv'
  <2>1. /\ phase[k] \in {"cart", "held", "closed"} /\ phase' = [phase EXCEPT ![k] = "gone"]
        /\ units' = [units EXCEPT ![k] = 0]
        /\ lost' = [lost EXCEPT ![k] = lost[k] + units[k]]
        /\ UNCHANGED <<ledger, billed>>
    BY <1>13 DEF phase, units, Contract!Discard, Contract!Moves, Contract!Claims
  <2>2. /\ phase' = [phase EXCEPT ![k] = phase'[k]]
        /\ units' = [units EXCEPT ![k] = units'[k]]
        /\ ledger' = [ledger EXCEPT ![k] = ledger'[k]]
        /\ lost' = [lost EXCEPT ![k] = lost'[k]]
        /\ billed' = [billed EXCEPT ![k] = billed'[k]]
    BY <1>2, <2>1
  <2>3. Entry(phase'[k], units'[k], ledger'[k], lost'[k], billed'[k])
    BY <1>2, <1>4, <2>1 DEF Entry, Contract!Phases
  <2> QED
    BY <1>3, <2>2, <2>3
<1>14. ASSUME NEW k \in Orders, Contract!Intrude(k) PROVE Contract!ContractInv'
  <2>1. /\ phase[k] = "closing" /\ phase' = phase
        /\ units' \in [Orders -> 0..MaxQuantity] /\ ledger' \in [Orders -> Int]
        /\ lost' \in [Orders -> Nat] /\ billed' \in [Orders -> 0..MaxQuantity]
        /\ \A o \in Orders \ {k} :
              /\ units'[o] = units[o] /\ ledger'[o] = ledger[o]
              /\ lost'[o] = lost[o] /\ billed'[o] = billed[o]
    BY <1>14 DEF phase, units, Contract!Intrude, Contract!AnyBooks
  <2>2. /\ phase' = [phase EXCEPT ![k] = phase'[k]]
        /\ units' = [units EXCEPT ![k] = units'[k]]
        /\ ledger' = [ledger EXCEPT ![k] = ledger'[k]]
        /\ lost' = [lost EXCEPT ![k] = lost'[k]]
        /\ billed' = [billed EXCEPT ![k] = billed'[k]]
    BY <1>2, <2>1
  <2>3. Entry(phase'[k], units'[k], ledger'[k], lost'[k], billed'[k])
    BY <1>2, <1>4, <2>1 DEF Entry, Contract!Phases
  <2> QED
    BY <1>3, <2>2, <2>3
<1>15. ASSUME NEW k \in Orders, Contract!Excuse(k) PROVE Contract!ContractInv'
  <2>1. /\ phase' = [phase EXCEPT ![k] = "excused"]
        /\ units' \in [Orders -> 0..MaxQuantity] /\ ledger' \in [Orders -> Int]
        /\ lost' \in [Orders -> Nat] /\ billed' \in [Orders -> 0..MaxQuantity]
        /\ \A o \in Orders \ {k} :
              /\ units'[o] = units[o] /\ ledger'[o] = ledger[o]
              /\ lost'[o] = lost[o] /\ billed'[o] = billed[o]
    BY <1>15 DEF phase, units, Contract!Excuse, Contract!AnyBooks
  <2>2. /\ phase' = [phase EXCEPT ![k] = phase'[k]]
        /\ units' = [units EXCEPT ![k] = units'[k]]
        /\ ledger' = [ledger EXCEPT ![k] = ledger'[k]]
        /\ lost' = [lost EXCEPT ![k] = lost'[k]]
        /\ billed' = [billed EXCEPT ![k] = billed'[k]]
    BY <1>2, <2>1
  <2>3. Entry(phase'[k], units'[k], ledger'[k], lost'[k], billed'[k])
    BY <1>2, <1>4, <2>1 DEF Entry, Contract!Phases
  <2> QED
    BY <1>3, <2>2, <2>3
<1> QED
  BY <1>1, <1>5, <1>6, <1>7, <1>8, <1>9, <1>10, <1>11, <1>12, <1>13, <1>14, <1>15, <1>16
  DEF Contract!ContractNext

\* The contract is worth what it says of the stock and of the bill: it implies
\* StockBalances (the movements logged for an order add up to what it reserves and
\* what was written off), and a charged order holds what was charged.
THEOREM ContractBooks == KeepsContract => [](StockBalances /\ Contract!ChargedIsHeld)
<1>1. Contract!ContractInv => StockBalances /\ Contract!ChargedIsHeld
  <2> SUFFICES ASSUME Contract!ContractInv
               PROVE  StockBalances /\ Contract!ChargedIsHeld
    OBVIOUS
  <2>1. \A o \in Orders :
           [k \in Orders |-> Phase(k)][o] \notin {"closing", "excused"} =>
               ledger[o] = [k \in Orders |-> Reserved(k)][o] + lost[o]
    BY DEF Contract!ContractInv, Contract!Balanced
  <2>2. \A o \in Orders : ~disturbed[o] /\ Quiet(o) => Phase(o) \notin {"closing", "excused"}
    BY DEF Phase, Stage
  <2>3. StockBalances
    BY <2>1, <2>2 DEF StockBalances
  <2> QED
    BY <2>3 DEF Contract!ContractInv
<1> QED
  BY <1>1, ContractInvInit, ContractInvStep, PTL DEF KeepsContract, Contract!ContractSpec
=============================================================================
