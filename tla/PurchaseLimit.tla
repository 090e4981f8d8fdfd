--------------------------- MODULE PurchaseLimit ---------------------------
(***************************************************************************)
(* How many units of a product one attendee may have (apps/products,       *)
(* models/product.py, models/orders.py and the order endpoints): the limit *)
(* of a variant is compared with the units of all variants in all orders   *)
(* of the attendee.  Nothing is locked while they are counted.             *)
(*                                                                         *)
(* Stock, holds and payments of the same orders are in OrderHold.          *)
(***************************************************************************)
EXTENDS Naturals, Sequences, SequencesExt, FiniteSets, Folds

CONSTANTS
    Carts,           \* the orders of one attendee
    Variants,        \* the variants of one product
    VariantLimit,    \* max_purchase_quantity_per_order of each variant
    ProductLimit,    \* and of the product; 0 if it has none
    Baskets,         \* what a new order is asked to hold, line by line
    MostUnits,       \* the largest quantity asked for
    Shoppers,        \* web processes
    MaxOrdered       \* bound: requests about the orders

ASSUME LimitsAssumption ==
    VariantLimit \in [Variants -> Nat \ {0}] /\ ProductLimit \in Nat
ASSUME RowsAssumption == IsFiniteSet(Carts) /\ IsFiniteSet(Variants)
ASSUME BasketsAssumption ==
    MostUnits \in Nat /\ Baskets \subseteq Seq(Variants \X (1 .. MostUnits)) \ {<<>>}
ASSUME OrderedAssumption == MaxOrdered \in Nat

VARIABLES
    cart,            \* the rows: status, and units of each variant
    shopping,        \* the request each process works on
    ordered,         \* requests about the orders so far
    bypassed         \* history: ways past the limit that were taken

limitVars == <<cart, shopping, ordered, bypassed>>

NoneYet     == "none"
OpenCart    == {"draft", "pending"}
InRefund    == {"pending_refund", "partially_refunded"}
ClosedCart  == {"cancelled", "refunded"}

\* Mutation: what is in a cart does not count yet.
PlacedStatuses  == {"pending", "processing", "completed"}
CountedStatuses == {"draft", "pending", "processing", "completed"}
KeptStatuses    == OpenCart \cup {"processing", "completed"} \cup InRefund
CartStatuses    == KeptStatuses \cup ClosedCart

\* ORDER_STATUS_TRANSITIONS.
Transitions(s) ==
    CASE s = "draft"              -> {"pending", "cancelled"}
      [] s = "pending"            -> {"processing", "cancelled", "pending_refund"}
      [] s = "processing"         -> {"completed", "pending_refund"} \cup ClosedCart
      [] s = "completed"          -> {"pending_refund"} \cup ClosedCart
      [] s = "pending_refund"     -> {"partially_refunded", "completed"} \cup ClosedCart
      [] s = "partially_refunded" -> {"pending_refund", "refunded"}
      [] OTHER                    -> {}

-----------------------------------------------------------------------------
(* Counting.                                                                *)

Sum(f) == FoldFunction(+, 0, f)
UnitsIn(statuses) ==
    Sum([o \in Carts |-> IF cart[o].status \in statuses THEN Sum(cart[o].units) ELSE 0])

\* get_attendee_product_purchase_quantity.
Counted == UnitsIn(CountedStatuses)

\* What the attendee has, whatever the code counts.
Kept    == UnitsIn(KeptStatuses)
Held(v) == \E o \in Carts : cart[o].status \in KeptStatuses /\ cart[o].units[v] > 0

\* get_effective_max_purchase_quantity_per_attendee.
EffectiveLimit(v) ==
    IF ProductLimit # 0 /\ ProductLimit < VariantLimit[v] THEN ProductLimit
                                                          ELSE VariantLimit[v]

\* can_attendee_purchase_quantity, for so many more.
Permits(v, n) == Counted + n <= EffectiveLimit(v)

-----------------------------------------------------------------------------
NoUnits == [v \in Variants |-> 0]
NoJob == [op |-> NoneYet, ord |-> NoneYet, lines |-> <<>>, counted |-> FALSE,
          late |-> FALSE, found |-> NoneYet, to |-> NoneYet]
ShopJobs ==
    [op : {NoneYet, "create", "add", "update", "locked", "remove", "move"},
     ord : Carts \cup {NoneYet}, lines : Seq(Variants \X (1 .. MostUnits)),
     counted : BOOLEAN, late : BOOLEAN,
     found : CartStatuses \cup {NoneYet}, to : CartStatuses \cup {NoneYet}]

LimitInit ==
    /\ cart = [o \in Carts |-> [status |-> NoneYet, units |-> NoUnits]]
    /\ shopping = [w \in Shoppers |-> NoJob]
    /\ ordered = 0
    /\ bypassed = {}

Row(o) == cart[o].status \notin {NoneYet, "gone"}

\* unique_open_order_per_attendee.
NoOtherOpen(o) == \A x \in Carts \ {o} : cart[x].status \notin OpenCart

\* No request is between locking the order and saving it.
Unlocked(o) == \A w \in Shoppers : ~(shopping[w].op = "locked" /\ shopping[w].ord = o)

Begins(w, job) == shopping[w] = NoJob /\ shopping' = [shopping EXCEPT ![w] = job]
Continues(w, job) == shopping' = [shopping EXCEPT ![w] = job]
Another == ordered < MaxOrdered /\ ordered' = ordered + 1

\* The request goes on; what the others have counted is out of date.
ContinuesAndAges(w, job) ==
    shopping' = [x \in Shoppers |->
        IF x = w THEN job ELSE [shopping[x] EXCEPT !.late = shopping[x].counted]]

\* More units: past the limit if others came in between, or if there are units
\* that are not counted since their order waits for a refund or had one.
NoteGrowth(w) ==
    bypassed' = bypassed \cup (IF shopping[w].late THEN {"raced"} ELSE {})
                         \cup (IF UnitsIn(InRefund) > 0 THEN {"in refund"} ELSE {})

-----------------------------------------------------------------------------
(* A new order.                                                             *)

\* OrderCreateSerializer.validate: every line by itself.
Validate(w, basket) ==
    /\ Another
    /\ \A o \in Carts : cart[o].status \notin OpenCart
    /\ \A i \in DOMAIN basket : Permits(basket[i][1], basket[i][2])
    /\ Begins(w, [NoJob EXCEPT !.op = "create", !.lines = basket])
    /\ UNCHANGED <<cart, bypassed>>

\* The row is there before its items are.
PlaceOrder(w) ==
    /\ shopping[w].op = "create" /\ shopping[w].ord = NoneYet
    /\ \E o \in Carts :
          /\ cart[o].status = NoneYet /\ NoOtherOpen(o)
          /\ cart' = [cart EXCEPT ![o].status = "draft"]
          /\ Continues(w, [shopping[w] EXCEPT !.ord = o])
    /\ UNCHANGED <<ordered, bypassed>>

-----------------------------------------------------------------------------
(* More units.                                                              *)

\* get_object and the check of the status, for add_item, update_item and
\* remove_item.
ReadDraft(w, op, o, v, n) ==
    /\ Another
    /\ cart[o].status = "draft"
    /\ Begins(w, [NoJob EXCEPT !.op = op, !.ord = o, !.lines = << <<v, n>> >>])
    /\ UNCHANGED <<cart, bypassed>>

\* add_order_item up to the insert: counts, and refuses or goes on.
CountForAdd(w) ==
    LET job == shopping[w] IN
    /\ job.op \in {"create", "add"} /\ job.ord # NoneYet /\ ~job.counted
    /\ LET line == Head(job.lines) IN
           Continues(w, IF Permits(line[1], line[2])
                        THEN [job EXCEPT !.counted = TRUE] ELSE NoJob)
    /\ UNCHANGED <<cart, ordered, bypassed>>

\* The rest of it: the item is inserted, the order read again and saved.  Whether
\* it is still a draft matters to the next line only.
AddUnits(w) ==
    LET job  == shopping[w]
        line == Head(job.lines)
    IN
    /\ job.op \in {"create", "add"} /\ job.counted
    /\ Row(job.ord) /\ Unlocked(job.ord)
    /\ cart' = [cart EXCEPT ![job.ord].units[line[1]] = @ + line[2]]
    /\ ContinuesAndAges(w,
           IF Len(job.lines) = 1 \/ cart[job.ord].status # "draft" THEN NoJob
           ELSE [job EXCEPT !.lines = Tail(@), !.counted = FALSE, !.late = FALSE])
    /\ NoteGrowth(w)
    /\ UNCHANGED ordered

\* quantity_delta, as far as it has to be asked for.
Increase(now, n) == IF n > now THEN n - now ELSE 0

\* update_item locks the order and the item, and counts.
LockForUpdate(w) ==
    LET job  == shopping[w]
        line == Head(job.lines)
        more == Increase(cart[job.ord].units[line[1]], line[2])
    IN
    /\ job.op = "update"
    /\ Row(job.ord) /\ Unlocked(job.ord) /\ cart[job.ord].units[line[1]] > 0
    /\ Continues(w, IF more = 0 \/ Permits(line[1], more)
               THEN [job EXCEPT !.op = "locked", !.counted = TRUE] ELSE NoJob)
    /\ UNCHANGED <<cart, ordered, bypassed>>

UpdateUnits(w) ==
    LET job  == shopping[w]
        line == Head(job.lines)
        now  == cart[job.ord].units[line[1]]
    IN
    /\ job.op = "locked"
    /\ cart' = [cart EXCEPT ![job.ord].units[line[1]] = line[2]]
    /\ IF line[2] > now THEN ContinuesAndAges(w, NoJob) /\ NoteGrowth(w)
                        ELSE Continues(w, NoJob) /\ UNCHANGED bypassed
    /\ UNCHANGED ordered

\* remove_item of one of the items: the order goes with the last one.
RemoveUnits(w) ==
    LET job  == shopping[w]
        line == Head(job.lines)
        o    == job.ord
        left == [cart[o].units EXCEPT ![line[1]] = @ - line[2]]
    IN
    /\ job.op = "remove"
    /\ Row(o) /\ Unlocked(o) /\ cart[o].units[line[1]] >= line[2]
    /\ cart' = [cart EXCEPT ![o] =
           [status |-> IF left = NoUnits THEN "gone" ELSE @.status, units |-> left]]
    /\ Continues(w, NoJob)
    /\ UNCHANGED <<ordered, bypassed>>

-----------------------------------------------------------------------------
(* What becomes of the orders.                                              *)

\* Any request or handler that will call transition_to has read the row.
ReadForTransition(w, o, to) ==
    /\ Another
    /\ Row(o) /\ to \in Transitions(cart[o].status)
    /\ Begins(w, [NoJob EXCEPT !.op = "move", !.ord = o, !.to = to,
                                !.found = cart[o].status])
    /\ UNCHANGED <<cart, bypassed>>

\* transition_to saves the whole row, one that is gone as well: an order taken
\* back from a refund, or revived, counts again.
Transition(w) ==
    LET job == shopping[w]
        o   == job.ord
    IN
    /\ job.op = "move"
    /\ Unlocked(o) /\ (job.to \in OpenCart => NoOtherOpen(o))
    /\ cart' = [cart EXCEPT ![o].status = job.to]
    /\ IF job.found = "pending_refund" /\ job.to = "completed"
       THEN ContinuesAndAges(w, NoJob) ELSE Continues(w, NoJob)
    /\ bypassed' = bypassed \cup IF job.found # cart[o].status THEN {"revived"} ELSE {}
    /\ UNCHANGED ordered

\* A processed refund of single units.
ReturnUnits(o, v, n) ==
    /\ Another
    /\ cart[o].status \in {"processing", "completed"} \cup InRefund
    /\ Unlocked(o) /\ n <= cart[o].units[v]
    /\ cart' = [cart EXCEPT ![o].units[v] = @ - n]
    /\ UNCHANGED <<shopping, bypassed>>

\* DELETE, whatever the status: the items go with the row.
DeleteOrder(o) ==
    /\ Another
    /\ Row(o) /\ Unlocked(o)
    /\ cart' = [cart EXCEPT ![o] = [status |-> "gone", units |-> NoUnits]]
    /\ UNCHANGED <<shopping, bypassed>>

\* Another check fails (eligibility, stock, a cancelled booking), the row is
\* gone, or the process dies: the order keeps what it has so far.
LeaveOff(w) ==
    /\ shopping[w] # NoJob
    /\ Continues(w, NoJob)
    /\ UNCHANGED <<cart, ordered, bypassed>>

-----------------------------------------------------------------------------
LimitNext ==
    \/ \E w \in Shoppers :
          \/ \E basket \in Baskets : Validate(w, basket)
          \/ PlaceOrder(w)
          \/ \E o \in Carts, v \in Variants, n \in 1 .. MostUnits :
                \E op \in {"add", "update", "remove"} : ReadDraft(w, op, o, v, n)
          \/ CountForAdd(w) \/ AddUnits(w)
          \/ LockForUpdate(w) \/ UpdateUnits(w) \/ RemoveUnits(w)
          \/ \E o \in Carts, to \in CartStatuses : ReadForTransition(w, o, to)
          \/ Transition(w)
          \/ LeaveOff(w)
    \/ \E o \in Carts :
          \/ \E v \in Variants, n \in 1 .. MostUnits : ReturnUnits(o, v, n)
          \/ DeleteOrder(o)

LimitSpec == LimitInit /\ [][LimitNext]_limitVars

-----------------------------------------------------------------------------
(* Properties.                                                              *)

\* Type invariant.
LimitTypeOK ==
    /\ cart \in [Carts -> [status : CartStatuses \cup {NoneYet, "gone"},
                           units : [Variants -> Nat]]]
    /\ shopping \in [Shoppers -> ShopJobs]
    /\ ordered \in 0 .. MaxOrdered
    /\ bypassed \subseteq {"raced", "in refund", "revived"}

\* The units of a product an attendee has, in all orders together, are within
\* the limit of one of the variants among them: no way of filling, changing,
\* replacing or giving up orders leads past it.  Unless two requests counted
\* before either had written, units were bought while others waited for a
\* refund, which are not counted (product.py:463), or a stale request revived an
\* order that was closed.
KeptWithinLimit ==
    bypassed = {} /\ Kept > 0 => \E v \in Variants : Held(v) /\ Kept <= EffectiveLimit(v)
=============================================================================
