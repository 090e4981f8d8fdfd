---------------------------- MODULE GoodsProofs ----------------------------
(***************************************************************************)
(* Proofs about Refunds, for any number of attendees, units, requests and  *)
(* web processes, and about PurchaseLimit, for any number of orders,       *)
(* variants, units and processes, and any limits.                          *)
(***************************************************************************)
EXTENDS Refunds, PurchaseLimit, SetSums, SequenceTheorems

-----------------------------------------------------------------------------
(* Refunds: the inductive invariant.                                        *)

\* What every row, and every copy of one, is like.
WellKept(row) == row.active <=> row.status \in {"PENDING", "VERIFIED"}

\* The process holds a copy of a row.
HasRow(w) == job[w].op \in Reviews \cup {"edit"}

\* The process has inserted a row and has not described, attached and announced
\* all of it yet.
Inserted(w)  == job[w].op \in {"describe", "attach"}
Announces(w) == job[w].op \in {"describe", "attach", "mark"}

CopyInv ==
    /\ \A r \in Requests : Exists(r) => WellKept(request[r])
    /\ \A w \in Workers :
          /\ HasRow(w) => WellKept(job[w].row)
          /\ job[w].op \in Reviews => job[w].row.status = Wants(job[w].op)

\* What is known of the selection of a request: there is one, for good.
Known(r) ==
    {c \in Selections :
        \/ Exists(r) /\ request[r].chosen = c
        \/ \E w \in Workers : HasRow(w) /\ job[w].req = r /\ job[w].row.chosen = c
        \/ \E w \in Workers : Inserted(w) /\ job[w].req = r /\ job[w].chosen = c
        \/ \E x \in returned : x.req = r /\ x.chosen = c}

KnownInv ==
    \A r \in Requests :
        /\ request[r] = Absent => Known(r) = {}
        /\ \A c, d \in Known(r) : c = d

\* Until PATCH replaces the metadata, what a request acts on is what was asked for.
MadeFor(l, c) ==
    /\ l.tickets \subseteq c.who /\ l.units \in {0, c.units}
    /\ l.order > 0 => c.units = 0 /\ Buyer \in c.who
AsksFor(n, c) == n \in {NamesNone, Names(c)}
AskedInv ==
    /\ redirected \subseteq rewritten
    /\ \A r \in Requests \ redirected :
          /\ Exists(r) => /\ MadeFor(request[r].links, request[r].chosen)
                          /\ AsksFor(request[r].meta.names, request[r].chosen)
          /\ \A w \in Workers : HasRow(w) /\ job[w].req = r =>
                AsksFor(job[w].row.meta.names, job[w].row.chosen)

\* Until a request is verified, or written again by PATCH, its key is the first.
KeyInv ==
    \A r \in Requests \ rewritten :
        /\ request[r].status = "PENDING" => request[r].key = 0
        /\ \A w \in Workers : HasRow(w) /\ job[w].req = r /\ job[w].row.status = "PENDING" =>
              job[w].row.key = 0
        /\ \A x \in returned : x.req = r => x.key = 0

\* What was verified was paid back.
Paid == {x.req : x \in returned}
PaidInv ==
    /\ IsFiniteSet(returned)
    /\ method = "stripe" =>
          /\ \A r \in Requests : request[r].status \in {"VERIFIED", "PROCESSED"} => r \in Paid
          /\ \A w \in Workers :
                HasRow(w) /\ (job[w].row.status \in {"VERIFIED", "PROCESSED"} \/ job[w].paid) =>
                    job[w].req \in Paid

\* What the requests, their copies and the refunds at Stripe know of each other.
RowsInv == CopyInv /\ KnownInv /\ AskedInv /\ KeyInv /\ PaidInv

\* A request whose payment is not marked yet: nobody has begun to decide it.
Unmarked(r) ==
    /\ request[r].status = "PENDING" /\ payment # "PENDING_REFUND"
    /\ \A w \in Workers : HasRow(w) /\ job[w].req = r =>
          job[w].via = "patch" /\ (job[w].op = "edit" => job[w].row.status = "PENDING")

\* Whoever is about to close the request r will write the payment.
ClosersWrite(r) ==
    \A w \in Workers : Reviewing(w, "process", "action") /\ job[w].req = r =>
        job[w].pay = "PENDING_REFUND"

\* The request is associated with the order or its line.
HoldsOrder(r) == request[r].links.order > 0 \/ request[r].links.units > 0

OneActive == \A r, q \in Active : r = q
Orderly   == \A r \in Requests : request[r] # Gone
PaymentWaits == payment = "PENDING_REFUND" => \E r \in Active : ClosersWrite(r)
OrderWaits ==
    order.status = "pending_refund" => invalidated \/ \E r \in Active : HoldsOrder(r)
ReadInTime ==
    \A w \in Workers :
        Reviewing(w, "verify", "action") \/ Reviewing(w, "reject", "action") =>
            job[w].pay = "PENDING_REFUND"
MarksInv ==
    /\ \A w \in Workers : Announces(w) => Unmarked(job[w].req)
    /\ \A w, x \in Workers : Announces(w) /\ Announces(x) => w = x

\* Within the workflow, what waits for a request has one that is active.
TrackInv ==
    /\ OneActive
    /\ ~offTrack => Orderly /\ PaymentWaits /\ OrderWaits /\ ReadInTime /\ MarksInv

\* An order without units left is refunded.
EmptyIsRefunded == order.units = 0 => order.status = "refunded"

GoodsInv == UnitsBalance /\ EmptyIsRefunded /\ RefundedIsReturned /\ TakenIsReturned

RefundInv == RefundTypeOK /\ RowsInv /\ TrackInv /\ GoodsInv

-----------------------------------------------------------------------------
(* Refunds: totals: what they are as sums of functions.                     *)

Total(R) == MapThenSumSet(LAMBDA x : x.chosen.amount, R)
Amounts(R) == [x \in R |-> x.chosen.amount]

LEMMA TotalIsSum ==
    ASSUME NEW R, IsFiniteSet(R)
    PROVE  Total(R) = SumOver(Amounts(R), R)
<1> DEFINE Eq(g) == g = [s \in SUBSET R |-> IF s = {} THEN 0
                                            ELSE Chosen(s).chosen.amount + g[Without(s)]]
<1>1. Total(R) = (CHOOSE g : Eq(g))[R]
  BY DEF Total, MapThenSumSet, MapThenFoldSet, Chosen, Without
<1>2. ASSUME NEW s \in SUBSET R, s # {} PROVE Amounts(R)[Chosen(s)] = Chosen(s).chosen.amount
  BY <1>2, ChosenFacts DEF Amounts
<1>3. \A g : Eq(g) <=> Recursion(Amounts(R), R, g)
  BY <1>2 DEF Recursion
<1>4. Eq(Solution(Amounts(R), R))
  BY <1>3, RecursionSolved
<1>5. Recursion(Amounts(R), R, CHOOSE g : Eq(g))
  <2>1. Eq(CHOOSE g : Eq(g))
    <3> HIDE DEF Eq
    <3> QED
      BY <1>4
  <2> QED
    BY <1>3, <2>1
<1>6. (CHOOSE g : Eq(g)) = Solution(Amounts(R), R)
  <2> HIDE DEF Eq
  <2> QED
    BY <1>5, RecursionSolved, RecursionUnique
<1> QED
  BY <1>1, <1>6, SumIsSolution

IsProcessed(rows) == {r \in Requests : rows[r].status = "PROCESSED"}
RowAmounts(rows) == [r \in Requests |-> rows[r].chosen.amount]

LEMMA ProcessedTotalIsSum ==
    ASSUME NEW rows
    PROVE  ProcessedTotal(rows) = SumOver(RowAmounts(rows), IsProcessed(rows))
<1> DEFINE R == IsProcessed(rows)
           f == RowAmounts(rows)
           Eq(g) == g = [s \in SUBSET R |-> IF s = {} THEN 0
                                            ELSE rows[Chosen(s)].chosen.amount + g[Without(s)]]
<1>0. R \subseteq Requests /\ IsFiniteSet(R)
  <2>1. IsFiniteSet(1 .. MaxCalls)
    BY FS_Interval, BoundAssumption
  <2> QED
    BY <2>1, FS_Subset DEF IsProcessed, Requests
<1>1. ProcessedTotal(rows) = (CHOOSE g : Eq(g))[R]
  BY DEF ProcessedTotal, IsProcessed, MapThenSumSet, MapThenFoldSet, Chosen, Without
<1> HIDE DEF R
<1>2. ASSUME NEW s \in SUBSET R, s # {} PROVE f[Chosen(s)] = rows[Chosen(s)].chosen.amount
  BY <1>0, <1>2, ChosenFacts DEF RowAmounts
<1> HIDE DEF f
<1>3. \A g : Eq(g) <=> Recursion(f, R, g)
  BY <1>2 DEF Recursion
<1>4. Eq(Solution(f, R))
  BY <1>0, <1>3, RecursionSolved
<1>5. Recursion(f, R, CHOOSE g : Eq(g))
  <2>1. Eq(CHOOSE g : Eq(g))
    <3> HIDE DEF Eq
    <3> QED
      BY <1>4
  <2> QED
    BY <1>3, <2>1
<1>6. (CHOOSE g : Eq(g)) = Solution(f, R)
  <2> HIDE DEF Eq
  <2> QED
    BY <1>0, <1>5, RecursionSolved, RecursionUnique
<1> QED
  BY <1>1, <1>6, SumIsSolution DEF R, f

-----------------------------------------------------------------------------
(* Refunds: types.                                                          *)

LEMMA BaseType ==
    /\ Cardinality(Attendees) \in Nat /\ Units \in Nat \ {0}
    /\ Base \in Nat /\ Base >= 1 /\ Base = Cardinality(Attendees) + Units
<1>1. Cardinality(Attendees) \in Nat
  BY AttendeesAssumption, FS_CardinalityType
<1> QED
  BY <1>1, UnitsAssumption DEF Base

LEMMA OfferedTypes ==
    ASSUME RefundTypeOK, NEW c \in Offered
    PROVE  c \in Selections
<1>1. order.units \in 0 .. Units
  BY DEF RefundTypeOK
<1>a. PICK ask \in Asks :
          \/ c = [who |-> ask.who, units |-> ask.units, amount |-> Breakdown(ask)]
          \/ c = [who |-> ask.who, units |-> ask.units, amount |-> Base]
  BY DEF Offered
<1>2. PICK n \in {Breakdown(ask), Base} : c = [who |-> ask.who, units |-> ask.units, amount |-> n]
  BY <1>a
<1>3. ask.who \in SUBSET Attendees /\ ask.units \in 0 .. Units /\ (ask.who # {} \/ ask.units > 0)
  BY AsksAssumption
<1>4. /\ IsFiniteSet(ask.who) /\ Cardinality(ask.who) \in Nat
      /\ Cardinality(ask.who) <= Cardinality(Attendees)
      /\ ask.who # {} => Cardinality(ask.who) >= 1
  <2>1. IsFiniteSet(ask.who) /\ Cardinality(ask.who) <= Cardinality(Attendees)
    BY <1>3, AttendeesAssumption, FS_Subset
  <2>2. Cardinality(ask.who) \in Nat /\ (Cardinality(ask.who) = 0 <=> ask.who = {})
    BY <2>1, FS_CardinalityType, FS_EmptySet
  <2> QED
    BY <2>1, <2>2
<1>5. Breakdown(ask) \in 1 .. Base
  <2>1. CASE ask.units > 0
    <3>1. Breakdown(ask) = Cardinality(ask.who) + ask.units
      BY <2>1 DEF Breakdown
    <3>2. ask.units \in Nat /\ ask.units <= Units
      BY <1>3, UnitsAssumption
    <3> HIDE DEF Base
    <3> QED
      BY <1>4, <2>1, <3>1, <3>2, BaseType
  <2>2. CASE ~(ask.units > 0) /\ Buyer \in ask.who
    BY <1>1, <1>3, <1>4, <2>2, BaseType DEF Breakdown
  <2>3. CASE ~(ask.units > 0) /\ Buyer \notin ask.who
    BY <1>3, <1>4, <2>3, BaseType DEF Breakdown
  <2> QED
    BY <2>1, <2>2, <2>3
<1>6. Base \in 1 .. Base
  BY BaseType
<1> QED
  BY <1>2, <1>3, <1>5, <1>6 DEF Selections

\* What a job of each kind carries.
LEMMA JobFields ==
    ASSUME NEW j \in Jobs
    PROVE  /\ j.op \in {"idle", "create", "describe", "attach", "mark", "edit"} \cup Reviews
           /\ j.op = "create" => /\ j.via \in {"refunds", "attendee"} /\ j.chosen \in Selections
                                 /\ j.pay \in PaymentStatuses
           /\ j.op \in {"describe", "attach"} => j.req \in Requests /\ j.chosen \in Selections
                                                 /\ j.pay \in PaymentStatuses
           /\ j.op = "mark" => j.req \in Requests /\ j.pay \in PaymentStatuses
           /\ j.op \in Reviews \cup {"edit"} =>
                 /\ j.via \in {"action", "patch"} /\ j.req \in Requests /\ j.row \in Rows
                 /\ j.pay \in PaymentStatuses /\ j.paid \in BOOLEAN
BY DEF Jobs, Idle, Reviews

LEMMA JobMakes ==
    /\ Idle \in Jobs
    /\ \A via \in {"refunds", "attendee"}, c \in Selections, p \in PaymentStatuses :
          [op |-> "create", via |-> via, chosen |-> c, pay |-> p] \in Jobs
    /\ \A op \in {"describe", "attach"}, r \in Requests, c \in Selections, p \in PaymentStatuses :
          [op |-> op, req |-> r, chosen |-> c, pay |-> p] \in Jobs
    /\ \A r \in Requests, p \in PaymentStatuses : [op |-> "mark", req |-> r, pay |-> p] \in Jobs
    /\ \A op \in Reviews \cup {"edit"}, via \in {"action", "patch"}, r \in Requests, row \in Rows,
          p \in PaymentStatuses, b \in BOOLEAN :
          [op |-> op, via |-> via, req |-> r, row |-> row, pay |-> p, paid |-> b] \in Jobs
BY DEF Jobs

LEMMA RowFields ==
    ASSUME NEW row \in Rows
    PROVE  /\ row.status \in {"PENDING", "VERIFIED", "PROCESSED", "REJECTED"}
           /\ row.active \in BOOLEAN /\ row.key \in Nat
           /\ row.chosen \in Selections /\ row.chosen.amount \in 1 .. Base
           /\ row.chosen.who \in SUBSET Attendees /\ row.chosen.units \in 0 .. Units
           /\ row.meta \in Metadata /\ row.links \in Links
BY DEF Rows, Selections

LEMMA MetaFields ==
    ASSUME NEW m \in Metadata
    PROVE  /\ m.names \in Named /\ m.names.who \in SUBSET Attendees /\ m.names.units \in 0 .. Units
           /\ m.wasPayment \in PaymentStatuses \cup {"none"}
           /\ m.wasOrder \in OrderStatuses \cup {"none"}
BY DEF Metadata, Named

LEMMA LinkFields ==
    ASSUME NEW l \in Links
    PROVE  l.tickets \in SUBSET Attendees /\ l.order \in 0 .. Units /\ l.units \in 0 .. Units
BY DEF Links

\* A row that keeps its selection, with another status, metadata or associations.
LEMMA RowMakes ==
    ASSUME NEW row \in Rows, NEW m \in Metadata, NEW l \in Links
    PROVE  /\ [row EXCEPT !.key = @ + 1, !.links = l] \in Rows
           /\ [row EXCEPT !.meta = m, !.links = l] \in Rows
           /\ [row EXCEPT !.status = "VERIFIED"] \in Rows
           /\ [row EXCEPT !.status = "PROCESSED", !.active = FALSE] \in Rows
           /\ [row EXCEPT !.status = "REJECTED", !.active = FALSE] \in Rows
<1>1. PICK n \in Nat : n = row.key + 1
  BY RowFields
<1>2. [row EXCEPT !.key = n, !.links = l] \in Rows
  BY DEF Rows
<1>3. [row EXCEPT !.key = @ + 1, !.links = l] = [row EXCEPT !.key = n, !.links = l]
  BY <1>1
<1> QED
  BY <1>2, <1>3 DEF Rows

\* A row that is there is a row.
LEMMA RowThere ==
    ASSUME RefundTypeOK, NEW r \in Requests
    PROVE  /\ Exists(r) <=> request[r] \in Rows
           /\ request[r] = Absent <=> request[r].status = "absent"
           /\ request[r] = Gone <=> request[r].status = "deleted"
           /\ request[r].active => Exists(r)
           /\ request[r].status \in {"PENDING", "VERIFIED", "PROCESSED", "REJECTED"} => Exists(r)
BY RowFields DEF RefundTypeOK, Exists, Absent, Gone

LEMMA NoMeaning ==
    /\ NoLinks \in Links /\ NoLinks.order = 0 /\ NoLinks.units = 0 /\ NoLinks.tickets = {}
    /\ NamesNone \in Named /\ NamesNone.who = {} /\ NamesNone.units = 0
    /\ \A c : MadeFor(NoLinks, c) /\ AsksFor(NamesNone, c)
    /\ \A c \in Selections : /\ Names(c) \in Named /\ AsksFor(Names(c), c)
                             /\ Names(c).who = c.who /\ Names(c).units = c.units
BY BaseType DEF NoLinks, Links, NamesNone, Named, MadeFor, AsksFor, Names, Selections

LEMMA LinksOfType == ASSUME RefundTypeOK, NEW r \in Requests PROVE LinksOf(r) \in Links
BY RowThere, RowFields, NoMeaning DEF LinksOf

\* What is added is what is named: associations only grow, within what was asked for.
LEMMA AttachedFacts ==
    ASSUME RefundTypeOK, NEW l \in Links, NEW n \in Named
    PROVE  /\ Attached(l, n) \in Links
           /\ l.order > 0 => Attached(l, n).order > 0
           /\ l.units > 0 => Attached(l, n).units > 0
           /\ Adds(l, n) => Attached(l, n).order > 0 \/ Attached(l, n).units > 0
           /\ Touches(Attached(l, n), n) /\ order.units > 0 =>
                 Attached(l, n).order > 0 \/ Attached(l, n).units > 0
           /\ \A c \in Selections : MadeFor(l, c) /\ AsksFor(n, c) => MadeFor(Attached(l, n), c)
<1> DEFINE a == Attached(l, n)
<1>1. /\ l.tickets \in SUBSET Attendees /\ l.order \in 0 .. Units /\ l.units \in 0 .. Units
      /\ n.who \in SUBSET Attendees /\ n.units \in 0 .. Units /\ order.units \in 0 .. Units
  BY DEF Links, Named, RefundTypeOK
<1>2. /\ a.tickets = l.tickets \cup n.who
      /\ a.order = IF l.order = 0 /\ n.units = 0 /\ Buyer \in n.who THEN order.units ELSE l.order
      /\ a.units = IF l.units = 0 THEN n.units ELSE l.units
  BY DEF Attached
<1>3. a \in Links
  <2>1. a = [tickets |-> a.tickets, order |-> a.order, units |-> a.units]
    BY DEF Attached
  <2>2. a.tickets \in SUBSET Attendees /\ a.order \in 0 .. Units /\ a.units \in 0 .. Units
    BY <1>1, <1>2
  <2> HIDE DEF a
  <2> QED
    BY <2>1, <2>2 DEF Links
<1>4. /\ l.order > 0 => a.order > 0
      /\ l.units > 0 => a.units > 0
      /\ a.order # l.order \/ a.units # l.units => a.order > 0 \/ a.units > 0
  BY <1>1, <1>2
<1>5. Buyer \in ByName(n) /\ order.units > 0 => a.order > 0 \/ a.units > 0
  BY <1>1, <1>2 DEF ByName
<1>6. ASSUME NEW c \in Selections, MadeFor(l, c), AsksFor(n, c)
      PROVE  MadeFor(a, c)
  <2>1. CASE n = NamesNone
    <3>1. a.tickets = l.tickets /\ a.order = l.order /\ a.units = l.units
      BY <1>2, <2>1, NoMeaning
    <3> QED
      BY <1>6, <3>1 DEF MadeFor
  <2>2. CASE n = Names(c)
    <3>1. n.who = c.who /\ n.units = c.units
      BY <2>2 DEF Names
    <3> HIDE DEF a
    <3> QED
      BY <1>1, <1>2, <1>6, <3>1 DEF MadeFor
  <2> QED
    BY <1>6, <2>1, <2>2 DEF AsksFor
<1> QED
  BY <1>3, <1>4, <1>5, <1>6 DEF Adds, Touches

\* Blocking and restoring move the status of the order only.
LEMMA BlockFacts ==
    ASSUME RefundTypeOK, NEW b, BlockOrder(b)
    PROVE  /\ order' \in [status : OrderStatuses, units : 0 .. Units]
           /\ order'.units = order.units
           /\ order'.status = "refunded" <=> order.status = "refunded"
           /\ order'.status = "pending_refund" =>
                 order.status = "pending_refund" \/ (b /\ order.status # "refunded")
<1>1. order' = order \/ (b /\ order' = [order EXCEPT !.status = BlockedStatus(@)])
  BY DEF BlockOrder
<1>2. order \in [status : OrderStatuses, units : 0 .. Units]
  BY DEF RefundTypeOK
<1>3. /\ BlockedStatus(order.status) \in OrderStatuses
      /\ BlockedStatus(order.status) = "refunded" <=> order.status = "refunded"
  BY <1>2 DEF BlockedStatus, OrderStatuses
<1> QED
  BY <1>1, <1>2, <1>3

LEMMA RestoreFacts ==
    ASSUME RefundTypeOK, NEW j, RestoreOrder(j)
    PROVE  /\ order' \in [status : OrderStatuses, units : 0 .. Units]
           /\ order'.units = order.units
           /\ order'.status = "refunded" <=> order.status = "refunded"
           /\ order'.status = "pending_refund" => order' = order /\ ~Concerned(j)
<1>1. order \in [status : OrderStatuses, units : 0 .. Units]
  BY DEF RefundTypeOK
<1>2. CASE Concerned(j) /\ order.status = "pending_refund"
  <2>1. PICK s \in {"partially_refunded", "completed"} : order' = [order EXCEPT !.status = s]
    BY <1>2 DEF RestoreOrder
  <2> QED
    BY <1>1, <1>2, <2>1 DEF OrderStatuses
<1>3. CASE ~(Concerned(j) /\ order.status = "pending_refund")
  <2>1. order' = order
    BY <1>3 DEF RestoreOrder
  <2> QED
    BY <1>1, <1>3, <2>1
<1> QED
  BY <1>2, <1>3

\* What a save changes.
LEMMA SaveFacts ==
    ASSUME RefundTypeOK, NEW r \in Requests, NEW row \in Rows, NEW l \in Links, Save(r, row, l)
    PROVE  /\ request' \in [Requests -> Rows \cup {Absent, Gone}]
           /\ \A q \in Requests : q # r => request'[q] = request[q]
           /\ request'[r] \in Rows
           /\ request'[r].status = row.status /\ request'[r].active = row.active
           /\ request'[r].chosen = row.chosen /\ request'[r].meta = row.meta
           /\ request'[r].links = l /\ request'[r].key = row.key + 1
           /\ row.active => \A q \in Requests : request[q].active => q = r
<1>0. row.meta \in Metadata
  BY RowFields
<1>1. [row EXCEPT !.key = @ + 1, !.links = l] \in Rows
  BY <1>0, RowMakes
<1>2. request'[r] = [row EXCEPT !.key = @ + 1, !.links = l]
  BY DEF Save, RefundTypeOK
<1>3. request' \in [Requests -> Rows \cup {Absent, Gone}]
  BY <1>1 DEF Save, RefundTypeOK
<1>4. \A q \in Requests : q # r => request'[q] = request[q]
  BY DEF Save, RefundTypeOK
<1>5. row.active => \A q \in Requests : request[q].active => q = r
  BY DEF Save, MaySave, Active
<1>6. /\ request'[r].status = row.status /\ request'[r].active = row.active
      /\ request'[r].chosen = row.chosen /\ request'[r].meta = row.meta
      /\ request'[r].links = l /\ request'[r].key = row.key + 1
  BY <1>2 DEF Rows
<1> QED
  BY <1>1, <1>2, <1>3, <1>4, <1>5, <1>6

LEMMA SetJobFacts ==
    ASSUME RefundTypeOK, NEW w \in Workers, NEW j \in Jobs, SetJob(w, j)
    PROVE  /\ job' \in [Workers -> Jobs] /\ job'[w] = j
           /\ \A x \in Workers : x # w => job'[x] = job[x]
BY DEF RefundTypeOK, SetJob

-----------------------------------------------------------------------------
(* Refunds: steps that have something in common.                            *)

LEMMA ReviewFacts ==
    ASSUME RefundInv, NEW w \in Workers, HasRow(w)
    PROVE  /\ job[w].req \in Requests /\ job[w].row \in Rows /\ job[w].pay \in PaymentStatuses
           /\ job[w].via \in {"action", "patch"} /\ job[w].paid \in BOOLEAN
           /\ WellKept(job[w].row)
           /\ job[w].op \in Reviews => job[w].row.status = Wants(job[w].op)
           /\ request[job[w].req] # Absent
           /\ job[w].row.chosen \in Selections /\ job[w].row.chosen \in Known(job[w].req)
           /\ \A c \in Known(job[w].req) : c = job[w].row.chosen
<1>1. /\ job[w].req \in Requests /\ job[w].row \in Rows /\ job[w].pay \in PaymentStatuses
      /\ job[w].via \in {"action", "patch"} /\ job[w].paid \in BOOLEAN
  <2>1. job[w] \in Jobs
    BY DEF RefundInv, RefundTypeOK
  <2> QED
    BY <2>1, JobFields DEF HasRow
<1>2. WellKept(job[w].row) /\ (job[w].op \in Reviews => job[w].row.status = Wants(job[w].op))
  BY DEF RefundInv, RowsInv, CopyInv
<1>3. job[w].row.chosen \in Selections
  BY <1>1, RowFields
<1>4. job[w].row.chosen \in Known(job[w].req)
  BY <1>3 DEF Known
<1> QED
  BY <1>1, <1>2, <1>3, <1>4 DEF RefundInv, RowsInv, KnownInv

\* A row that was inserted and not finished yet.
LEMMA InsertedFacts ==
    ASSUME RefundInv, NEW w \in Workers, Inserted(w)
    PROVE  /\ job[w].req \in Requests /\ job[w].chosen \in Selections
           /\ job[w].pay \in PaymentStatuses
           /\ request[job[w].req] # Absent
           /\ \A c \in Known(job[w].req) : c = job[w].chosen
           /\ Exists(job[w].req) => /\ request[job[w].req] \in Rows
                                    /\ request[job[w].req].chosen = job[w].chosen
<1>1. job[w].req \in Requests /\ job[w].chosen \in Selections /\ job[w].pay \in PaymentStatuses
  <2>1. job[w] \in Jobs
    BY DEF RefundInv, RefundTypeOK
  <2> QED
    BY <2>1, JobFields DEF Inserted
<1>2. job[w].chosen \in Known(job[w].req)
  BY <1>1 DEF Known
<1>3. Exists(job[w].req) => /\ request[job[w].req] \in Rows
                            /\ request[job[w].req].chosen \in Known(job[w].req)
  BY <1>1, RowThere, RowFields DEF RefundInv, Known
<1> QED
  BY <1>1, <1>2, <1>3 DEF RefundInv, RowsInv, KnownInv

LEMMA NewRows ==
    ASSUME NEW j, j.row \in Rows
    PROVE  /\ Verified(j) \in Rows /\ Processed(j) \in Rows /\ Rejected(j) \in Rows
           /\ \A row \in {Verified(j), Processed(j), Rejected(j)} :
                 row.chosen = j.row.chosen /\ row.meta = j.row.meta /\ row.key = j.row.key
           /\ Verified(j).status = "VERIFIED" /\ Verified(j).active = j.row.active
           /\ Processed(j).status = "PROCESSED" /\ Processed(j).active = FALSE
           /\ Rejected(j).status = "REJECTED" /\ Rejected(j).active = FALSE
<1>1. Verified(j) \in Rows /\ Processed(j) \in Rows /\ Rejected(j) \in Rows
  <2>1. j.row.meta \in Metadata /\ j.row.links \in Links
    BY RowFields
  <2> QED
    BY <2>1, RowMakes DEF Verified, Processed, Rejected
<1>2. PICK row \in Rows : row = j.row
  OBVIOUS
<1> QED
  BY <1>1, <1>2 DEF Verified, Processed, Rejected, Rows

LEMMA SameReturned ==
    ASSUME UNCHANGED returned
    PROVE  AtStripe' = AtStripe
<1>1. AtStripe = Total(returned)
  BY DEF AtStripe, Total
<1>2. AtStripe' = Total(returned')
  BY DEF AtStripe, Total, MapThenSumSet, MapThenFoldSet
<1> QED
  BY <1>1, <1>2

\* What is refunded on the order stays as it is when the payment does not become
\* refunded and the order changes its status only.
LEMMA GoodsStay ==
    ASSUME RefundInv,
           UNCHANGED <<method, restocked, refused, cancelled, returned, redirected, overlapped>>,
           order'.units = order.units, order'.status = "refunded" <=> order.status = "refunded",
           payment' = "REFUNDED" => payment = "REFUNDED"
    PROVE  GoodsInv'
<1>1. UnitsBalance' /\ EmptyIsRefunded' /\ TakenIsReturned'
  BY DEF RefundInv, GoodsInv, UnitsBalance, EmptyIsRefunded, TakenIsReturned
<1>2. RefundedIsReturned'
  BY SameReturned DEF RefundInv, GoodsInv, RefundedIsReturned, Base
<1> QED
  BY <1>1, <1>2 DEF GoodsInv

LEMMA KnownStays ==
    ASSUME KnownInv, \A r \in Requests : Known(r)' \subseteq Known(r),
           \A r \in Requests : request'[r] = Absent => request[r] = Absent
    PROVE  KnownInv'
BY DEF KnownInv

\* What the copies and the rows are like does not change when neither they nor
\* the refunds at Stripe do: a process turns to something else, or begins with
\* a copy of a row that is there.
LEMMA TurnStep ==
    ASSUME RefundInv, NEW w \in Workers, NEW j \in Jobs, SetJob(w, j),
           UNCHANGED <<method, request, returned, rewritten, redirected>>,
           j.op \notin {"describe", "attach"},
           j.op \in Reviews \cup {"edit"} =>
               Exists(j.req) /\ j.row = request[j.req] /\ ~j.paid,
           j.op \in Reviews => j.row.status = Wants(j.op)
    PROVE  RowsInv'
<1>0. /\ RefundTypeOK /\ job'[w] = j /\ \A x \in Workers : x # w => job'[x] = job[x]
      /\ j.op \in Reviews \cup {"edit"} => j.req \in Requests
  BY SetJobFacts, JobFields DEF RefundInv
<1>1. CopyInv'
  BY <1>0 DEF RefundInv, RowsInv, CopyInv, HasRow, Exists, WellKept
<1>2. KnownInv'
  <2>1. \A r \in Requests : Known(r)' \subseteq Known(r)
    BY <1>0 DEF Known, HasRow, Inserted, Exists
  <2> QED
    BY <2>1, KnownStays DEF RefundInv, RowsInv
<1>3. AskedInv'
  BY <1>0 DEF RefundInv, RowsInv, AskedInv, HasRow, Exists, MadeFor, AsksFor
<1>4. KeyInv'
  BY <1>0 DEF RefundInv, RowsInv, KeyInv, HasRow
<1>5. PaidInv'
  BY <1>0 DEF RefundInv, RowsInv, PaidInv, Paid, HasRow
<1> QED
  BY <1>1, <1>2, <1>3, <1>4, <1>5 DEF RowsInv

\* So nothing changes for whoever waits.
LEMMA TurnTrack ==
    ASSUME RefundInv, NEW w \in Workers, NEW j \in Jobs, SetJob(w, j),
           UNCHANGED <<payment, order, request, invalidated>>,
           j.op \notin {"describe", "attach", "mark"}, offTrack => offTrack',
           j.op \in Reviews \cup {"edit"} => j.row = request[j.req] /\ j.pay = payment,
           j.op \in Reviews => j.row.status = Wants(j.op),
           j.op \in {"verify", "reject", "edit"} /\ j.via = "action" =>
               payment = "PENDING_REFUND" \/ offTrack'
    PROVE  TrackInv'
<1>0. /\ RefundTypeOK /\ job'[w] = j /\ \A x \in Workers : x # w => job'[x] = job[x]
      /\ j.op \in Reviews \cup {"edit"} => j.via \in {"action", "patch"}
      /\ job' \in [Workers -> Jobs]
  BY SetJobFacts, JobFields DEF RefundInv
<1>1. OneActive'
  BY DEF RefundInv, TrackInv, OneActive, Active
<1> SUFFICES ASSUME ~offTrack'
             PROVE  (Orderly /\ PaymentWaits /\ OrderWaits /\ ReadInTime /\ MarksInv)'
  BY <1>1 DEF TrackInv
<1>2. Orderly /\ PaymentWaits /\ OrderWaits /\ ReadInTime /\ MarksInv
  BY DEF RefundInv, TrackInv
<1>3. Orderly' /\ OrderWaits'
  BY <1>2 DEF Orderly, OrderWaits, Active, HoldsOrder
<1>4. PaymentWaits'
  BY <1>0, <1>2 DEF PaymentWaits, Active, ClosersWrite, Reviewing, Reviews
<1>5. ReadInTime'
  BY <1>0, <1>2 DEF ReadInTime, Reviewing, Reviews
<1>6. MarksInv'
  <2>1. \A x \in Workers : Announces(x)' => x # w /\ Announces(x) /\ job'[x] = job[x]
    BY <1>0 DEF Announces
  <2>2. ASSUME NEW x \in Workers, Announces(x)' PROVE Unmarked(job[x].req)'
    <3>1. PICK q : q = job[x].req /\ Unmarked(q) /\ job'[x].req = q
      BY <1>2, <2>1, <2>2 DEF MarksInv
    <3>2. request[q].status = "PENDING" /\ payment # "PENDING_REFUND"
      BY <3>1 DEF Unmarked
    <3>3. j.op \in Reviews \cup {"edit"} /\ j.req = q =>
              j.via = "patch" /\ (j.op = "edit" => j.row.status = "PENDING")
      <4>1. CASE j.op = "process"
        BY <3>2, <4>1 DEF Wants, Reviews
      <4>2. CASE j.op # "process"
        BY <1>0, <3>2, <4>2 DEF Reviews
      <4> QED
        BY <4>1, <4>2
    <3>4. \A y \in Workers : HasRow(y)' /\ job'[y].req = q =>
              job'[y].via = "patch" /\ (job'[y].op = "edit" => job'[y].row.status = "PENDING")
      BY <1>0, <3>1, <3>3 DEF Unmarked, HasRow
    <3> QED
      BY <3>1, <3>2, <3>4 DEF Unmarked
  <2> QED
    BY <1>2, <2>1, <2>2 DEF MarksInv
<1> QED
  BY <1>2, <1>3, <1>4, <1>5, <1>6

\* A process that turns to something else keeps the invariant.
LEMMA TurnKeeps ==
    ASSUME RefundInv, NEW w \in Workers, NEW j \in Jobs, SetJob(w, j),
           UNCHANGED <<method, refundData, request, returned, rewritten, redirected, invalidated,
                       overlapped>>,
           calls' \in 0 .. MaxCalls, offTrack' \in BOOLEAN, offTrack => offTrack',
           j.op \notin {"describe", "attach", "mark"},
           j.op \in Reviews \cup {"edit"} =>
               Exists(j.req) /\ j.row = request[j.req] /\ ~j.paid /\ j.pay = payment,
           j.op \in Reviews => j.row.status = Wants(j.op),
           j.op \in {"verify", "reject", "edit"} /\ j.via = "action" =>
               payment = "PENDING_REFUND" \/ offTrack'
    PROVE  RefundInv'
<1> USE DEF refundData
<1>1. RefundTypeOK'
  BY SetJobFacts DEF RefundInv, RefundTypeOK
<1>2. RowsInv'
  BY TurnStep
<1>3. TrackInv'
  BY TurnTrack
<1>4. GoodsInv'
  BY GoodsStay
<1> QED
  BY <1>1, <1>2, <1>3, <1>4 DEF RefundInv

\* The same when a request is saved.
LEMMA SaveStep ==
    ASSUME RefundInv, NEW w \in Workers, HasRow(w), NEW row \in Rows, NEW l \in Links,
           Save(job[w].req, row, l), SetJob(w, Idle), UNCHANGED <<method, returned>>,
           rewritten \subseteq rewritten', redirected \subseteq redirected',
           redirected' \subseteq rewritten',
           row.chosen = job[w].row.chosen, WellKept(row),
           job[w].req \notin redirected' => MadeFor(l, row.chosen) /\ row.meta = job[w].row.meta,
           row.status = "PENDING" => job[w].req \in rewritten',
           method = "stripe" /\ row.status \in {"VERIFIED", "PROCESSED"} => job[w].req \in Paid
    PROVE  RowsInv'
<1>0. /\ RefundTypeOK /\ Idle \in Jobs /\ job[w].req \in Requests
      /\ job[w].row.chosen \in Known(job[w].req) /\ row.chosen \in Selections
      /\ row.status \notin {"absent", "deleted"}
  BY ReviewFacts, JobMakes, RowFields DEF RefundInv
<1>1. /\ job'[w].op = "idle" /\ \A x \in Workers : x # w => job'[x] = job[x]
  BY <1>0, SetJobFacts DEF Idle
<1>2. PICK r \in Requests : r = job[w].req
  BY <1>0
<1>3. /\ \A q \in Requests : q # r => request'[q] = request[q]
      /\ request'[r].status = row.status /\ request'[r].active = row.active
      /\ request'[r].chosen = row.chosen /\ request'[r].meta = row.meta
      /\ request'[r].links = l
  BY <1>0, <1>2, SaveFacts
<1>a. \A x \in Workers : HasRow(x)' => HasRow(x) /\ x # w /\ job'[x] = job[x]
  BY <1>1 DEF HasRow, Reviews
<1>4. CopyInv'
  BY <1>1, <1>3, <1>a DEF RefundInv, RowsInv, CopyInv, HasRow, Exists, WellKept, Reviews
<1>5. KnownInv'
  <2>1. \A q \in Requests : Known(q)' \subseteq Known(q)
    BY <1>0, <1>1, <1>2, <1>3 DEF Known, HasRow, Inserted, Exists, Reviews
  <2>2. \A q \in Requests : request'[q] = Absent => request[q] = Absent
    BY <1>0, <1>3 DEF Absent
  <2> QED
    BY <2>1, <2>2, KnownStays DEF RefundInv, RowsInv
<1>6. AskedInv'
  <2>1. ASSUME NEW q \in Requests, q \notin redirected', Exists(q)'
        PROVE  MadeFor(request[q].links, request[q].chosen)'
               /\ AsksFor(request[q].meta.names, request[q].chosen)'
    <3>1. CASE q = r
      <4>1. AsksFor(job[w].row.meta.names, job[w].row.chosen)
        BY <1>2, <2>1, <3>1 DEF RefundInv, RowsInv, AskedInv
      <4> QED
        BY <1>2, <1>3, <2>1, <3>1, <4>1 DEF MadeFor, AsksFor
    <3>2. CASE q # r
      <4>1. request'[q] = request[q] /\ Exists(q) /\ q \notin redirected
        BY <1>3, <2>1, <3>2 DEF Exists
      <4> QED
        BY <4>1 DEF RefundInv, RowsInv, AskedInv, MadeFor, AsksFor
    <3> QED
      BY <3>1, <3>2
  <2>2. ASSUME NEW q \in Requests, q \notin redirected', NEW x \in Workers, HasRow(x)',
               job'[x].req = q
        PROVE  AsksFor(job[x].row.meta.names, job[x].row.chosen)'
    BY <1>a, <2>2 DEF RefundInv, RowsInv, AskedInv, AsksFor
  <2> QED
    BY <2>1, <2>2 DEF AskedInv
<1>7. KeyInv'
  BY <1>1, <1>2, <1>3, <1>a DEF RefundInv, RowsInv, KeyInv
<1>8. PaidInv'
  BY <1>1, <1>2, <1>3, <1>a DEF RefundInv, RowsInv, PaidInv, Paid
<1> QED
  BY <1>4, <1>5, <1>6, <1>7, <1>8 DEF RowsInv

-----------------------------------------------------------------------------
(* Refunds: what is paid back.                                              *)

LEMMA TotalMonotonic ==
    ASSUME NEW S \in SUBSET Refunded, IsFiniteSet(S), NEW R \in SUBSET S
    PROVE  /\ Total(R) \in Nat /\ Total(S) \in Nat /\ Total(R) <= Total(S)
           /\ \A x \in S : x.chosen.amount \in Nat /\ x.chosen.amount <= Total(S)
<1>1. IsFiniteSet(R) /\ \A x \in S : Amounts(S)[x] \in Nat /\ Amounts(S)[x] = x.chosen.amount
  BY FS_Subset, BaseType DEF Amounts, Refunded, Selections
<1>2. Total(S) = SumOver(Amounts(S), S)
  BY TotalIsSum
<1>3. Total(R) = SumOver(Amounts(S), R)
  <2>1. \A x \in R : Amounts(R)[x] = Amounts(S)[x]
    BY DEF Amounts
  <2> QED
    BY <1>1, <2>1, TotalIsSum, SumSame
<1>4. ASSUME NEW x \in S PROVE x.chosen.amount \in Nat /\ x.chosen.amount <= Total(S)
  <2>1. SumOver(Amounts(S), S) = Amounts(S)[x] + SumOver(Amounts(S), S \ {x})
    BY <1>1, SumRemove
  <2>2. SumOver(Amounts(S), S \ {x}) \in Nat
    <3>1. IsFiniteSet(S \ {x})
      BY FS_RemoveElement
    <3> QED
      BY <1>1, <3>1, SumType
  <2>3. Amounts(S)[x] \in Nat /\ Amounts(S)[x] = x.chosen.amount
    BY <1>1
  <2> QED
    BY <1>2, <2>1, <2>2, <2>3
<1> QED
  BY <1>1, <1>2, <1>3, <1>4, SumMonotonic

\* The requests that were processed were each paid back by a refund of their own.
LEMMA ProcessedWithinReturned ==
    ASSUME NEW rows \in [Requests -> Rows \cup {Absent, Gone}],
           NEW R \in SUBSET Refunded, IsFiniteSet(R),
           \A r \in Requests : rows[r].status = "PROCESSED" =>
               \E x \in R : x.req = r /\ x.chosen = rows[r].chosen
    PROVE  ProcessedTotal(rows) \in Nat /\ ProcessedTotal(rows) <= Total(R)
<1> DEFINE S == IsProcessed(rows)
           f == RowAmounts(rows)
           h == [r \in S |-> CHOOSE x \in R : x.req = r /\ x.chosen = rows[r].chosen]
<1>1. IsFiniteSet(S) /\ S \subseteq Requests
  <2>1. IsFiniteSet(1 .. MaxCalls)
    BY FS_Interval, BoundAssumption
  <2> QED
    BY <2>1, FS_Subset DEF IsProcessed, Requests
<1>2. \A r \in S : h[r] \in R /\ h[r].req = r /\ h[r].chosen = rows[r].chosen
  BY DEF IsProcessed
<1>3. \A x \in R : Amounts(R)[x] \in Nat /\ Amounts(R)[x] = x.chosen.amount
  BY BaseType DEF Amounts, Refunded, Selections
<1>4. \A r \in S : f[r] = rows[r].chosen.amount
  BY <1>1 DEF RowAmounts
<1> HIDE DEF h, S, f
<1>5. \A r \in S : f[r] \in Nat /\ f[r] <= Amounts(R)[h[r]]
  BY <1>2, <1>3, <1>4
<1>6. \A r, q \in S : h[r] = h[q] => r = q
  BY <1>2
<1>7. SumOver(f, S) \in Nat /\ SumOver(f, S) <= SumOver(Amounts(R), R)
  <2> DEFINE g == Amounts(R)
  <2>1. \A y \in R : g[y] \in Nat
    BY <1>3
  <2>2. \A x \in S : h[x] \in R /\ f[x] <= g[h[x]]
    BY <1>2, <1>5
  <2>3. \A x \in S : f[x] \in Nat
    BY <1>5
  <2> HIDE DEF g
  <2>4. SumOver(f, S) \in Nat /\ SumOver(f, S) <= SumOver(g, R)
    BY <1>1, <1>6, <2>1, <2>2, <2>3, SumInjection
  <2> QED
    BY <2>4 DEF g
<1> QED
  BY <1>7, TotalIsSum, ProcessedTotalIsSum DEF f, S

LEMMA ReturnedSoFar == AtStripe = Total(returned) /\ AtStripe' = Total(returned')
<1>1. AtStripe = Total(returned)
  BY DEF AtStripe, Total
<1>2. AtStripe' = Total(returned')
  BY DEF AtStripe, Total, MapThenSumSet, MapThenFoldSet
<1> QED
  BY <1>1, <1>2

-----------------------------------------------------------------------------
(* Refunds: what is put back.                                               *)

GoodsRecords == [line : [status : OrderStatuses, units : 0 .. Units], shelf : Nat,
                 refused : Nat, twice : BOOLEAN]

\* The units the buyer has.
LeftOf(g) == IF g.line.status = "refunded" THEN 0 ELSE g.line.units

Balanced(g) ==
    /\ g.twice \/ g.shelf + g.refused + LeftOf(g) = Units
    /\ g.line.units = 0 => g.line.status = "refunded"

\* n units leave the buyer, of which the shelf has room for k.
Moves(g, h, n) ==
    /\ n <= LeftOf(g) /\ LeftOf(h) = LeftOf(g) - n /\ (h.twice <=> g.twice)
    /\ \E k \in 0 .. n : h.shelf = g.shelf + k /\ h.refused = g.refused + (n - k)

\* n units come back that the buyer had not got, or not any more.
MovesTwice(g, h, n) ==
    /\ LeftOf(h) = 0 /\ h.twice
    /\ \E k \in 0 .. LeftOf(g) : /\ h.shelf = g.shelf + k + n
                                 /\ h.refused = g.refused + (LeftOf(g) - k)

LEMMA GoodsFields ==
    ASSUME NEW g \in GoodsRecords
    PROVE  /\ g.line \in [status : OrderStatuses, units : 0 .. Units]
           /\ g.line.status \in OrderStatuses /\ g.line.units \in 0 .. Units /\ g.line.units \in Nat
           /\ g.shelf \in Nat /\ g.refused \in Nat /\ g.twice \in BOOLEAN
           /\ LeftOf(g) \in 0 .. Units /\ LeftOf(g) \in Nat /\ Units \in Nat
<1>1. g.line \in [status : OrderStatuses, units : 0 .. Units]
      /\ g.shelf \in Nat /\ g.refused \in Nat /\ g.twice \in BOOLEAN
  BY DEF GoodsRecords
<1> QED
  BY <1>1, BaseType DEF LeftOf

\* Units of the line.
LEMMA BackUnitsFacts ==
    ASSUME NEW g \in GoodsRecords, NEW q \in 1 .. Units, Balanced(g)
    PROVE  /\ BackUnits(g, q) \in GoodsRecords /\ Balanced(BackUnits(g, q))
           /\ BackUnits(g, q).line.status \in {"refunded", "partially_refunded"}
           /\ g.line.status = "refunded" => BackUnits(g, q).line.status = "refunded"
           /\ BackUnits(g, q).refused = g.refused
           /\ \E n \in 0 .. q : /\ n <= g.line.units
                                /\ IF g.line.status = "refunded"
                                   THEN MovesTwice(g, BackUnits(g, q), n)
                                   ELSE Moves(g, BackUnits(g, q), n)
                                /\ BackUnits(g, q).shelf = g.shelf + n
<1> DEFINE back == IF q < g.line.units THEN q ELSE g.line.units
           left == g.line.units - back
           h    == BackUnits(g, q)
<1>0. /\ g.line.status \in OrderStatuses /\ g.line.units \in 0 .. Units /\ g.line.units \in Nat
      /\ g.shelf \in Nat /\ g.refused \in Nat /\ g.twice \in BOOLEAN
      /\ q \in Nat /\ Units \in Nat
  BY GoodsFields
<1>1. back \in 0 .. q /\ back \in Nat /\ left \in 0 .. Units /\ left \in Nat
      /\ back + left = g.line.units /\ back <= g.line.units
  BY <1>0
<1>2. PICK s \in {"refunded", "partially_refunded"} :
          s = "refunded" <=> left = 0 \/ g.line.status = "refunded"
  OBVIOUS
<1>3. PICK t \in BOOLEAN : t <=> g.twice \/ g.line.status = "refunded"
  OBVIOUS
<1>a. (g.twice \/ g.line.status = "refunded") = t
  BY <1>0, <1>3, Zenon
<1>b. (IF left = 0 \/ g.line.status = "refunded" THEN "refunded" ELSE "partially_refunded") = s
  BY <1>2
<1>4. h = [line |-> [units |-> left, status |-> s], shelf |-> g.shelf + back,
           refused |-> g.refused, twice |-> t]
  <2>1. PICK v : v = [units |-> left, status |-> s]
    OBVIOUS
  <2>2. h = [g EXCEPT !.shelf = @ + back, !.twice = t, !.line = v]
    BY <1>a, <1>b, <2>1 DEF BackUnits
  <2> HIDE DEF h, back, left
  <2> QED
    BY <2>1, <2>2 DEF GoodsRecords
<1> HIDE DEF h, back, left
<1>5. /\ h.line.status = s /\ h.line.units = left /\ h.shelf = g.shelf + back
      /\ h.refused = g.refused /\ h.twice = t
  BY <1>4
<1>6. h \in GoodsRecords
  <2>1. [units |-> left, status |-> s] \in [status : OrderStatuses, units : 0 .. Units]
    BY <1>1 DEF OrderStatuses
  <2>2. g.shelf + back \in Nat
    BY <1>0, <1>1
  <2> QED
    BY <1>0, <1>4, <2>1, <2>2 DEF GoodsRecords
<1>7. /\ LeftOf(h) = IF g.line.status = "refunded" THEN 0 ELSE left
      /\ LeftOf(g) = IF g.line.status = "refunded" THEN 0 ELSE g.line.units
  BY <1>2, <1>5 DEF LeftOf
<1>8. Balanced(h)
  BY <1>0, <1>1, <1>2, <1>3, <1>5, <1>7 DEF Balanced
<1>9. IF g.line.status = "refunded" THEN MovesTwice(g, h, back) ELSE Moves(g, h, back)
  <2>1. CASE g.line.status = "refunded"
    <3>1. h.twice /\ LeftOf(h) = 0 /\ LeftOf(g) = 0
      BY <1>3, <1>5, <1>7, <2>1
    <3> QED
      BY <1>0, <1>1, <1>5, <2>1, <3>1 DEF MovesTwice
  <2>2. CASE g.line.status # "refunded"
    <3>1. (h.twice <=> g.twice) /\ LeftOf(h) = left /\ LeftOf(g) = g.line.units
      BY <1>3, <1>5, <1>7, <2>2
    <3> QED
      BY <1>0, <1>1, <1>5, <2>2, <3>1 DEF Moves
  <2> QED
    BY <2>1, <2>2
<1> QED
  BY <1>1, <1>2, <1>5, <1>6, <1>8, <1>9 DEF h

\* The whole order.
LEMMA BackOrderFacts ==
    ASSUME NEW g \in GoodsRecords, NEW room \in BOOLEAN, Balanced(g)
    PROVE  /\ BackOrder(g, room) \in GoodsRecords /\ Balanced(BackOrder(g, room))
           /\ BackOrder(g, room).line.status = "refunded"
           /\ BackOrder(g, room).line.units = g.line.units
           /\ BackOrder(g, room).twice = g.twice /\ LeftOf(BackOrder(g, room)) = 0
           /\ \E k \in 0 .. LeftOf(g) :
                 /\ BackOrder(g, room).shelf = g.shelf + k
                 /\ BackOrder(g, room).refused = g.refused + (LeftOf(g) - k)
<1>0. /\ g.line \in [status : OrderStatuses, units : 0 .. Units]
      /\ g.line.status \in OrderStatuses /\ g.line.units \in 0 .. Units /\ g.line.units \in Nat
      /\ g.shelf \in Nat /\ g.refused \in Nat /\ g.twice \in BOOLEAN
      /\ Units \in Nat
  BY GoodsFields
<1>1. CASE g.line.status = "refunded"
  <2>1. BackOrder(g, room) = g /\ LeftOf(g) = 0
    BY <1>1 DEF BackOrder, LeftOf
  <2> QED
    BY <1>0, <1>1, <2>1
<1>2. CASE g.line.status # "refunded"
  <2> DEFINE n == g.line.units
             h == BackOrder(g, room)
  <2>1. PICK k \in 0 .. n : k = IF room THEN n ELSE 0
    BY <1>0
  <2>2. PICK a \in Nat, b \in Nat : a = g.shelf + k /\ b = g.refused + (n - k)
    BY <1>0, <2>1
  <2>3. PICK v : v = [status |-> "refunded", units |-> n]
    OBVIOUS
  <2>4. [g.line EXCEPT !.status = "refunded"] = v
    BY <1>0, <2>3
  <2>5. h = [line |-> v, shelf |-> a, refused |-> b, twice |-> g.twice]
    <3>1. h = [g EXCEPT !.line.status = "refunded",
                        !.shelf   = IF room THEN @ + n ELSE @,
                        !.refused = IF room THEN @ ELSE @ + n]
      BY <1>2 DEF BackOrder
    <3>2. /\ (IF room THEN g.shelf + n ELSE g.shelf) = a
          /\ (IF room THEN g.refused ELSE g.refused + n) = b
      BY <1>0, <2>1, <2>2
    <3>3. h = [line |-> [g.line EXCEPT !.status = "refunded"],
               shelf |-> IF room THEN g.shelf + n ELSE g.shelf,
               refused |-> IF room THEN g.refused ELSE g.refused + n, twice |-> g.twice]
      BY <3>1 DEF GoodsRecords
    <3> QED
      BY <2>4, <3>2, <3>3
  <2> HIDE DEF h
  <2>6. /\ h.line.status = "refunded" /\ h.line.units = n /\ h.shelf = a /\ h.refused = b
        /\ h.twice = g.twice
    BY <2>3, <2>5
  <2>7. LeftOf(h) = 0 /\ LeftOf(g) = n
    BY <1>2, <2>6 DEF LeftOf
  <2>8. h \in GoodsRecords
    <3>1. v \in [status : OrderStatuses, units : 0 .. Units]
      BY <1>0, <2>3 DEF OrderStatuses
    <3> QED
      BY <1>0, <2>5, <3>1 DEF GoodsRecords
  <2>9. Balanced(h)
    <3>1. g.twice \/ g.shelf + g.refused + n = Units
      BY <2>7 DEF Balanced
    <3> QED
      BY <1>0, <2>1, <2>2, <2>6, <2>7, <3>1 DEF Balanced
  <2> QED
    BY <2>1, <2>2, <2>6, <2>7, <2>8, <2>9 DEF h
<1> QED
  BY <1>1, <1>2

\* An order that is only named.
LEMMA BackPartFacts ==
    ASSUME NEW g \in GoodsRecords, Balanced(g)
    PROVE  /\ BackPart(g) \in GoodsRecords /\ Balanced(BackPart(g))
           /\ BackPart(g).line.status # "pending_refund"
           /\ BackPart(g).shelf = g.shelf /\ BackPart(g).refused = g.refused
           /\ BackPart(g).twice = g.twice /\ LeftOf(BackPart(g)) = LeftOf(g)
<1>1. CASE g.line.status = "refunded"
  BY <1>1 DEF BackPart
<1>2. CASE g.line.status # "refunded"
  <2>0. /\ g.line \in [status : OrderStatuses, units : 0 .. Units]
        /\ g.shelf \in Nat /\ g.refused \in Nat /\ g.twice \in BOOLEAN
    BY GoodsFields
  <2>1. PICK v : v = [g.line EXCEPT !.status = "partially_refunded"]
    OBVIOUS
  <2>2. /\ v \in [status : OrderStatuses, units : 0 .. Units]
        /\ v.status = "partially_refunded" /\ v.units = g.line.units
    BY <2>0, <2>1 DEF OrderStatuses
  <2>3. BackPart(g) = [line |-> v, shelf |-> g.shelf, refused |-> g.refused, twice |-> g.twice]
    BY <1>2, <2>1 DEF BackPart, GoodsRecords
  <2>4. BackPart(g) \in GoodsRecords
    BY <2>0, <2>2, <2>3 DEF GoodsRecords
  <2>5. BackPart(g).line = v /\ BackPart(g).shelf = g.shelf /\ BackPart(g).refused = g.refused
        /\ BackPart(g).twice = g.twice
    BY <2>3
  <2>6. LeftOf(BackPart(g)) = LeftOf(g)
    BY <1>2, <2>2, <2>5 DEF LeftOf
  <2> QED
    BY <1>2, <2>2, <2>4, <2>5, <2>6 DEF Balanced
<1> QED
  BY <1>1, <1>2

\* What a request with the associations l may put back.
Puts(l, g, h) ==
    \E n \in 0 .. Units :
        /\ \/ Moves(g, h, n)
           \/ MovesTwice(g, h, n) /\ (LeftOf(g) = 0 \/ (l.order > 0 /\ l.units > 0))
        /\ l.order = 0 => n <= l.units

\* The associations, one after the other.
LEMMA PutBack ==
    ASSUME NEW g \in GoodsRecords, Balanced(g), NEW l \in Links, NEW room \in BOOLEAN,
           NEW orderFirst \in BOOLEAN,
           NEW h, h = IF orderFirst THEN FinalizeUnits(l, FinalizeOrder(l, room, g))
                                    ELSE FinalizeOrder(l, room, FinalizeUnits(l, g))
    PROVE  /\ h \in GoodsRecords /\ Balanced(h) /\ Puts(l, g, h)
           /\ l.order > 0 \/ l.units > 0 => h.line.status # "pending_refund"
           /\ l.order = 0 /\ l.units = 0 => h = g
<1>0. /\ l.order \in 0 .. Units /\ l.units \in 0 .. Units /\ Units \in Nat
      /\ g.shelf \in Nat /\ g.refused \in Nat /\ LeftOf(g) \in Nat /\ LeftOf(g) <= Units
  BY LinkFields, GoodsFields
<1>1. CASE l.order = 0 /\ l.units = 0
  <2>1. h = g
    BY <1>1 DEF FinalizeUnits, FinalizeOrder
  <2>2. Moves(g, g, 0)
    BY <1>0 DEF Moves
  <2> QED
    BY <1>0, <1>1, <2>1, <2>2 DEF Puts
<1>2. CASE l.order > 0 /\ l.units = 0
  <2>1. h = BackOrder(g, room)
    BY <1>2 DEF FinalizeUnits, FinalizeOrder
  <2>2. /\ h \in GoodsRecords /\ Balanced(h) /\ h.line.status = "refunded"
        /\ h.twice = g.twice /\ LeftOf(h) = 0
    BY <2>1, BackOrderFacts
  <2>3. PICK k \in 0 .. LeftOf(g) : h.shelf = g.shelf + k /\ h.refused = g.refused + (LeftOf(g) - k)
    BY <2>1, BackOrderFacts
  <2>4. Moves(g, h, LeftOf(g))
    BY <1>0, <2>2, <2>3 DEF Moves
  <2> QED
    BY <1>0, <1>2, <2>2, <2>4 DEF Puts
<1>3. CASE l.order = 0 /\ l.units > 0
  <2>0. l.units \in 1 .. Units
    BY <1>0, <1>3
  <2>1. h = BackUnits(g, l.units)
    BY <1>3 DEF FinalizeUnits, FinalizeOrder
  <2>2. h \in GoodsRecords /\ Balanced(h) /\ h.line.status \in {"refunded", "partially_refunded"}
    BY <2>0, <2>1, BackUnitsFacts
  <2>3. PICK n \in 0 .. l.units : IF g.line.status = "refunded" THEN MovesTwice(g, h, n)
                                                                ELSE Moves(g, h, n)
    BY <2>0, <2>1, BackUnitsFacts
  <2>4. n \in 0 .. Units /\ n <= l.units
    BY <1>0
  <2>5. g.line.status = "refunded" => LeftOf(g) = 0
    BY DEF LeftOf
  <2> QED
    BY <1>3, <2>2, <2>3, <2>4, <2>5 DEF Puts
<1>4. CASE l.order > 0 /\ l.units > 0 /\ orderFirst
  <2> DEFINE m == BackOrder(g, room)
  <2>0. l.units \in 1 .. Units
    BY <1>0, <1>4
  <2>1. h = BackUnits(m, l.units)
    BY <1>4 DEF FinalizeUnits, FinalizeOrder
  <2>2. m \in GoodsRecords /\ Balanced(m) /\ m.line.status = "refunded" /\ LeftOf(m) = 0
    BY BackOrderFacts
  <2>3. PICK k \in 0 .. LeftOf(g) : m.shelf = g.shelf + k /\ m.refused = g.refused + (LeftOf(g) - k)
    BY BackOrderFacts
  <2> HIDE DEF m
  <2>4. h \in GoodsRecords /\ Balanced(h) /\ h.line.status = "refunded" /\ h.refused = m.refused
    BY <2>0, <2>1, <2>2, BackUnitsFacts
  <2>5. PICK n \in 0 .. l.units : MovesTwice(m, h, n) /\ h.shelf = m.shelf + n
    BY <2>0, <2>1, <2>2, BackUnitsFacts
  <2>6. MovesTwice(g, h, n)
    BY <1>0, <2>3, <2>4, <2>5 DEF MovesTwice
  <2>7. n \in 0 .. Units
    BY <1>0
  <2> QED
    BY <1>4, <2>4, <2>6, <2>7 DEF Puts
<1>5. CASE l.order > 0 /\ l.units > 0 /\ ~orderFirst
  <2> DEFINE m == BackUnits(g, l.units)
  <2>0. l.units \in 1 .. Units
    BY <1>0, <1>5
  <2>1. h = BackOrder(m, room)
    BY <1>5 DEF FinalizeUnits, FinalizeOrder
  <2>2. m \in GoodsRecords /\ Balanced(m) /\ m.refused = g.refused
        /\ (g.line.status = "refunded" => m.line.status = "refunded")
    BY <2>0, BackUnitsFacts
  <2>3. PICK n \in 0 .. l.units : /\ m.shelf = g.shelf + n
                                  /\ IF g.line.status = "refunded" THEN MovesTwice(g, m, n)
                                                                   ELSE Moves(g, m, n)
    BY <2>0, BackUnitsFacts
  <2> HIDE DEF m
  <2>4. h \in GoodsRecords /\ Balanced(h) /\ h.line.status = "refunded" /\ LeftOf(h) = 0
        /\ h.twice = m.twice
    BY <2>1, <2>2, BackOrderFacts
  <2>5. PICK k \in 0 .. LeftOf(m) : h.shelf = m.shelf + k /\ h.refused = m.refused + (LeftOf(m) - k)
    BY <2>1, <2>2, BackOrderFacts
  <2>6. CASE g.line.status = "refunded"
    <3>1. LeftOf(g) = 0 /\ LeftOf(m) = 0 /\ k = 0
      BY <2>2, <2>6 DEF LeftOf
    <3>2. h.shelf = m.shelf /\ h.refused = m.refused
      BY <1>0, <2>2, <2>3, <2>5, <3>1
    <3>3. MovesTwice(g, h, n)
      BY <1>0, <2>3, <2>4, <2>6, <3>1, <3>2 DEF MovesTwice
    <3>4. n \in 0 .. Units
      BY <1>0
    <3> QED
      BY <1>5, <2>4, <3>3, <3>4 DEF Puts
  <2>7. CASE g.line.status # "refunded"
    <3>1. Moves(g, m, n)
      BY <2>3, <2>7
    <3>2. /\ n <= LeftOf(g) /\ LeftOf(m) = LeftOf(g) - n /\ (m.twice <=> g.twice)
      BY <3>1 DEF Moves
    <3>3. n + k \in 0 .. LeftOf(g) /\ h.shelf = g.shelf + (n + k)
          /\ h.refused = g.refused + (LeftOf(g) - (n + k))
      BY <1>0, <2>2, <2>3, <2>5, <3>2
    <3>4. Moves(g, h, LeftOf(g))
      BY <1>0, <2>4, <3>2, <3>3 DEF Moves
    <3> QED
      BY <1>0, <1>5, <2>4, <3>4 DEF Puts
  <2> QED
    BY <2>6, <2>7
<1> QED
  BY <1>0, <1>1, <1>2, <1>3, <1>4, <1>5

\* What processing a request does to tickets, order and shelf.
LEMMA FinalizeFacts ==
    ASSUME RefundTypeOK, UnitsBalance, EmptyIsRefunded,
           NEW l \in Links, NEW n \in Named, Finalize(l, n)
    PROVE  /\ cancelled' = cancelled \cup l.tickets \cup ByName(n)
           /\ cancelled' \subseteq Attendees
           /\ order' \in [status : OrderStatuses, units : 0 .. Units]
           /\ restocked' \in Nat /\ refused' \in Nat /\ overlapped' \in BOOLEAN
           /\ UnitsBalance' /\ EmptyIsRefunded'
           /\ restocked' + refused' > 0 =>
                 restocked + refused > 0 \/ l.order > 0 \/ l.units > 0
           /\ order'.status = "pending_refund" =>
                 order' = order /\ l.order = 0 /\ l.units = 0
           /\ Puts(l, Goods, Goods')
<1>0. /\ Goods \in GoodsRecords
      /\ Goods.line = order /\ Goods.shelf = restocked /\ Goods.refused = refused
      /\ Goods.twice = overlapped
  BY DEF Goods, GoodsRecords, RefundTypeOK
<1>1. Balanced(Goods)
  BY <1>0 DEF Balanced, LeftOf, UnitsBalance, EmptyIsRefunded
<1>2. /\ cancelled' = cancelled \cup l.tickets \cup ByName(n)
      /\ cancelled' \subseteq Attendees
  BY LinkFields DEF Finalize, ByName, Named, RefundTypeOK
<1>3. PICK room \in BOOLEAN, orderFirst \in BOOLEAN :
          LET g == Finalized(l, n, room, orderFirst)
          IN  /\ order' = g.line /\ restocked' = g.shelf
              /\ refused' = g.refused /\ overlapped' = g.twice
  BY DEF Finalize
<1>4. PICK g : g = IF orderFirst THEN FinalizeUnits(l, FinalizeOrder(l, room, Goods))
                                 ELSE FinalizeOrder(l, room, FinalizeUnits(l, Goods))
  OBVIOUS
<1>5. /\ g \in GoodsRecords /\ Balanced(g) /\ Puts(l, Goods, g)
      /\ l.order > 0 \/ l.units > 0 => g.line.status # "pending_refund"
      /\ l.order = 0 /\ l.units = 0 => g = Goods
  BY <1>0, <1>1, <1>4, PutBack
<1>6. PICK h : h = FinalizeNamed(n, g)
  OBVIOUS
<1>7. /\ h \in GoodsRecords /\ Balanced(h) /\ LeftOf(h) = LeftOf(g)
      /\ h.shelf = g.shelf /\ h.refused = g.refused /\ h.twice = g.twice
      /\ h.line.status # "pending_refund" \/ h = g
  BY <1>5, <1>6, BackPartFacts DEF FinalizeNamed
<1>8. order' = h.line /\ restocked' = h.shelf /\ refused' = h.refused /\ overlapped' = h.twice
  BY <1>3, <1>4, <1>6 DEF Finalized
<1>9. /\ Goods'.line = h.line /\ Goods'.shelf = h.shelf /\ Goods'.refused = h.refused
      /\ Goods'.twice = h.twice /\ LeftOf(Goods') = LeftOf(g)
  BY <1>7, <1>8 DEF Goods, LeftOf
<1>10. Puts(l, Goods, Goods')
  BY <1>5, <1>7, <1>9 DEF Puts, Moves, MovesTwice
<1>11. /\ order' \in [status : OrderStatuses, units : 0 .. Units]
       /\ restocked' \in Nat /\ refused' \in Nat /\ overlapped' \in BOOLEAN
  BY <1>7, <1>8, GoodsFields
<1>12. UnitsBalance' /\ EmptyIsRefunded'
  BY <1>7, <1>8 DEF Balanced, LeftOf, UnitsBalance, EmptyIsRefunded
<1>13. restocked' + refused' > 0 => restocked + refused > 0 \/ l.order > 0 \/ l.units > 0
  <2>1. l.order = 0 /\ l.units = 0 => restocked' = restocked /\ refused' = refused
    BY <1>0, <1>5, <1>7, <1>8
  <2>2. l.order \in Nat /\ l.units \in Nat
    BY LinkFields, BaseType
  <2> QED
    BY <2>1, <2>2
<1>14. order'.status = "pending_refund" => order' = order /\ l.order = 0 /\ l.units = 0
  <2>1. l.order \in Nat /\ l.units \in Nat
    BY LinkFields, BaseType
  <2> QED
    BY <1>0, <1>5, <1>7, <1>8, <2>1
<1> QED
  BY <1>2, <1>10, <1>11, <1>12, <1>13, <1>14

-----------------------------------------------------------------------------
(* Refunds: one lemma per action.                                           *)

LEMMA StepCreateRead ==
    ASSUME RefundInv, NEW w \in Workers, NEW via \in {"refunds", "attendee"}, NEW c \in Offered,
           CreateRead(w, via, c)
    PROVE  RefundInv'
<1>1. PICK j \in Jobs : j = [op |-> "create", via |-> via, chosen |-> c, pay |-> payment]
  BY OfferedTypes, JobMakes DEF RefundInv, RefundTypeOK
<1>2. /\ SetJob(w, j) /\ j.op = "create"
      /\ UNCHANGED <<method, refundData, request, returned, rewritten, redirected, invalidated,
                     overlapped, offTrack>>
  BY <1>1 DEF CreateRead, refundHistory
<1>3. calls' \in 0 .. MaxCalls /\ offTrack' \in BOOLEAN
  BY <1>2, BoundAssumption DEF CreateRead, RefundInv, RefundTypeOK
<1> QED
  BY <1>2, <1>3, TurnKeeps DEF Reviews

LEMMA StepReviewRead ==
    ASSUME RefundInv, NEW w \in Workers, NEW op \in Reviews, NEW r \in Requests,
           ReviewRead(w, op, r)
    PROVE  RefundInv'
<1>0. Exists(r) /\ request[r] \in Rows /\ payment \in PaymentStatuses
  BY RowThere DEF RefundInv, ReviewRead, Wants, Reviews, RefundTypeOK
<1>1. PICK j \in Jobs : j = [op |-> op, via |-> "action", req |-> r, row |-> request[r],
                             pay |-> payment, paid |-> FALSE]
  BY <1>0, JobMakes
<1>2. /\ SetJob(w, j)
      /\ UNCHANGED <<method, refundData, request, returned, rewritten, redirected, invalidated,
                     overlapped, calls>>
      /\ j.row.status = Wants(j.op)
  BY <1>1 DEF ReviewRead
<1>3. /\ calls' \in 0 .. MaxCalls /\ offTrack' \in BOOLEAN /\ (offTrack => offTrack')
      /\ op # "process" => payment = "PENDING_REFUND" \/ offTrack'
  BY <1>2 DEF ReviewRead, RefundInv, RefundTypeOK
<1>4. /\ j.op \in Reviews /\ j.op = op /\ j.op \notin {"describe", "attach", "mark", "edit"}
      /\ j.req = r /\ j.row = request[r] /\ j.pay = payment /\ ~j.paid
  BY <1>1 DEF Reviews
<1> QED
  BY <1>0, <1>2, <1>3, <1>4, TurnKeeps

LEMMA StepPatchRead ==
    ASSUME RefundInv, NEW w \in Workers, NEW op \in Reviews \cup {"edit"}, NEW r \in Requests,
           PatchRead(w, op, r)
    PROVE  RefundInv'
<1>0. Exists(r) /\ request[r] \in Rows /\ payment \in PaymentStatuses
  BY RowThere DEF RefundInv, PatchRead, RefundTypeOK
<1>1. PICK j \in Jobs : j = [op |-> op, via |-> "patch", req |-> r, row |-> request[r],
                             pay |-> payment, paid |-> FALSE]
  BY <1>0, JobMakes
<1>2. /\ SetJob(w, j)
      /\ UNCHANGED <<method, refundData, request, returned, rewritten, redirected, invalidated,
                     overlapped, offTrack>>
      /\ j.op \in Reviews => j.row.status = Wants(j.op)
  BY <1>1 DEF PatchRead, refundHistory, Reviews
<1>3. calls' \in 0 .. MaxCalls /\ offTrack' \in BOOLEAN
  BY <1>2, BoundAssumption DEF PatchRead, RefundInv, RefundTypeOK
<1>4. /\ j.op \notin {"describe", "attach", "mark"} /\ j.via = "patch"
      /\ j.req = r /\ j.row = request[r] /\ j.pay = payment /\ ~j.paid
  BY <1>1 DEF Reviews
<1> QED
  BY <1>0, <1>2, <1>3, <1>4, TurnKeeps

LEMMA StepGiveUp ==
    ASSUME RefundInv, NEW w \in Workers, GiveUp(w)
    PROVE  RefundInv'
<1>1. PICK j \in Jobs : j = Idle
  BY JobMakes
<1>2. /\ SetJob(w, j) /\ j.op = "idle"
      /\ UNCHANGED <<method, refundData, request, returned, rewritten, redirected, invalidated,
                     overlapped, calls, offTrack>>
  BY <1>1 DEF GiveUp, refundHistory, Idle
<1>3. calls' \in 0 .. MaxCalls /\ offTrack' \in BOOLEAN
  BY <1>2 DEF RefundInv, RefundTypeOK
<1> QED
  BY <1>2, <1>3, TurnKeeps DEF Reviews

\* Whoever announces a request keeps an active one.
LEMMA AnnouncedIsActive ==
    ASSUME RefundInv, ~offTrack, NEW w \in Workers, Announces(w)
    PROVE  job[w].req \in Active /\ Unmarked(job[w].req) /\ job[w].req \in Requests
<1>1. Unmarked(job[w].req)
  BY DEF RefundInv, TrackInv, MarksInv
<1>2. job[w].req \in Requests
  <2>1. job[w] \in Jobs
    BY DEF RefundInv, RefundTypeOK
  <2> QED
    BY <2>1, JobFields DEF Announces
<1>3. WellKept(request[job[w].req])
  BY <1>1, <1>2, RowThere DEF RefundInv, RowsInv, CopyInv, Unmarked
<1> QED
  BY <1>1, <1>2, <1>3 DEF Unmarked, WellKept, Active

\* A new request, complete or yet to be described.
LEMMA NewRowStep ==
    ASSUME RefundInv, NEW w \in Workers, NEW r \in Requests, NEW c \in Selections,
           NEW row \in Rows, row.status = "PENDING", row.active = TRUE, row.chosen = c,
           row.key = 0, MadeFor(row.links, c), AsksFor(row.meta.names, c),
           request[r] = Absent, request' = [request EXCEPT ![r] = row],
           NEW k \in Jobs, SetJob(w, k),
           k.op = "idle" \/ (k.op = "describe" /\ k.req = r /\ k.chosen = c),
           UNCHANGED <<method, returned, rewritten, redirected>>
    PROVE  RowsInv' /\ request' \in [Requests -> Rows \cup {Absent, Gone}]
<1>0. /\ RefundTypeOK /\ job' \in [Workers -> Jobs] /\ job'[w] = k
      /\ \A x \in Workers : x # w => job'[x] = job[x]
  BY SetJobFacts DEF RefundInv
<1>1. /\ request' \in [Requests -> Rows \cup {Absent, Gone}] /\ request'[r] = row
      /\ \A q \in Requests : q # r => request'[q] = request[q]
  BY <1>0 DEF RefundTypeOK
<1>2. /\ \A x \in Workers : HasRow(x) => job[x].req # r
      /\ \A x \in Workers : Inserted(x) => job[x].req # r
      /\ \A x \in returned : x.req # r
  <2>1. Known(r) = {}
    BY DEF RefundInv, RowsInv, KnownInv
  <2>2. \A x \in returned : x.chosen \in Selections
    BY <1>0 DEF RefundTypeOK, Refunded
  <2>3. \A x \in Workers : HasRow(x) => job[x].row.chosen \in Selections
    BY ReviewFacts
  <2>4. \A x \in Workers : Inserted(x) => job[x].chosen \in Selections
    BY InsertedFacts
  <2> QED
    BY <2>1, <2>2, <2>3, <2>4 DEF Known
<1>3. \A x \in Workers : HasRow(x)' => HasRow(x) /\ job'[x] = job[x] /\ job[x].req # r
  BY <1>0, <1>2 DEF HasRow, Reviews
<1>4. \A x \in Workers : Inserted(x)' =>
          \/ Inserted(x) /\ job'[x] = job[x] /\ job[x].req # r
          \/ job'[x].req = r /\ job'[x].chosen = c
  BY <1>0, <1>2 DEF Inserted
<1>5. CopyInv'
  <2>1. \A q \in Requests : Exists(q)' => WellKept(request'[q])
    BY <1>1 DEF RefundInv, RowsInv, CopyInv, Exists, WellKept
  <2>2. \A x \in Workers : job'[x].op \in Reviews => HasRow(x)'
    BY DEF HasRow
  <2> QED
    BY <1>3, <2>1, <2>2 DEF RefundInv, RowsInv, CopyInv, WellKept
<1>6. KnownInv'
  <2>1. \A q \in Requests : q # r => Known(q)' \subseteq Known(q)
    BY <1>1, <1>3, <1>4 DEF Known, Exists
  <2>2. Known(r)' \subseteq {c}
    BY <1>1, <1>2, <1>3, <1>4 DEF Known, Exists
  <2>3. request'[r] # Absent
    BY <1>1 DEF Absent
  <2> QED
    BY <1>1, <2>1, <2>2, <2>3 DEF RefundInv, RowsInv, KnownInv
<1>7. AskedInv'
  BY <1>1, <1>3 DEF RefundInv, RowsInv, AskedInv, Exists, MadeFor, AsksFor
<1>8. KeyInv'
  BY <1>1, <1>2, <1>3 DEF RefundInv, RowsInv, KeyInv
<1>9. PaidInv'
  BY <1>1, <1>2, <1>3 DEF RefundInv, RowsInv, PaidInv, Paid
<1> QED
  BY <1>1, <1>5, <1>6, <1>7, <1>8, <1>9 DEF RowsInv

\* It is the only active one, and nobody reviews it yet.
LEMMA NewRowTrack ==
    ASSUME RefundInv, NEW w \in Workers, NEW r \in Requests, NEW row \in Rows,
           row.status = "PENDING", row.active = TRUE, request[r] = Absent, Active = {},
           request' = [request EXCEPT ![r] = row],
           NEW k \in Jobs, SetJob(w, k),
           k.op = "idle" \/ (k.op = "describe" /\ k.req = r /\ UNCHANGED payment),
           UNCHANGED <<offTrack, invalidated>>,
           order'.status = "pending_refund" =>
               \/ order.status = "pending_refund"
               \/ row.links.order > 0 \/ row.links.units > 0
    PROVE  TrackInv'
<1>0. /\ RefundTypeOK /\ job' \in [Workers -> Jobs] /\ job'[w] = k
      /\ \A x \in Workers : x # w => job'[x] = job[x]
  BY SetJobFacts DEF RefundInv
<1>1. /\ request'[r] = row /\ \A q \in Requests : q # r => request'[q] = request[q]
      /\ Active' = {r}
  BY <1>0 DEF RefundTypeOK, Active
<1>2. OneActive'
  BY <1>1 DEF OneActive
<1> SUFFICES ASSUME ~offTrack'
             PROVE  (Orderly /\ PaymentWaits /\ OrderWaits /\ ReadInTime /\ MarksInv)'
  BY <1>2 DEF TrackInv
<1>3. ~offTrack /\ Orderly /\ PaymentWaits /\ OrderWaits /\ ReadInTime /\ MarksInv
  BY DEF RefundInv, TrackInv
<1>4. payment # "PENDING_REFUND" /\ (order.status = "pending_refund" => invalidated)
  BY <1>3 DEF PaymentWaits, OrderWaits
<1>5. \A x \in Workers : HasRow(x)' => HasRow(x) /\ job'[x] = job[x] /\ job[x].req # r
  BY <1>0, ReviewFacts DEF HasRow, Reviews
<1>6. \A x \in Workers : Announces(x)' => x = w /\ k.op = "describe"
  <2>1. \A x \in Workers : ~Announces(x)
    BY <1>3, AnnouncedIsActive
  <2> QED
    BY <1>0, <2>1 DEF Announces
<1>7. Orderly'
  <2>1. request'[r] # Gone
    BY <1>1 DEF Gone
  <2> QED
    BY <1>1, <1>3, <2>1 DEF Orderly
<1>8. PaymentWaits'
  <2>1. \A x \in Workers : Reviewing(x, "process", "action")' => HasRow(x)'
    BY DEF Reviewing, HasRow, Reviews
  <2>2. ClosersWrite(r)'
    BY <1>5, <2>1 DEF ClosersWrite
  <2> QED
    BY <1>1, <2>2 DEF PaymentWaits
<1>9. OrderWaits'
  BY <1>1, <1>4 DEF OrderWaits, HoldsOrder
<1>10. ReadInTime'
  BY <1>0, <1>3 DEF ReadInTime, Reviewing
<1>11. MarksInv'
  <2>1. k.op = "describe" => Unmarked(r)'
    BY <1>1, <1>4, <1>5 DEF Unmarked
  <2> QED
    BY <1>0, <1>6, <2>1 DEF MarksInv
<1> QED
  BY <1>7, <1>8, <1>9, <1>10, <1>11

LEMMA NewRowFields ==
    ASSUME NEW c \in Selections
    PROVE  /\ NewRow(c) \in Rows /\ NewRow(c).status = "PENDING" /\ NewRow(c).active = TRUE
           /\ NewRow(c).chosen = c /\ NewRow(c).key = 0 /\ NewRow(c).links = NoLinks
           /\ NewRow(c).meta.names = NamesNone
<1>1. PICK none \in Metadata :
          none = [names |-> NamesNone, wasPayment |-> "none", wasOrder |-> "none"]
  BY NoMeaning DEF Metadata
<1>2. NewRow(c) = [status |-> "PENDING", active |-> TRUE, chosen |-> c, meta |-> none,
                   links |-> NoLinks, key |-> 0]
  BY <1>1 DEF NewRow
<1>3. NewRow(c) \in Rows
  BY <1>2, NoMeaning DEF Rows
<1> QED
  BY <1>1, <1>2, <1>3

LEMMA DescribedType ==
    ASSUME RefundTypeOK, NEW l, NEW c \in Selections, NEW p \in PaymentStatuses
    PROVE  Described(l, c, p) \in Metadata /\ Described(l, c, p).names = Names(c)
BY NoMeaning DEF Described, Metadata, RefundTypeOK

LEMMA StepCreateCommit ==
    ASSUME RefundInv, NEW w \in Workers, NEW r \in Requests, CreateCommit(w, r)
    PROVE  RefundInv'
<1>0. PICK j \in Jobs : j = job[w]
  BY DEF RefundInv, RefundTypeOK
<1>a. /\ j.op = "create" /\ j.pay \in PaymentStatuses /\ RefundTypeOK
      /\ request[r] = Absent /\ Active = {}
  BY <1>0, JobFields DEF CreateCommit, NextRow, RefundInv
<1>b. PICK c \in Selections : c = j.chosen
  BY <1>a, JobFields
<1>c. PICK m \in Metadata : m = Described(NoLinks, c, j.pay) /\ m.names = Names(c)
  BY <1>a, DescribedType
<1>d. PICK l \in Links : l = Attached(NoLinks, Names(c))
  BY <1>a, NoMeaning, AttachedFacts
<1>e. PICK row \in Rows :
          /\ row = [NewRow(c) EXCEPT !.meta = m, !.links = l]
          /\ row.status = "PENDING" /\ row.active = TRUE /\ row.chosen = c
          /\ row.key = 0 /\ row.meta = m /\ row.links = l
  <2>1. PICK new \in Rows :
            /\ new = NewRow(c)
            /\ new.status = "PENDING" /\ new.active = TRUE /\ new.chosen = c /\ new.key = 0
    BY NewRowFields
  <2>2. [new EXCEPT !.meta = m, !.links = l] \in Rows
    BY RowMakes
  <2>3. PICK row \in Rows : row = [new EXCEPT !.meta = m, !.links = l]
    BY <2>2
  <2>4. /\ row.status = new.status /\ row.active = new.active /\ row.chosen = new.chosen
        /\ row.key = new.key /\ row.meta = m /\ row.links = l
    BY <2>3 DEF Rows
  <2> QED
    BY <2>1, <2>3, <2>4
<1>g. MadeFor(l, c) /\ AsksFor(m.names, c)
  BY <1>a, <1>c, <1>d, NoMeaning, AttachedFacts
<1>h. PICK k \in Jobs : k = Idle /\ k.op = "idle"
  BY JobMakes DEF Idle
<1>i. /\ request' = [request EXCEPT ![r] = row] /\ SetJob(w, k)
      /\ BlockOrder(Adds(NoLinks, Names(c)))
      /\ payment' \in {payment, "PENDING_REFUND"}
      /\ UNCHANGED <<method, restocked, refused, cancelled, returned, calls, refundHistory>>
  BY <1>0, <1>b, <1>c, <1>d, <1>e, <1>h DEF CreateCommit, PaymentMoves
<1>j. UNCHANGED <<rewritten, redirected, invalidated, offTrack, overlapped>>
  BY <1>i DEF refundHistory
<1>k. /\ order' \in [status : OrderStatuses, units : 0 .. Units]
      /\ order'.units = order.units /\ (order'.status = "refunded" <=> order.status = "refunded")
      /\ order'.status = "pending_refund" =>
            order.status = "pending_refund" \/ l.order > 0 \/ l.units > 0
  <2>1. Adds(NoLinks, Names(c)) => l.order > 0 \/ l.units > 0
    BY <1>a, <1>d, NoMeaning, AttachedFacts
  <2> QED
    BY <1>a, <1>i, <2>1, BlockFacts
<1>1. RowsInv' /\ request' \in [Requests -> Rows \cup {Absent, Gone}]
  BY <1>a, <1>e, <1>g, <1>h, <1>i, <1>j, NewRowStep
<1>2. RefundTypeOK'
  <2>1. job' \in [Workers -> Jobs]
    BY <1>a, <1>i, SetJobFacts
  <2> QED
    BY <1>1, <1>a, <1>i, <1>j, <1>k, <2>1 DEF RefundTypeOK, PaymentStatuses
<1>3. TrackInv'
  BY <1>a, <1>e, <1>h, <1>i, <1>j, <1>k, NewRowTrack
<1>4. GoodsInv'
  BY <1>i, <1>j, <1>k, GoodsStay
<1> QED
  BY <1>1, <1>2, <1>3, <1>4 DEF RefundInv

LEMMA StepInsertRow ==
    ASSUME RefundInv, NEW w \in Workers, NEW r \in Requests, InsertRow(w, r)
    PROVE  RefundInv'
<1> USE DEF refundData
<1>0. PICK j \in Jobs : j = job[w]
  BY DEF RefundInv, RefundTypeOK
<1>a. /\ j.op = "create" /\ j.pay \in PaymentStatuses /\ RefundTypeOK
      /\ request[r] = Absent /\ Active = {}
  BY <1>0, JobFields DEF InsertRow, NextRow, RefundInv
<1>b. PICK c \in Selections : c = j.chosen
  BY <1>a, JobFields
<1>c. PICK row \in Rows : /\ row = NewRow(c) /\ row.status = "PENDING" /\ row.active = TRUE
                          /\ row.chosen = c /\ row.key = 0 /\ row.links = NoLinks
                          /\ row.meta.names = NamesNone
  BY NewRowFields
<1>d. PICK k \in Jobs : k = [op |-> "describe", req |-> r, chosen |-> c, pay |-> j.pay]
  BY <1>a, JobMakes
<1>e. k.op = "describe" /\ k.req = r /\ k.chosen = c
  BY <1>d
<1>f. /\ request' = [request EXCEPT ![r] = row] /\ SetJob(w, k)
      /\ UNCHANGED <<method, payment, order, restocked, refused, cancelled, returned, calls,
                     rewritten, redirected, invalidated, offTrack, overlapped>>
  BY <1>0, <1>b, <1>c, <1>d DEF InsertRow, refundHistory
<1>1. RowsInv' /\ request' \in [Requests -> Rows \cup {Absent, Gone}]
  <2>1. MadeFor(row.links, c) /\ AsksFor(row.meta.names, c)
    BY <1>c, NoMeaning
  <2> QED
    BY <1>a, <1>c, <1>e, <1>f, <2>1, NewRowStep
<1>2. RefundTypeOK'
  <2>1. job' \in [Workers -> Jobs]
    BY <1>a, <1>f, SetJobFacts
  <2> QED
    BY <1>1, <1>a, <1>f, <2>1 DEF RefundTypeOK
<1>3. TrackInv'
  BY <1>a, <1>c, <1>e, <1>f, NewRowTrack
<1>4. GoodsInv'
  BY <1>f, GoodsStay
<1> QED
  BY <1>1, <1>2, <1>3, <1>4 DEF RefundInv

\* The row that was inserted gets metadata and associations.
LEMMA OwnRowStep ==
    ASSUME RefundInv, NEW w \in Workers, Inserted(w),
           NEW r \in Requests, r = job[w].req, Exists(r),
           NEW row \in Rows, row.status = request[r].status, row.active = request[r].active,
           row.chosen = request[r].chosen, row.key = request[r].key,
           AsksFor(row.meta.names, row.chosen),
           MadeFor(request[r].links, row.chosen) => MadeFor(row.links, row.chosen),
           request' = [request EXCEPT ![r] = row],
           NEW k \in Jobs, SetJob(w, k),
           \/ k.op \in {"idle", "mark"}
           \/ k.op = "attach" /\ k.req = r /\ k.chosen = row.chosen,
           UNCHANGED <<method, returned, rewritten, redirected>>
    PROVE  /\ RowsInv' /\ request' \in [Requests -> Rows \cup {Absent, Gone}]
           /\ request'[r] = row /\ Active' = Active
           /\ \A q \in Requests : q # r => request'[q] = request[q]
<1>0. /\ RefundTypeOK /\ job' \in [Workers -> Jobs] /\ job'[w] = k
      /\ \A x \in Workers : x # w => job'[x] = job[x]
  BY SetJobFacts DEF RefundInv
<1>2. request[r] \in Rows /\ request[r].chosen = job[w].chosen /\ job[w].chosen \in Selections
  BY InsertedFacts
<1>4. /\ request' \in [Requests -> Rows \cup {Absent, Gone}] /\ request'[r] = row
      /\ \A q \in Requests : q # r => request'[q] = request[q]
  BY <1>0 DEF RefundTypeOK
<1>5. \A x \in Workers : HasRow(x)' => HasRow(x) /\ job'[x] = job[x]
  BY <1>0 DEF HasRow, Reviews
<1>6. \A x \in Workers : Inserted(x)' =>
          \/ Inserted(x) /\ job'[x] = job[x]
          \/ job'[x].req = r /\ job'[x].chosen = job[w].chosen
  BY <1>0, <1>2 DEF Inserted
<1>7. \A q \in Requests : (Exists(q)' <=> Exists(q)) /\ request'[q].status = request[q].status
                          /\ request'[q].active = request[q].active
                          /\ (Exists(q) => request'[q].chosen = request[q].chosen
                                           /\ request'[q].key = request[q].key)
  <2>1. Exists(r)' <=> Exists(r)
    BY <1>4 DEF Exists
  <2> QED
    BY <1>4, <2>1 DEF Exists
<1>8. CopyInv'
  BY <1>0, <1>5, <1>7 DEF RefundInv, RowsInv, CopyInv, HasRow, WellKept
<1>9. KnownInv'
  <2>1. \A q \in Requests : Known(q)' \subseteq Known(q)
    BY <1>2, <1>5, <1>6, <1>7 DEF Known
  <2>2. \A q \in Requests : request'[q] = Absent => request[q] = Absent
    BY <1>4, RowThere DEF Absent, Rows
  <2> QED
    BY <2>1, <2>2, KnownStays DEF RefundInv, RowsInv
<1>10. AskedInv'
  <2>1. ASSUME NEW q \in Requests, q \notin redirected, Exists(q)'
        PROVE  MadeFor(request[q].links, request[q].chosen)'
               /\ AsksFor(request[q].meta.names, request[q].chosen)'
    <3>1. MadeFor(request[q].links, request[q].chosen)
          /\ AsksFor(request[q].meta.names, request[q].chosen)
      BY <1>7, <2>1 DEF RefundInv, RowsInv, AskedInv
    <3>2. CASE q = r
      BY <1>2, <1>4, <3>1, <3>2 DEF MadeFor, AsksFor
    <3>3. CASE q # r
      BY <1>4, <3>1, <3>3 DEF MadeFor, AsksFor
    <3> QED
      BY <3>2, <3>3
  <2> QED
    BY <1>5, <2>1 DEF RefundInv, RowsInv, AskedInv, AsksFor
<1>11. KeyInv'
  BY <1>5, <1>7, RowThere DEF RefundInv, RowsInv, KeyInv
<1>12. PaidInv'
  BY <1>5, <1>7 DEF RefundInv, RowsInv, PaidInv, Paid
<1>13. Active' = Active
  BY <1>7 DEF Active
<1> QED
  BY <1>4, <1>8, <1>9, <1>10, <1>11, <1>12, <1>13 DEF RowsInv

\* Nobody else announces anything meanwhile, and the request is active still.
LEMMA OwnRowTrack ==
    ASSUME RefundInv, NEW w \in Workers, Inserted(w), NEW r \in Requests, r = job[w].req,
           Active' = Active, request'[r].status = request[r].status, request'[r].status # "deleted",
           \A q \in Requests : q # r => request'[q] = request[q],
           request[r].links.order > 0 => request'[r].links.order > 0,
           request[r].links.units > 0 => request'[r].links.units > 0,
           NEW k \in Jobs, SetJob(w, k),
           k.op = "idle" \/ (k.op \in {"attach", "mark"} /\ k.req = r),
           UNCHANGED <<payment, invalidated, offTrack>>,
           order'.status = "pending_refund" =>
               order.status = "pending_refund" \/ HoldsOrder(r)'
    PROVE  TrackInv'
<1>0. /\ RefundTypeOK /\ job' \in [Workers -> Jobs] /\ job'[w] = k
      /\ \A x \in Workers : x # w => job'[x] = job[x]
  BY SetJobFacts DEF RefundInv
<1>1. OneActive'
  BY DEF RefundInv, TrackInv, OneActive
<1> SUFFICES ASSUME ~offTrack'
             PROVE  (Orderly /\ PaymentWaits /\ OrderWaits /\ ReadInTime /\ MarksInv)'
  BY <1>1 DEF TrackInv
<1>2. ~offTrack /\ Orderly /\ PaymentWaits /\ OrderWaits /\ ReadInTime /\ MarksInv
  BY DEF RefundInv, TrackInv
<1>3. Announces(w) /\ r \in Active /\ Unmarked(r) /\ \A x \in Workers : Announces(x) => x = w
  <2>1. Announces(w)
    BY DEF Announces, Inserted
  <2> QED
    BY <1>2, <2>1, AnnouncedIsActive DEF MarksInv
<1>4. \A x \in Workers : HasRow(x)' => HasRow(x) /\ job'[x] = job[x]
  BY <1>0 DEF HasRow, Reviews
<1>5. Orderly'
  BY <1>2 DEF Orderly, Gone
<1>6. PaymentWaits'
  BY <1>2, <1>3 DEF PaymentWaits, Unmarked
<1>7. OrderWaits'
  <2>1. \A q \in Active : HoldsOrder(q) => HoldsOrder(q)'
    BY DEF HoldsOrder, Active
  <2> QED
    BY <1>2, <1>3, <2>1 DEF OrderWaits
<1>8. ReadInTime'
  BY <1>0, <1>2 DEF ReadInTime, Reviewing
<1>9. MarksInv'
  <2>1. \A x \in Workers : Announces(x)' => x = w
    BY <1>0, <1>3 DEF Announces
  <2>2. Unmarked(r)'
    BY <1>3, <1>4 DEF Unmarked
  <2>3. Announces(w)' => job'[w].req = r
    BY <1>0 DEF Announces
  <2> QED
    BY <2>1, <2>2, <2>3 DEF MarksInv
<1> QED
  BY <1>5, <1>6, <1>7, <1>8, <1>9

LEMMA StepDescribe ==
    ASSUME RefundInv, NEW w \in Workers, Describe(w)
    PROVE  RefundInv'
<1> USE DEF refundData
<1>0. PICK j \in Jobs : j = job[w]
  BY DEF RefundInv, RefundTypeOK
<1>a. /\ j.op = "describe" /\ Inserted(w) /\ RefundTypeOK
      /\ j.pay \in PaymentStatuses /\ j.chosen \in Selections
      /\ request[j.req] \in Rows /\ Exists(j.req)
  BY <1>0, InsertedFacts DEF Describe, Inserted, RefundInv
<1>b. PICK r \in Requests : r = j.req
  BY <1>0, <1>a, InsertedFacts
<1>c. PICK m \in Metadata :
          /\ m = [names |-> Names(j.chosen), wasPayment |-> "none", wasOrder |-> "none"]
          /\ AsksFor(m.names, j.chosen)
  <2>1. PICK n \in Named : n = Names(j.chosen) /\ AsksFor(n, j.chosen)
    BY <1>a, NoMeaning
  <2>2. [names |-> n, wasPayment |-> "none", wasOrder |-> "none"] \in Metadata
    BY DEF Metadata
  <2> QED
    BY <2>1, <2>2
<1>d. PICK l \in Links : l = request[r].links
  BY <1>a, <1>b, RowFields
<1>e. PICK row \in Rows :
          /\ row = [request[r] EXCEPT !.meta = m]
          /\ row.status = request[r].status /\ row.active = request[r].active
          /\ row.chosen = request[r].chosen /\ row.key = request[r].key
          /\ row.meta = m /\ row.links = l
  <2>1. [request[r] EXCEPT !.meta = m] \in Rows
    BY <1>a, <1>b DEF Rows
  <2> QED
    BY <1>a, <1>b, <1>d, <2>1 DEF Rows
<1>f. request' = [request EXCEPT ![r] = row] /\ row.chosen = j.chosen
  <2>1. request' = [request EXCEPT ![r].meta = m]
    BY <1>0, <1>b, <1>c DEF Describe
  <2>2. row.chosen = j.chosen
    BY <1>0, <1>a, <1>b, <1>e, InsertedFacts
  <2> QED
    BY <1>a, <1>e, <2>1, <2>2 DEF RefundTypeOK
<1>g. PICK k \in Jobs : k = [op |-> "attach", req |-> r, chosen |-> j.chosen, pay |-> j.pay]
  BY <1>a, JobMakes
<1>h. SetJob(w, k) /\ k.op = "attach" /\ k.req = r /\ k.chosen = j.chosen
  <2>1. [j EXCEPT !.op = "attach"] = k
    BY <1>a, <1>b, <1>g DEF Jobs, Idle, Reviews
  <2> QED
    BY <1>0, <1>g, <2>1 DEF Describe
<1>i. UNCHANGED <<method, payment, order, restocked, refused, cancelled, returned, calls,
                  rewritten, redirected, invalidated, offTrack, overlapped>>
  BY DEF Describe, refundHistory
<1>1. /\ RowsInv' /\ request' \in [Requests -> Rows \cup {Absent, Gone}]
      /\ request'[r].status = request[r].status /\ request'[r].links = l /\ Active' = Active
      /\ \A q \in Requests : q # r => request'[q] = request[q]
  <2>1. r = job[w].req /\ Exists(r) /\ AsksFor(row.meta.names, row.chosen)
        /\ (MadeFor(request[r].links, row.chosen) => MadeFor(row.links, row.chosen))
        /\ k.op = "attach" /\ k.req = r /\ k.chosen = row.chosen
    BY <1>0, <1>a, <1>b, <1>c, <1>d, <1>e, <1>f, <1>h
  <2>2. /\ RowsInv' /\ request' \in [Requests -> Rows \cup {Absent, Gone}]
        /\ request'[r] = row /\ Active' = Active
        /\ \A q \in Requests : q # r => request'[q] = request[q]
    BY <1>a, <1>e, <1>f, <1>h, <1>i, <2>1, OwnRowStep
  <2> QED
    BY <1>e, <2>2
<1>2. RefundTypeOK'
  <2>1. job' \in [Workers -> Jobs]
    BY <1>a, <1>h, SetJobFacts
  <2> QED
    BY <1>1, <1>a, <1>i, <2>1 DEF RefundTypeOK
<1>3. TrackInv'
  <2>1. request'[r].status # "deleted"
    BY <1>1, <1>a, <1>b DEF Exists
  <2> QED
    BY <1>0, <1>1, <1>a, <1>b, <1>d, <1>h, <1>i, <2>1, OwnRowTrack
<1>4. GoodsInv'
  BY <1>i, GoodsStay
<1> QED
  BY <1>1, <1>2, <1>3, <1>4 DEF RefundInv

LEMMA StepAttach ==
    ASSUME RefundInv, NEW w \in Workers, Attach(w)
    PROVE  RefundInv'
<1>0. PICK j \in Jobs : j = job[w]
  BY DEF RefundInv, RefundTypeOK
<1>a. /\ j.op = "attach" /\ Inserted(w) /\ RefundTypeOK
      /\ j.pay \in PaymentStatuses /\ request[j.req] \in Rows /\ Exists(j.req)
  BY <1>0, InsertedFacts DEF Attach, Inserted, RefundInv
<1>b. PICK r \in Requests, c \in Selections : r = j.req /\ c = j.chosen
  BY <1>0, <1>a, InsertedFacts
<1>c. PICK old \in Links : old = request[r].links /\ old = LinksOf(r)
  BY <1>a, <1>b, RowFields DEF LinksOf
<1>d. PICK m \in Metadata : m = Described(old, c, j.pay) /\ AsksFor(m.names, c)
  BY <1>a, DescribedType, NoMeaning
<1>e. PICK l \in Links : l = Attached(old, Names(c))
  BY <1>a, NoMeaning, AttachedFacts
<1>f. /\ MadeFor(old, c) => MadeFor(l, c)
      /\ old.order > 0 => l.order > 0
      /\ old.units > 0 => l.units > 0
      /\ Adds(old, Names(c)) => l.order > 0 \/ l.units > 0
  BY <1>a, <1>e, NoMeaning, AttachedFacts
<1>g. PICK row \in Rows :
          /\ row = [request[r] EXCEPT !.meta = m, !.links = l]
          /\ row.status = request[r].status /\ row.active = request[r].active
          /\ row.chosen = request[r].chosen /\ row.key = request[r].key
          /\ row.meta = m /\ row.links = l
  <2>1. [request[r] EXCEPT !.meta = m, !.links = l] \in Rows
    BY <1>a, <1>b, RowMakes
  <2> QED
    BY <1>a, <1>b, <2>1 DEF Rows
<1>h. request' = [request EXCEPT ![r] = row] /\ row.chosen = c
  <2>1. request' = [request EXCEPT ![r].meta = m, ![r].links = l]
    BY <1>0, <1>b, <1>c, <1>d, <1>e DEF Attach
  <2>2. row.chosen = c
    BY <1>0, <1>a, <1>b, <1>g, InsertedFacts
  <2> QED
    BY <1>a, <1>g, <2>1, <2>2 DEF RefundTypeOK
<1>i. PICK k \in Jobs : SetJob(w, k) /\ (k.op = "idle" \/ (k.op = "mark" /\ k.req = r))
  <2>1. Idle \in Jobs /\ Idle.op = "idle"
    BY JobMakes DEF Idle
  <2>2. [op |-> "mark", req |-> r, pay |-> j.pay] \in Jobs
    BY <1>a, JobMakes
  <2> QED
    BY <1>0, <1>b, <2>1, <2>2 DEF Attach
<1>j. /\ BlockOrder(Adds(old, Names(c)))
      /\ UNCHANGED <<method, payment, restocked, refused, cancelled, returned, calls,
                     rewritten, redirected, invalidated, offTrack, overlapped>>
  BY <1>0, <1>b, <1>c DEF Attach, refundHistory
<1>k. /\ order' \in [status : OrderStatuses, units : 0 .. Units]
      /\ order'.units = order.units /\ (order'.status = "refunded" <=> order.status = "refunded")
      /\ order'.status = "pending_refund" =>
            order.status = "pending_refund" \/ l.order > 0 \/ l.units > 0
  BY <1>a, <1>f, <1>j, BlockFacts
<1>1. /\ RowsInv' /\ request' \in [Requests -> Rows \cup {Absent, Gone}]
      /\ request'[r].status = request[r].status /\ request'[r].links = l /\ Active' = Active
      /\ \A q \in Requests : q # r => request'[q] = request[q]
  <2>1. r = job[w].req /\ Exists(r) /\ AsksFor(row.meta.names, row.chosen)
        /\ (MadeFor(request[r].links, row.chosen) => MadeFor(row.links, row.chosen))
        /\ k.op \in {"idle", "mark"}
    BY <1>0, <1>a, <1>b, <1>c, <1>d, <1>f, <1>g, <1>h, <1>i
  <2>2. /\ RowsInv' /\ request' \in [Requests -> Rows \cup {Absent, Gone}]
        /\ request'[r] = row /\ Active' = Active
        /\ \A q \in Requests : q # r => request'[q] = request[q]
    BY <1>a, <1>g, <1>h, <1>i, <1>j, <2>1, OwnRowStep
  <2> QED
    BY <1>g, <2>2
<1>2. RefundTypeOK'
  <2>1. job' \in [Workers -> Jobs]
    BY <1>a, <1>i, SetJobFacts
  <2> QED
    BY <1>1, <1>a, <1>j, <1>k, <2>1 DEF RefundTypeOK
<1>3. TrackInv'
  <2>1. request'[r].status # "deleted"
    BY <1>1, <1>a, <1>b DEF Exists
  <2>2. HoldsOrder(r)' <=> l.order > 0 \/ l.units > 0
    BY <1>1 DEF HoldsOrder
  <2> QED
    BY <1>0, <1>1, <1>a, <1>b, <1>c, <1>f, <1>i, <1>j, <1>k, <2>1, <2>2, OwnRowTrack
<1>4. GoodsInv'
  BY <1>j, <1>k, GoodsStay
<1> QED
  BY <1>1, <1>2, <1>3, <1>4 DEF RefundInv

LEMMA StepMarkPayment ==
    ASSUME RefundInv, NEW w \in Workers, MarkPayment(w)
    PROVE  RefundInv'
<1>0. PICK j \in Jobs : j = Idle /\ j.op = "idle"
  BY JobMakes DEF Idle
<1>a. /\ SetJob(w, j)
      /\ UNCHANGED <<method, order, restocked, refused, cancelled, request, returned, calls,
                     rewritten, redirected, invalidated, offTrack, overlapped>>
      /\ payment' \in {payment, "PENDING_REFUND"} /\ Announces(w)
  BY <1>0 DEF MarkPayment, PaymentMoves, refundHistory, Announces
<1>b. /\ job' \in [Workers -> Jobs] /\ job'[w] = j /\ \A x \in Workers : x # w => job'[x] = job[x]
      /\ RefundTypeOK
  BY <1>a, SetJobFacts DEF RefundInv
<1>1. RefundTypeOK'
  BY <1>a, <1>b DEF RefundTypeOK, PaymentStatuses
<1>2. RowsInv'
  BY <1>0, <1>a, TurnStep DEF Reviews
<1>3. TrackInv'
  <2>1. OneActive' /\ Active' = Active
    BY <1>a DEF RefundInv, TrackInv, OneActive, Active
  <2> SUFFICES ASSUME ~offTrack'
               PROVE  (Orderly /\ PaymentWaits /\ OrderWaits /\ ReadInTime /\ MarksInv)'
    BY <2>1 DEF TrackInv
  <2>2. ~offTrack /\ Orderly /\ PaymentWaits /\ OrderWaits /\ ReadInTime /\ MarksInv
    BY <1>a DEF RefundInv, TrackInv
  <2>3. Orderly' /\ OrderWaits'
    BY <1>a, <2>1, <2>2 DEF Orderly, OrderWaits, HoldsOrder
  <2>4. PaymentWaits'
    <3>1. PICK r \in Active : r = job[w].req /\ Unmarked(r)
      BY <1>a, <2>2, AnnouncedIsActive
    <3>2. \A x \in Workers : job'[x].op = "process" => job'[x] = job[x]
      BY <1>0, <1>b
    <3>3. ClosersWrite(r)'
      BY <3>1, <3>2 DEF Unmarked, ClosersWrite, Reviewing, HasRow, Reviews
    <3> QED
      BY <2>1, <3>1, <3>3 DEF PaymentWaits
  <2>5. ReadInTime'
    BY <1>0, <1>b, <2>2 DEF ReadInTime, Reviewing
  <2>6. MarksInv'
    <3>1. \A x \in Workers : ~Announces(x)'
      BY <1>0, <1>a, <1>b, <2>2 DEF MarksInv, Announces
    <3> QED
      BY <3>1 DEF MarksInv
  <2> QED
    BY <2>3, <2>4, <2>5, <2>6
<1>4. GoodsInv'
  BY <1>a, GoodsStay
<1> QED
  BY <1>1, <1>2, <1>3, <1>4 DEF RefundInv

LEMMA StepAskStripe ==
    ASSUME RefundInv, NEW w \in Workers, AskStripe(w)
    PROVE  RefundInv'
<1>0. PICK j \in Jobs : j = job[w]
  BY DEF RefundInv, RefundTypeOK
<1>a. /\ HasRow(w) /\ j.op = "verify" /\ j.req \in Requests /\ j.row \in Rows
      /\ j.row.status = "PENDING" /\ j.row.key \in Nat /\ j.row.chosen \in Selections
      /\ j.row.chosen \in Known(j.req)
  <2>1. HasRow(w) /\ j.op = "verify"
    BY <1>0 DEF AskStripe, HasRow, Reviews
  <2> QED
    BY <1>0, <2>1, ReviewFacts, RowFields DEF Reviews, Wants
<1>b. PICK new \in Refunded : new = [req |-> j.req, key |-> j.row.key, chosen |-> j.row.chosen]
  BY <1>a DEF Refunded
<1>c. PICK k \in Jobs : k = [j EXCEPT !.paid = TRUE]
  <2>1. [j EXCEPT !.paid = TRUE] \in Jobs
    BY <1>a DEF Jobs, Idle, Reviews
  <2> QED
    BY <2>1
<1>d. /\ k.op = "verify" /\ k.via = j.via /\ k.req = j.req /\ k.row = j.row /\ k.pay = j.pay
      /\ k.paid = TRUE
  BY <1>a, <1>c DEF Jobs, Idle, Reviews
<1>e. /\ returned' = returned \cup {new} /\ SetJob(w, k)
      /\ UNCHANGED <<method, payment, order, restocked, refused, cancelled, request, calls,
                     rewritten, redirected, invalidated, offTrack, overlapped>>
  BY <1>0, <1>b, <1>c DEF AskStripe, IdempotencyKey, refundData, refundHistory
<1>f. /\ RefundTypeOK /\ job' \in [Workers -> Jobs] /\ job'[w] = k
      /\ \A x \in Workers : x # w => job'[x] = job[x]
  BY <1>e, SetJobFacts DEF RefundInv
<1>g. \A x \in Workers :
         /\ job'[x].op = job[x].op
         /\ ~HasRow(x) => job'[x] = job[x]
         /\ HasRow(x) => /\ job'[x].req = job[x].req /\ job'[x].row = job[x].row
                         /\ job'[x].via = job[x].via /\ job'[x].pay = job[x].pay
  BY <1>0, <1>a, <1>d, <1>f
<1>k. \A x \in Workers : /\ HasRow(x)' <=> HasRow(x)
                         /\ Inserted(x)' <=> Inserted(x)
                         /\ Announces(x)' <=> Announces(x)
                         /\ Inserted(x) \/ Announces(x) => ~HasRow(x)
  BY <1>g DEF HasRow, Inserted, Announces, Reviews
<1>h. new.req = j.req /\ new.key = j.row.key /\ new.chosen = j.row.chosen
  BY <1>b
<1>1. RefundTypeOK'
  BY <1>e, <1>f DEF RefundTypeOK
<1>2. CopyInv'
  BY <1>e, <1>g, <1>k DEF RefundInv, RowsInv, CopyInv, WellKept, HasRow, Exists
<1>3. KnownInv'
  <2>1. \A q \in Requests : Known(q)' \subseteq Known(q)
    BY <1>a, <1>e, <1>g, <1>h, <1>k DEF Known, Exists
  <2> QED
    BY <1>e, <2>1, KnownStays DEF RefundInv, RowsInv
<1>4. AskedInv'
  BY <1>e, <1>g, <1>k DEF RefundInv, RowsInv, AskedInv, Exists, MadeFor, AsksFor
<1>5. KeyInv'
  <2>1. j.req \notin rewritten => new.key = 0
    BY <1>0, <1>a, <1>h DEF RefundInv, RowsInv, KeyInv
  <2> QED
    BY <1>e, <1>g, <1>h, <1>k, <2>1 DEF RefundInv, RowsInv, KeyInv
<1>6. PaidInv'
  <2>1. IsFiniteSet(returned')
    BY <1>e, FS_AddElement DEF RefundInv, RowsInv, PaidInv
  <2>2. Paid' = Paid \cup {j.req}
    BY <1>e, <1>h DEF Paid
  <2>3. \A x \in Workers : HasRow(x)' /\ job'[x].paid =>
            job'[x].req = j.req \/ (HasRow(x) /\ job[x].paid /\ job'[x] = job[x])
    BY <1>d, <1>f DEF HasRow
  <2> QED
    BY <1>e, <1>g, <1>k, <2>1, <2>2, <2>3 DEF RefundInv, RowsInv, PaidInv
<1>7. TrackInv'
  <2>1. OneActive' /\ Active' = Active
    BY <1>e DEF RefundInv, TrackInv, OneActive, Active
  <2>2. (Orderly => Orderly') /\ (OrderWaits => OrderWaits')
    BY <1>e, <2>1 DEF Orderly, OrderWaits, HoldsOrder
  <2>3. (PaymentWaits => PaymentWaits') /\ (ReadInTime => ReadInTime')
    <3>1. \A x \in Workers : HasRow(x) \/ job[x].op \notin {"verify", "process", "reject"}
      BY DEF HasRow, Reviews
    <3>2. \A r \in Active : ClosersWrite(r) => ClosersWrite(r)'
      BY <1>g, <3>1 DEF ClosersWrite, Reviewing
    <3>3. ReadInTime => ReadInTime'
      BY <1>g, <3>1 DEF ReadInTime, Reviewing
    <3> QED
      BY <1>e, <2>1, <3>2, <3>3 DEF PaymentWaits
  <2>4. MarksInv => MarksInv'
    <3>1. \A r \in Requests : Unmarked(r) => Unmarked(r)'
      BY <1>e, <1>g, <1>k DEF Unmarked
    <3>2. \A x \in Workers : Announces(x) => job[x].req \in Requests
      BY <1>f, JobFields DEF RefundTypeOK, Announces
    <3> QED
      BY <1>g, <1>k, <3>1, <3>2 DEF MarksInv
  <2> QED
    BY <1>e, <2>1, <2>2, <2>3, <2>4 DEF RefundInv, TrackInv
<1>8. RefundedIsReturned'
  <2>1. returned' \in SUBSET Refunded /\ IsFiniteSet(returned') /\ returned \in SUBSET returned'
    BY <1>e, <1>f, FS_AddElement DEF RefundInv, RowsInv, PaidInv, RefundTypeOK
  <2>2. /\ Total(returned) \in Nat /\ Total(returned') \in Nat /\ Total(returned) <= Total(returned')
        /\ AtStripe = Total(returned) /\ AtStripe' = Total(returned')
    BY <2>1, TotalMonotonic, ReturnedSoFar
  <2>3. Base' = Base /\ Base \in Nat
    BY BaseType DEF Base
  <2> QED
    BY <1>e, <2>2, <2>3 DEF RefundInv, GoodsInv, RefundedIsReturned
<1>9. UnitsBalance' /\ EmptyIsRefunded' /\ TakenIsReturned'
  BY <1>e DEF RefundInv, GoodsInv, UnitsBalance, EmptyIsRefunded, TakenIsReturned
<1> QED
  BY <1>1, <1>2, <1>3, <1>4, <1>5, <1>6, <1>7, <1>8, <1>9 DEF RefundInv, RowsInv, GoodsInv

\* What a saved review leaves of the others.
LEMMA SavedFacts ==
    ASSUME RefundInv, NEW w \in Workers, HasRow(w), NEW row \in Rows, NEW l \in Links,
           Save(job[w].req, row, l), SetJob(w, Idle)
    PROVE  /\ RefundTypeOK /\ job' \in [Workers -> Jobs]
           /\ \A x \in Workers : HasRow(x)' => HasRow(x) /\ x # w /\ job'[x] = job[x]
           /\ \A x \in Workers : Announces(x)' => Announces(x) /\ x # w /\ job'[x] = job[x]
           /\ \A r \in Requests : ClosersWrite(r) => ClosersWrite(r)'
           /\ Active \ {job[w].req} \subseteq Active'
           /\ OneActive'
<1>1. /\ RefundTypeOK /\ job' \in [Workers -> Jobs] /\ job'[w] = Idle
      /\ \A x \in Workers : x # w => job'[x] = job[x]
  BY JobMakes, SetJobFacts DEF RefundInv
<1>2. /\ \A x \in Workers : HasRow(x)' => HasRow(x) /\ x # w /\ job'[x] = job[x]
      /\ \A x \in Workers : Announces(x)' => Announces(x) /\ x # w /\ job'[x] = job[x]
  BY <1>1 DEF HasRow, Announces, Idle, Reviews
<1>3. \A r \in Requests : ClosersWrite(r) => ClosersWrite(r)'
  <2>1. \A x \in Workers : Reviewing(x, "process", "action")' => x # w
    BY <1>1 DEF Reviewing, Idle
  <2> QED
    BY <1>1, <2>1 DEF ClosersWrite, Reviewing
<1>4. /\ \A q \in Requests : q # job[w].req => request'[q] = request[q]
      /\ request'[job[w].req].active = row.active
      /\ row.active => \A q \in Requests : request[q].active => q = job[w].req
  BY <1>1, ReviewFacts, SaveFacts
<1>5. Active \ {job[w].req} \subseteq Active'
  BY <1>4 DEF Active
<1>6. OneActive'
  BY <1>4 DEF RefundInv, TrackInv, OneActive, Active
<1> QED
  BY <1>1, <1>2, <1>3, <1>5, <1>6

LEMMA SaveTrack ==
    ASSUME RefundInv, NEW w \in Workers, HasRow(w), NEW row \in Rows, NEW l \in Links,
           Save(job[w].req, row, l), SetJob(w, Idle), ~offTrack,
           payment' = "PENDING_REFUND" => payment = "PENDING_REFUND",
           Unmarked(job[w].req) => row.status = "PENDING"
    PROVE  Orderly' /\ ReadInTime' /\ MarksInv'
<1>0. ReadInTime /\ MarksInv /\ Orderly
  BY DEF RefundInv, TrackInv
<1>1. /\ RefundTypeOK
      /\ \A x \in Workers : HasRow(x)' => HasRow(x) /\ x # w /\ job'[x] = job[x]
      /\ \A x \in Workers : Announces(x)' => Announces(x) /\ x # w /\ job'[x] = job[x]
  BY SavedFacts
<1>2. /\ \A q \in Requests : q # job[w].req => request'[q] = request[q]
      /\ request'[job[w].req].status = row.status /\ request'[job[w].req] \in Rows
      /\ job[w].req \in Requests
  BY <1>1, ReviewFacts, SaveFacts
<1>3. Orderly'
  BY <1>0, <1>2 DEF Orderly, Gone, Rows
<1>4. ReadInTime'
  <2>1. \A x \in Workers : Reviewing(x, "verify", "action")' \/ Reviewing(x, "reject", "action")' =>
            HasRow(x)'
    BY DEF Reviewing, HasRow, Reviews
  <2> QED
    BY <1>0, <1>1, <2>1 DEF ReadInTime, Reviewing
<1>5. MarksInv'
  <2>1. ASSUME NEW x \in Workers, Announces(x)' PROVE Unmarked(job[x].req)'
    <3>1. Unmarked(job[x].req) /\ job'[x] = job[x]
      BY <1>0, <1>1, <2>1 DEF MarksInv
    <3>2. PICK q \in Requests : q = job[x].req
      <4>1. job[x] \in Jobs /\ Announces(x)
        BY <1>1, <2>1 DEF RefundTypeOK
      <4> QED
        BY <4>1, JobFields DEF Announces
    <3>3. request'[q].status = "PENDING"
      BY <1>2, <3>1, <3>2 DEF Unmarked
    <3> QED
      BY <1>1, <3>1, <3>2, <3>3 DEF Unmarked
  <2> QED
    BY <1>0, <1>1, <2>1 DEF MarksInv
<1> QED
  BY <1>3, <1>4, <1>5

\* What a request that PATCH did not redirect is associated with is what it was made for.
LEMMA LinksMadeFor ==
    ASSUME RefundInv, NEW w \in Workers, HasRow(w), job[w].req \notin redirected
    PROVE  /\ MadeFor(LinksOf(job[w].req), job[w].row.chosen)
           /\ AsksFor(job[w].row.meta.names, job[w].row.chosen)
<1>1. PICK r \in Requests : r = job[w].req
  BY ReviewFacts
<1>2. AsksFor(job[w].row.meta.names, job[w].row.chosen)
  BY <1>1 DEF RefundInv, RowsInv, AskedInv
<1>3. CASE Exists(r)
  <2>1. request[r].chosen \in Known(r)
    BY <1>3, RowThere, RowFields DEF RefundInv, Known
  <2>2. request[r].chosen = job[w].row.chosen
    BY <1>1, <2>1, ReviewFacts
  <2>3. MadeFor(request[r].links, request[r].chosen)
    BY <1>1, <1>3 DEF RefundInv, RowsInv, AskedInv
  <2> QED
    BY <1>1, <1>2, <1>3, <2>2, <2>3 DEF LinksOf
<1>4. CASE ~Exists(r)
  BY <1>1, <1>2, <1>4, NoMeaning DEF LinksOf
<1> QED
  BY <1>3, <1>4

LEMMA StepVerify ==
    ASSUME RefundInv, NEW w \in Workers, Verify(w)
    PROVE  RefundInv'
<1>0. PICK j \in Jobs : j = job[w]
  BY DEF RefundInv, RefundTypeOK
<1>a. /\ HasRow(w) /\ j.op = "verify" /\ j.via = "action"
      /\ j.req \in Requests /\ j.row \in Rows /\ j.pay \in PaymentStatuses
      /\ WellKept(j.row) /\ j.row.status = "PENDING" /\ request[j.req] # Absent
      /\ j.row.chosen \in Known(j.req) /\ j.row.chosen \in Selections
  <2>1. HasRow(w) /\ j.op = "verify" /\ j.via = "action"
    BY <1>0 DEF Verify, Reviewing, HasRow, Reviews
  <2> QED
    BY <1>0, <2>1, ReviewFacts DEF Reviews, Wants
<1>b. PICK row \in Rows :
          /\ row = Verified(j)
          /\ row.chosen = j.row.chosen /\ row.meta = j.row.meta
          /\ row.status = "VERIFIED" /\ row.active = j.row.active
  BY <1>a, NewRows
<1>c. PICK n \in Named, old \in Links : n = j.row.meta.names /\ old = LinksOf(j.req)
  <2>1. RefundTypeOK
    BY DEF RefundInv
  <2> QED
    BY <1>a, <2>1, RowFields, MetaFields, LinksOfType
<1>d. PICK l \in Links : l = Attached(old, n)
  BY AttachedFacts DEF RefundInv
<1>e. /\ Save(j.req, row, l) /\ SetJob(w, Idle) /\ BlockOrder(Touches(l, n))
      /\ PaymentMoves(j.pay, "PENDING_REFUND") \/ PaymentMoves(j.pay, "PARTIALLY_REFUNDED")
      /\ UNCHANGED <<method, restocked, refused, cancelled, returned, calls, rewritten, redirected,
                     invalidated, offTrack, overlapped>>
  BY <1>0, <1>b, <1>c, <1>d DEF Verify, refundHistory
<1>f. /\ RefundTypeOK /\ job' \in [Workers -> Jobs] /\ OneActive'
      /\ \A r \in Requests : ClosersWrite(r) => ClosersWrite(r)'
  BY <1>0, <1>a, <1>e, SavedFacts
<1>g. /\ request' \in [Requests -> Rows \cup {Absent, Gone}]
      /\ \A q \in Requests : q # j.req => request'[q] = request[q]
      /\ request'[j.req].active = row.active /\ request'[j.req].links = l
      /\ row.active => \A q \in Requests : request[q].active => q = j.req
  BY <1>a, <1>e, <1>f, SaveFacts
<1>h. /\ order' \in [status : OrderStatuses, units : 0 .. Units]
      /\ order'.units = order.units /\ (order'.status = "refunded" <=> order.status = "refunded")
      /\ order'.status = "pending_refund" =>
            order.status = "pending_refund" \/ (Touches(l, n) /\ order.status # "refunded")
  BY <1>e, <1>f, BlockFacts
<1>i. payment' \in {payment, "PENDING_REFUND", "PARTIALLY_REFUNDED"}
  BY <1>e DEF PaymentMoves
<1>1. RefundTypeOK'
  BY <1>e, <1>f, <1>g, <1>h, <1>i DEF RefundTypeOK, PaymentStatuses
<1>2. RowsInv'
  <2>1. WellKept(row)
    BY <1>a, <1>b DEF WellKept
  <2>2. method = "stripe" => j.req \in Paid
    BY <1>0, <1>a DEF Verify, Ready, RefundInv, RowsInv, PaidInv
  <2>3. j.req \notin redirected => MadeFor(l, row.chosen)
    <3> SUFFICES ASSUME j.req \notin redirected
                 PROVE  MadeFor(l, row.chosen)
      OBVIOUS
    <3>1. AsksFor(n, j.row.chosen) /\ MadeFor(old, j.row.chosen)
      BY <1>0, <1>a, <1>c, LinksMadeFor
    <3> QED
      BY <1>a, <1>b, <1>d, <1>f, <3>1, AttachedFacts
  <2>4. redirected \subseteq rewritten
    BY DEF RefundInv, RowsInv, AskedInv
  <2> QED
    BY <1>0, <1>a, <1>b, <1>e, <2>1, <2>2, <2>3, <2>4, SaveStep
<1>3. TrackInv'
  <2> SUFFICES ASSUME ~offTrack'
               PROVE  (Orderly /\ PaymentWaits /\ OrderWaits /\ ReadInTime /\ MarksInv)'
    BY <1>f DEF TrackInv
  <2>1. ~offTrack /\ PaymentWaits /\ OrderWaits /\ ReadInTime
    BY <1>e DEF RefundInv, TrackInv
  <2>2. row.active /\ j.req \in Active' /\ Active \subseteq {j.req}
    BY <1>a, <1>b, <1>g DEF WellKept, Active
  <2>3. payment' = "PENDING_REFUND" => payment = "PENDING_REFUND"
    <3>1. j.pay = "PENDING_REFUND"
      BY <1>0, <1>a, <2>1 DEF ReadInTime, Reviewing
    <3> QED
      BY <1>e, <3>1 DEF PaymentMoves
  <2>4. ~Unmarked(j.req)
    BY <1>0, <1>a DEF Unmarked
  <2>5. (Orderly /\ ReadInTime /\ MarksInv)'
    BY <1>0, <1>a, <1>e, <2>1, <2>3, <2>4, SaveTrack
  <2>6. PaymentWaits'
    BY <1>f, <2>1, <2>2, <2>3 DEF PaymentWaits, Active
  <2>7. OrderWaits'
    <3> SUFFICES ASSUME order'.status = "pending_refund", ~invalidated
                 PROVE  l.order > 0 \/ l.units > 0
      BY <1>e, <1>g, <2>2 DEF OrderWaits, HoldsOrder
    <3>1. CASE order.status = "pending_refund"
      <4>1. PICK r \in Active : HoldsOrder(r)
        BY <2>1, <3>1 DEF OrderWaits
      <4>2. r = j.req /\ Exists(r)
        BY <1>f, <2>2, <4>1, RowThere DEF Active
      <4>3. old = request[r].links
        BY <1>c, <4>2 DEF LinksOf
      <4> QED
        BY <1>d, <1>f, <4>1, <4>3, AttachedFacts DEF HoldsOrder
    <3>2. CASE order.status # "pending_refund"
      <4>1. Touches(l, n) /\ order.status # "refunded"
        BY <1>h, <3>2
      <4>2. order.units > 0
        <5>1. order.units # 0
          BY <4>1 DEF RefundInv, GoodsInv, EmptyIsRefunded
        <5>2. order.units \in Nat
          BY <1>f, UnitsAssumption DEF RefundTypeOK
        <5> QED
          BY <5>1, <5>2
      <4> QED
        BY <1>d, <1>f, <4>1, <4>2, AttachedFacts
    <3> QED
      BY <3>1, <3>2
  <2> QED
    BY <2>5, <2>6, <2>7
<1>4. GoodsInv'
  BY <1>e, <1>h, <1>i, GoodsStay
<1> QED
  BY <1>1, <1>2, <1>3, <1>4 DEF RefundInv

\* Whoever waited for the order is somebody else than a request without it.
LEMMA OthersWait ==
    ASSUME RefundInv, NEW r \in Requests, ~offTrack, order.status = "pending_refund",
           LinksOf(r).order = 0, LinksOf(r).units = 0,
           \A q \in Requests : q # r => request'[q] = request[q],
           Active \ {r} \subseteq Active', invalidated' = invalidated
    PROVE  OrderWaits'
<1> SUFFICES ASSUME ~invalidated
             PROVE  \E q \in Active' : HoldsOrder(q)'
  BY DEF OrderWaits
<1>1. PICK q \in Active : HoldsOrder(q)
  BY DEF RefundInv, TrackInv, OrderWaits
<1>2. q # r
  <2>1. Exists(q)
    BY <1>1, RowThere DEF RefundInv, Active
  <2> QED
    BY <1>1, <2>1 DEF HoldsOrder, LinksOf
<1> QED
  BY <1>1, <1>2 DEF HoldsOrder, Active

LEMMA StepProcess ==
    ASSUME RefundInv, NEW w \in Workers, Process(w)
    PROVE  RefundInv'
<1>0. PICK j \in Jobs : j = job[w]
  BY DEF RefundInv, RefundTypeOK
<1>a. /\ HasRow(w) /\ j.op = "process" /\ j.via = "action"
      /\ j.req \in Requests /\ j.row \in Rows /\ j.pay \in PaymentStatuses
      /\ WellKept(j.row) /\ j.row.status = "VERIFIED" /\ request[j.req] # Absent
      /\ j.row.chosen \in Known(j.req) /\ j.row.chosen \in Selections
  <2>1. HasRow(w) /\ j.op = "process" /\ j.via = "action"
    BY <1>0 DEF Process, Reviewing, HasRow, Reviews
  <2> QED
    BY <1>0, <2>1, ReviewFacts DEF Reviews, Wants
<1>b. PICK row \in Rows :
          /\ row = Processed(j)
          /\ row.chosen = j.row.chosen /\ row.meta = j.row.meta
          /\ row.status = "PROCESSED" /\ row.active = FALSE
  BY <1>a, NewRows
<1>c. PICK n \in Named, l \in Links : n = j.row.meta.names /\ l = LinksOf(j.req)
  <2>1. RefundTypeOK
    BY DEF RefundInv
  <2> QED
    BY <1>a, <2>1, RowFields, MetaFields, LinksOfType
<1>e. /\ Save(j.req, row, l) /\ SetJob(w, Idle) /\ Finalize(l, n)
      /\ UNCHANGED <<method, returned, calls, rewritten, redirected, invalidated, offTrack>>
  BY <1>0, <1>b, <1>c DEF Process
<1>f. /\ RefundTypeOK /\ job' \in [Workers -> Jobs] /\ OneActive'
      /\ \A r \in Requests : ClosersWrite(r) => ClosersWrite(r)'
      /\ Active \ {j.req} \subseteq Active'
  BY <1>0, <1>a, <1>e, SavedFacts
<1>g. /\ request' \in [Requests -> Rows \cup {Absent, Gone}]
      /\ \A q \in Requests : q # j.req => request'[q] = request[q]
  BY <1>a, <1>e, <1>f, SaveFacts
<1>i. /\ cancelled' = cancelled \cup l.tickets \cup ByName(n) /\ cancelled' \subseteq Attendees
      /\ order' \in [status : OrderStatuses, units : 0 .. Units]
      /\ restocked' \in Nat /\ refused' \in Nat /\ overlapped' \in BOOLEAN
      /\ UnitsBalance' /\ EmptyIsRefunded'
      /\ restocked' + refused' > 0 => restocked + refused > 0 \/ l.order > 0 \/ l.units > 0
      /\ order'.status = "pending_refund" => order' = order /\ l.order = 0 /\ l.units = 0
  <2>1. UnitsBalance /\ EmptyIsRefunded
    BY DEF RefundInv, GoodsInv
  <2> QED
    BY <1>e, <1>f, <2>1, FinalizeFacts
<1>j. PICK s \in {"REFUNDED", "PARTIALLY_REFUNDED"} :
          /\ PaymentMoves(j.pay, s)
          /\ s = "REFUNDED" => IsFull(j.row.chosen) \/ ProcessedTotal(request') >= Base
  BY <1>0 DEF Process
<1>k. method = "stripe" => \E x \in returned : x.req = j.req /\ x.chosen = j.row.chosen
  <2> SUFFICES ASSUME method = "stripe"
               PROVE  \E x \in returned : x.req = j.req /\ x.chosen = j.row.chosen
    OBVIOUS
  <2>1. j.req \in Paid
    BY <1>0, <1>a DEF RefundInv, RowsInv, PaidInv
  <2>2. PICK x \in returned : x.req = j.req
    BY <2>1 DEF Paid
  <2>3. x.chosen \in Known(j.req)
    BY <1>f, <2>2 DEF RefundTypeOK, Refunded, Known
  <2> QED
    BY <1>a, <2>2, <2>3 DEF RefundInv, RowsInv, KnownInv
<1>1. RefundTypeOK'
  <2>1. payment' \in PaymentStatuses
    BY <1>f, <1>j DEF PaymentMoves, RefundTypeOK, PaymentStatuses
  <2> QED
    BY <1>e, <1>f, <1>g, <1>i, <2>1 DEF RefundTypeOK
<1>2. RowsInv'
  <2>1. WellKept(row)
    BY <1>b DEF WellKept
  <2>2. method = "stripe" => j.req \in Paid
    BY <1>k DEF Paid
  <2>3. j.req \notin redirected => MadeFor(l, row.chosen)
    BY <1>0, <1>a, <1>b, <1>c, LinksMadeFor
  <2>4. redirected \subseteq rewritten
    BY DEF RefundInv, RowsInv, AskedInv
  <2> QED
    BY <1>0, <1>a, <1>b, <1>e, <2>1, <2>2, <2>3, <2>4, SaveStep
<1>3. TrackInv'
  <2> SUFFICES ASSUME ~offTrack'
               PROVE  (Orderly /\ PaymentWaits /\ OrderWaits /\ ReadInTime /\ MarksInv)'
    BY <1>f DEF TrackInv
  <2>1. ~offTrack /\ PaymentWaits
    BY <1>e DEF RefundInv, TrackInv
  <2>2. payment' = "PENDING_REFUND" => payment = "PENDING_REFUND" /\ j.pay # "PENDING_REFUND"
    BY <1>j DEF PaymentMoves
  <2>3. ~Unmarked(j.req)
    BY <1>0, <1>a DEF Unmarked
  <2>4. (Orderly /\ ReadInTime /\ MarksInv)'
    BY <1>0, <1>a, <1>e, <2>1, <2>2, <2>3, SaveTrack
  <2>5. PaymentWaits'
    <3> SUFFICES ASSUME payment' = "PENDING_REFUND" PROVE \E r \in Active' : ClosersWrite(r)'
      BY DEF PaymentWaits
    <3>1. PICK r \in Active : ClosersWrite(r)
      BY <2>1, <2>2 DEF PaymentWaits
    <3>2. r # j.req
      BY <1>0, <1>a, <2>2, <3>1 DEF ClosersWrite, Reviewing
    <3> QED
      BY <1>f, <3>1, <3>2 DEF Active
  <2>6. OrderWaits'
    <3>1. CASE order'.status = "pending_refund"
      <4>1. order.status = "pending_refund" /\ LinksOf(j.req).order = 0 /\ LinksOf(j.req).units = 0
        BY <1>c, <1>i, <3>1
      <4> QED
        BY <1>a, <1>e, <1>f, <1>g, <2>1, <4>1, OthersWait
    <3>2. CASE order'.status # "pending_refund"
      BY <3>2 DEF OrderWaits
    <3> QED
      BY <3>1, <3>2
  <2> QED
    BY <2>4, <2>5, <2>6
<1>4. RefundedIsReturned'
  <2> SUFFICES ASSUME method' = "stripe", payment' = "REFUNDED"
               PROVE  AtStripe' >= Base'
    BY DEF RefundedIsReturned
  <2>0. /\ method = "stripe" /\ Base' = Base /\ Base \in Nat /\ AtStripe' = AtStripe
        /\ AtStripe = Total(returned) /\ returned \in SUBSET Refunded /\ IsFiniteSet(returned)
    BY <1>e, <1>f, BaseType, SameReturned, ReturnedSoFar
    DEF RefundInv, RowsInv, PaidInv, RefundTypeOK, Base
  <2>1. CASE payment = "REFUNDED"
    BY <2>0, <2>1 DEF RefundInv, GoodsInv, RefundedIsReturned
  <2>2. CASE payment # "REFUNDED" /\ IsFull(j.row.chosen)
    <3>1. PICK x \in returned : x.chosen = j.row.chosen
      BY <1>k, <2>0
    <3>2. x.chosen.amount <= Total(returned)
      BY <2>0, TotalMonotonic
    <3> QED
      BY <2>0, <2>2, <3>1, <3>2 DEF IsFull
  <2>3. CASE payment # "REFUNDED" /\ ProcessedTotal(request') >= Base
    <3>1. ASSUME NEW r \in Requests, request'[r].status = "PROCESSED"
          PROVE  \E x \in returned : x.req = r /\ x.chosen = request'[r].chosen
      <4>1. PICK x \in returned : x.req = r
        BY <1>e, <1>2, <2>0, <3>1 DEF RowsInv, PaidInv, Paid
      <4>2. x.chosen \in Selections /\ request'[r].chosen \in Selections
        BY <1>g, <2>0, <3>1, RowFields DEF Refunded, Absent, Gone
      <4>3. x.chosen \in Known(r)' /\ request'[r].chosen \in Known(r)'
        BY <1>e, <3>1, <4>1, <4>2 DEF Known, Exists
      <4> QED
        BY <1>2, <4>1, <4>3 DEF RowsInv, KnownInv
    <3>2. ProcessedTotal(request') \in Nat /\ ProcessedTotal(request') <= Total(returned)
      BY <1>g, <2>0, <3>1, ProcessedWithinReturned
    <3>3. Total(returned) \in Nat
      BY <2>0, TotalMonotonic
    <3> QED
      BY <2>0, <2>3, <3>2, <3>3
  <2> QED
    BY <1>j, <2>1, <2>2, <2>3 DEF PaymentMoves
<1>5. TakenIsReturned'
  <2> SUFFICES ASSUME method = "stripe"
               PROVE  /\ \A a \in cancelled' :
                            \E x \in returned : a \in x.chosen.who \/ x.req \in redirected
                      /\ restocked' + refused' > 0 =>
                            \E x \in returned : OnOrder(x.chosen) \/ x.req \in redirected
    BY <1>e DEF TakenIsReturned
  <2>1. PICK x \in returned : x.req = j.req /\ x.chosen = j.row.chosen
    BY <1>k
  <2>2. CASE j.req \in redirected
    BY <1>i, <2>1, <2>2 DEF RefundInv, GoodsInv, TakenIsReturned
  <2>3. CASE j.req \notin redirected
    <3>1. MadeFor(l, x.chosen) /\ AsksFor(n, x.chosen)
      BY <1>0, <1>a, <1>c, <2>1, <2>3, LinksMadeFor
    <3>2. l.tickets \cup ByName(n) \subseteq x.chosen.who
      BY <1>a, <2>1, <3>1, NoMeaning DEF MadeFor, AsksFor, ByName
    <3>3. l.order > 0 \/ l.units > 0 => OnOrder(x.chosen)
      <4>1. l.units \in Nat /\ x.chosen.units \in Nat
        BY <1>a, <2>1, LinkFields, UnitsAssumption DEF Selections
      <4> QED
        BY <3>1, <4>1 DEF MadeFor, OnOrder
    <3>4. \A a \in cancelled' : a \in cancelled \/ a \in x.chosen.who
      BY <1>i, <3>2
    <3> QED
      BY <1>i, <3>3, <3>4 DEF RefundInv, GoodsInv, TakenIsReturned
  <2> QED
    BY <2>2, <2>3
<1> QED
  BY <1>1, <1>2, <1>3, <1>4, <1>5, <1>i DEF RefundInv, GoodsInv

LEMMA RestoredType ==
    ASSUME NEW j, j.row \in Rows
    PROVE  Restored(j) \in PaymentStatuses
<1>1. j.row.meta \in Metadata
  BY RowFields
<1>2. CASE j.row.meta.wasPayment # "none"
  <2>1. Restored(j) = j.row.meta.wasPayment
    BY <1>2, Zenon DEF Restored
  <2> QED
    BY <1>1, <1>2, <2>1, MetaFields
<1>3. CASE j.row.meta.wasPayment = "none"
  BY <1>3 DEF Restored, PaymentStatuses
<1> QED
  BY <1>2, <1>3

LEMMA StepReject ==
    ASSUME RefundInv, NEW w \in Workers, Reject(w)
    PROVE  RefundInv'
<1>0. PICK j \in Jobs : j = job[w]
  BY DEF RefundInv, RefundTypeOK
<1>a. /\ HasRow(w) /\ j.op = "reject" /\ j.via = "action"
      /\ j.req \in Requests /\ j.row \in Rows /\ j.pay \in PaymentStatuses
      /\ WellKept(j.row) /\ request[j.req] # Absent
  <2>1. HasRow(w) /\ j.op = "reject" /\ j.via = "action"
    BY <1>0 DEF Reject, Reviewing, HasRow, Reviews
  <2> QED
    BY <1>0, <2>1, ReviewFacts
<1>b. PICK row \in Rows :
          /\ row = Rejected(j)
          /\ row.chosen = j.row.chosen /\ row.meta = j.row.meta
          /\ row.status = "REJECTED" /\ row.active = FALSE
  BY <1>a, NewRows
<1>c. PICK l \in Links : l = LinksOf(j.req)
  <2>1. RefundTypeOK
    BY DEF RefundInv
  <2> QED
    BY <1>a, <2>1, LinksOfType
<1>e. /\ Save(j.req, row, l) /\ SetJob(w, Idle) /\ RestoreOrder(j)
      /\ UNCHANGED <<method, restocked, refused, cancelled, returned, calls, rewritten, redirected,
                     invalidated, offTrack, overlapped>>
  BY <1>0, <1>b, <1>c DEF Reject, refundHistory
<1>i. PICK s \in Refundable : PaymentMoves(j.pay, s)
  BY <1>0 DEF Reject
<1>f. /\ RefundTypeOK /\ job' \in [Workers -> Jobs] /\ OneActive'
      /\ Active \ {j.req} \subseteq Active'
  BY <1>0, <1>a, <1>e, SavedFacts
<1>g. /\ request' \in [Requests -> Rows \cup {Absent, Gone}]
      /\ \A q \in Requests : q # j.req => request'[q] = request[q]
  BY <1>a, <1>e, <1>f, SaveFacts
<1>h. /\ order' \in [status : OrderStatuses, units : 0 .. Units]
      /\ order'.units = order.units /\ (order'.status = "refunded" <=> order.status = "refunded")
      /\ order'.status = "pending_refund" => order' = order /\ ~Concerned(j)
  BY <1>e, <1>f, RestoreFacts
<1>k. payment' \in {payment} \cup Refundable
  BY <1>i DEF PaymentMoves
<1>1. RefundTypeOK'
  BY <1>e, <1>f, <1>g, <1>h, <1>k DEF RefundTypeOK, PaymentStatuses, Refundable
<1>2. RowsInv'
  <2>1. WellKept(row)
    BY <1>b DEF WellKept
  <2>2. j.req \notin redirected => MadeFor(l, row.chosen)
    BY <1>0, <1>a, <1>b, <1>c, LinksMadeFor
  <2>3. redirected \subseteq rewritten
    BY DEF RefundInv, RowsInv, AskedInv
  <2> QED
    BY <1>0, <1>a, <1>b, <1>e, <2>1, <2>2, <2>3, SaveStep
<1>3. TrackInv'
  <2> SUFFICES ASSUME ~offTrack'
               PROVE  (Orderly /\ PaymentWaits /\ OrderWaits /\ ReadInTime /\ MarksInv)'
    BY <1>f DEF TrackInv
  <2>1. ~offTrack /\ ReadInTime
    BY <1>e DEF RefundInv, TrackInv
  <2>2. payment' # "PENDING_REFUND"
    <3>1. j.pay = "PENDING_REFUND"
      BY <1>0, <1>a, <2>1 DEF ReadInTime, Reviewing
    <3> QED
      BY <1>i, <3>1 DEF PaymentMoves, Refundable
  <2>3. ~Unmarked(j.req)
    BY <1>0, <1>a DEF Unmarked
  <2>4. (Orderly /\ ReadInTime /\ MarksInv)'
    BY <1>0, <1>a, <1>e, <2>1, <2>2, <2>3, SaveTrack
  <2>5. PaymentWaits'
    BY <2>2 DEF PaymentWaits
  <2>6. OrderWaits'
    <3>1. CASE order'.status = "pending_refund"
      <4>1. order.status = "pending_refund" /\ ~(l.order > 0) /\ ~(l.units > 0)
        BY <1>c, <1>h, <3>1 DEF Concerned
      <4>2. l.order = 0 /\ l.units = 0
        <5>1. l.order \in 0 .. Units /\ l.units \in 0 .. Units /\ Units \in Nat
          BY LinkFields, UnitsAssumption
        <5> QED
          BY <4>1, <5>1
      <4> QED
        BY <1>a, <1>c, <1>e, <1>f, <1>g, <2>1, <4>1, <4>2, OthersWait
    <3>2. CASE order'.status # "pending_refund"
      BY <3>2 DEF OrderWaits
    <3> QED
      BY <3>1, <3>2
  <2> QED
    BY <2>4, <2>5, <2>6
<1>4. GoodsInv'
  BY <1>e, <1>h, <1>k, GoodsStay DEF Refundable
<1> QED
  BY <1>1, <1>2, <1>3, <1>4 DEF RefundInv

LEMMA StepPatch ==
    ASSUME RefundInv, NEW w \in Workers, Patch(w)
    PROVE  RefundInv'
<1>0. PICK j \in Jobs : j = job[w]
  BY DEF RefundInv, RefundTypeOK
<1>a. /\ HasRow(w) /\ j.op \in Reviews \cup {"edit"} /\ j.via = "patch"
      /\ j.req \in Requests /\ j.row \in Rows /\ WellKept(j.row)
      /\ j.op \in Reviews => j.row.status = Wants(j.op)
      /\ request[j.req] # Absent
  <2>1. HasRow(w) /\ j.op \in Reviews \cup {"edit"} /\ j.via = "patch"
    BY <1>0 DEF Patch, HasRow
  <2> QED
    BY <1>0, <2>1, ReviewFacts
<1>b. PICK row \in Rows :
          /\ Save(j.req, row, LinksOf(j.req)) /\ row.chosen = j.row.chosen /\ WellKept(row)
          /\ redirected' = IF row.meta = j.row.meta THEN redirected ELSE redirected \cup {j.req}
          /\ j.op # "edit" => row \in {Verified(j), Processed(j), Rejected(j)}
          /\ j.op = "verify" \/ row.status # "VERIFIED" \/ j.op = "edit"
          /\ j.op = "process" \/ row.status # "PROCESSED" \/ j.op = "edit"
          /\ j.op = "edit" => row.status = j.row.status /\ row.active = j.row.active
  <2>1. PICK row \in Patched(j) :
            /\ Save(j.req, row, LinksOf(j.req))
            /\ redirected' = IF row.meta = j.row.meta THEN redirected ELSE redirected \cup {j.req}
    BY <1>0 DEF Patch
  <2>2. CASE j.op = "verify" /\ row = Verified(j)
    BY <1>a, <2>1, <2>2, NewRows DEF WellKept, Wants, Reviews
  <2>3. CASE j.op = "process" /\ row = Processed(j)
    BY <1>a, <2>1, <2>3, NewRows DEF WellKept
  <2>4. CASE j.op = "reject" /\ row = Rejected(j)
    BY <1>a, <2>1, <2>4, NewRows DEF WellKept
  <2>5. CASE j.op = "edit" /\ row = j.row
    BY <1>a, <2>1, <2>5
  <2>6. ASSUME j.op = "edit", NEW m \in Edits, row = [j.row EXCEPT !.meta = m]
        PROVE  /\ row \in Rows /\ row.chosen = j.row.chosen
               /\ row.status = j.row.status /\ row.active = j.row.active
    <3>1. m \in Metadata
      BY EditsAssumption
    <3> QED
      BY <1>a, <2>6, <3>1 DEF Rows
  <2>7. \/ j.op = "verify" /\ row = Verified(j)
        \/ j.op = "process" /\ row = Processed(j)
        \/ j.op = "reject" /\ row = Rejected(j)
        \/ j.op = "edit" /\ (row = j.row \/ \E m \in Edits : row = [j.row EXCEPT !.meta = m])
    <3>1. j.op \in {"verify", "process", "reject", "edit"}
      BY <1>a DEF Reviews
    <3> QED
      BY <2>1, <3>1 DEF Patched
  <2>8. CASE j.op = "edit" /\ \E m \in Edits : row = [j.row EXCEPT !.meta = m]
    BY <1>a, <2>1, <2>6, <2>8 DEF WellKept
  <2> QED
    BY <2>2, <2>3, <2>4, <2>5, <2>7, <2>8
<1>c. PICK l \in Links : l = LinksOf(j.req)
  <2>1. RefundTypeOK
    BY DEF RefundInv
  <2> QED
    BY <1>a, <2>1, LinksOfType
<1>e. /\ Save(j.req, row, l) /\ SetJob(w, Idle) /\ rewritten' = rewritten \cup {j.req}
      /\ UNCHANGED <<method, payment, order, restocked, refused, cancelled, returned, calls,
                     invalidated, overlapped>>
      /\ offTrack' = (offTrack \/ j.op # "edit" \/ (request[j.req].active /\ ~j.row.active))
  BY <1>0, <1>b, <1>c DEF Patch, refundData
<1>f. /\ RefundTypeOK /\ job' \in [Workers -> Jobs] /\ OneActive'
      /\ \A r \in Requests : ClosersWrite(r) => ClosersWrite(r)'
      /\ Active \ {j.req} \subseteq Active'
  BY <1>0, <1>a, <1>e, SavedFacts
<1>g. /\ request' \in [Requests -> Rows \cup {Absent, Gone}]
      /\ \A q \in Requests : q # j.req => request'[q] = request[q]
      /\ request'[j.req].active = row.active /\ request'[j.req].links = l
  BY <1>a, <1>e, <1>f, SaveFacts
<1>d. redirected \subseteq redirected' /\ redirected' \subseteq rewritten'
      /\ redirected' \subseteq Requests
      /\ (j.req \notin redirected' => row.meta = j.row.meta)
  BY <1>a, <1>b, <1>e, <1>f DEF RefundInv, RowsInv, AskedInv, RefundTypeOK
<1>1. RefundTypeOK'
  <2>1. offTrack' \in BOOLEAN
    BY <1>a, <1>e, <1>f, RowThere, RowFields DEF RefundTypeOK
  <2> QED
    BY <1>a, <1>d, <1>e, <1>f, <1>g, <2>1 DEF RefundTypeOK
<1>2. RowsInv'
  <2>1. method = "stripe" /\ row.status \in {"VERIFIED", "PROCESSED"} => j.req \in Paid
    <3> SUFFICES ASSUME method = "stripe", row.status \in {"VERIFIED", "PROCESSED"}
                 PROVE  j.req \in Paid
      OBVIOUS
    <3>1. j.op = "verify" => j.paid
      BY <1>0 DEF Patch, Ready
    <3>2. j.paid \/ j.row.status \in {"VERIFIED", "PROCESSED"} => j.req \in Paid
      BY <1>0, <1>a DEF RefundInv, RowsInv, PaidInv
    <3> QED
      BY <1>a, <1>b, <3>1, <3>2 DEF Wants, Reviews
  <2>2. j.req \notin redirected' => MadeFor(l, row.chosen) /\ row.meta = j.row.meta
    BY <1>0, <1>a, <1>b, <1>c, <1>d, LinksMadeFor
  <2>3. UNCHANGED <<method, returned>> /\ rewritten \subseteq rewritten' /\ j.req \in rewritten'
    BY <1>e
  <2> QED
    BY <1>0, <1>a, <1>b, <1>d, <1>e, <2>1, <2>2, <2>3, SaveStep
<1>3. TrackInv'
  <2> SUFFICES ASSUME ~offTrack'
               PROVE  (Orderly /\ PaymentWaits /\ OrderWaits /\ ReadInTime /\ MarksInv)'
    BY <1>f DEF TrackInv
  <2>1. ~offTrack /\ PaymentWaits /\ OrderWaits
    BY <1>e DEF RefundInv, TrackInv
  <2>2. j.op = "edit" /\ row.status = j.row.status /\ (request[j.req].active => row.active)
    BY <1>b, <1>e
  <2>3. Unmarked(j.req) => row.status = "PENDING"
    BY <1>0, <1>a, <2>2 DEF Unmarked
  <2>4. (Orderly /\ ReadInTime /\ MarksInv)'
    BY <1>0, <1>a, <1>e, <2>1, <2>3, SaveTrack
  <2>5. \A r \in Active : r \in Active'
    BY <1>a, <1>f, <1>g, <2>2 DEF Active
  <2>6. PaymentWaits'
    BY <1>e, <1>f, <2>1, <2>5 DEF PaymentWaits, Active
  <2>7. OrderWaits'
    <3>1. \A r \in Active : HoldsOrder(r) => HoldsOrder(r)'
      <4>1. request[j.req].active => l = request[j.req].links
        BY <1>a, <1>c, <1>f, RowThere DEF LinksOf
      <4> QED
        BY <1>g, <4>1 DEF HoldsOrder, Active
    <3> QED
      BY <1>e, <2>1, <2>5, <3>1 DEF OrderWaits
  <2> QED
    BY <2>4, <2>6, <2>7
<1>4. UnitsBalance' /\ EmptyIsRefunded'
  BY <1>e DEF RefundInv, GoodsInv, UnitsBalance, EmptyIsRefunded
<1>5. RefundedIsReturned'
  BY <1>e, SameReturned DEF RefundInv, GoodsInv, RefundedIsReturned, Base
<1>6. TakenIsReturned'
  BY <1>d, <1>e DEF RefundInv, GoodsInv, TakenIsReturned
<1> QED
  BY <1>1, <1>2, <1>3, <1>4, <1>5, <1>6 DEF RefundInv, GoodsInv

LEMMA StepDelete ==
    ASSUME RefundInv, NEW r \in Requests, Delete(r)
    PROVE  RefundInv'
<1>0. /\ RefundTypeOK /\ request' \in [Requests -> Rows \cup {Absent, Gone}]
      /\ request'[r] = Gone /\ \A q \in Requests : q # r => request'[q] = request[q]
      /\ UNCHANGED <<method, payment, order, restocked, refused, cancelled, returned, job,
                     rewritten, redirected, invalidated, overlapped>>
      /\ ~request'[r].active /\ request'[r].status = "deleted"
  BY DEF Delete, RefundInv, RefundTypeOK, Gone, refundData
<1>1. RefundTypeOK'
  BY <1>0, BoundAssumption DEF Delete, RefundTypeOK
<1>2. CopyInv'
  BY <1>0 DEF RefundInv, RowsInv, CopyInv, HasRow, Exists, WellKept
<1>3. KnownInv'
  <2>1. \A q \in Requests : Known(q)' \subseteq Known(q)
    BY <1>0 DEF Known, HasRow, Inserted, Exists
  <2>2. \A q \in Requests : request'[q] = Absent => request[q] = Absent
    <3>1. Absent.status = "absent"
      BY DEF Absent
    <3> QED
      BY <1>0, <3>1
  <2> QED
    BY <2>1, <2>2, KnownStays DEF RefundInv, RowsInv
<1>4. AskedInv'
  BY <1>0 DEF RefundInv, RowsInv, AskedInv, HasRow, Exists, MadeFor, AsksFor
<1>5. KeyInv'
  BY <1>0 DEF RefundInv, RowsInv, KeyInv, HasRow
<1>6. PaidInv'
  BY <1>0 DEF RefundInv, RowsInv, PaidInv, Paid, HasRow
<1>7. TrackInv'
  BY <1>0 DEF RefundInv, TrackInv, OneActive, Active, Delete
<1>8. UnitsBalance' /\ EmptyIsRefunded' /\ TakenIsReturned'
  BY <1>0 DEF RefundInv, GoodsInv, UnitsBalance, EmptyIsRefunded, TakenIsReturned
<1>9. RefundedIsReturned'
  BY <1>0, SameReturned DEF RefundInv, GoodsInv, RefundedIsReturned, Base
<1> QED
  BY <1>1, <1>2, <1>3, <1>4, <1>5, <1>6, <1>7, <1>8, <1>9 DEF RefundInv, RowsInv, GoodsInv

\* Requests and their copies do not change when no process does anything to them.
LEMMA RowsStay ==
    ASSUME RefundInv, UNCHANGED <<method, request, returned, job, rewritten, redirected>>
    PROVE  RowsInv'
<1>1. CopyInv'
  BY DEF RefundInv, RowsInv, CopyInv, HasRow, Exists, WellKept
<1>2. KnownInv'
  BY DEF RefundInv, RowsInv, KnownInv, Known, HasRow, Inserted, Exists
<1>3. AskedInv'
  BY DEF RefundInv, RowsInv, AskedInv, HasRow, Exists, MadeFor, AsksFor
<1>4. KeyInv' /\ PaidInv'
  BY DEF RefundInv, RowsInv, KeyInv, HasRow, PaidInv, Paid
<1> QED
  BY <1>1, <1>2, <1>3, <1>4 DEF RowsInv

LEMMA TrackStays ==
    ASSUME RefundInv, UNCHANGED <<request, job, offTrack>>,
           payment' = "PENDING_REFUND" => payment = "PENDING_REFUND",
           invalidated => invalidated',
           order'.status = "pending_refund" => order.status = "pending_refund" \/ invalidated'
    PROVE  TrackInv'
<1>1. OneActive'
  BY DEF RefundInv, TrackInv, OneActive, Active
<1>2. Orderly => Orderly'
  BY DEF Orderly
<1>3. PaymentWaits => PaymentWaits'
  BY DEF PaymentWaits, Active, ClosersWrite, Reviewing
<1>4. OrderWaits => OrderWaits'
  BY DEF OrderWaits, Active, HoldsOrder
<1>5. ReadInTime => ReadInTime'
  BY DEF ReadInTime, Reviewing
<1>6. MarksInv => MarksInv'
  BY DEF MarksInv, Announces, Unmarked, HasRow
<1> QED
  BY <1>1, <1>2, <1>3, <1>4, <1>5, <1>6 DEF RefundInv, TrackInv

LEMMA StepChargeRefunded ==
    ASSUME RefundInv, ChargeRefunded
    PROVE  RefundInv'
<1>0. /\ payment' = "REFUNDED" /\ AtStripe >= Base
      /\ UNCHANGED <<method, order, restocked, refused, cancelled, request, returned, job, calls,
                     rewritten, redirected, invalidated, offTrack, overlapped>>
  BY DEF ChargeRefunded, refundHistory
<1>1. RefundTypeOK'
  BY <1>0 DEF RefundInv, RefundTypeOK, PaymentStatuses
<1>2. RowsInv' /\ TrackInv'
  BY <1>0, RowsStay, TrackStays
<1>3. UnitsBalance' /\ EmptyIsRefunded' /\ TakenIsReturned'
  BY <1>0 DEF RefundInv, GoodsInv, UnitsBalance, EmptyIsRefunded, TakenIsReturned
<1>4. RefundedIsReturned'
  BY <1>0, SameReturned DEF RefundedIsReturned, Base
<1> QED
  BY <1>1, <1>2, <1>3, <1>4 DEF RefundInv, GoodsInv

LEMMA StepInvalidate ==
    ASSUME RefundInv, Invalidate
    PROVE  RefundInv'
<1>0. /\ invalidated' = TRUE /\ calls' \in 0 .. MaxCalls
      /\ UNCHANGED <<method, payment, restocked, refused, cancelled, request, returned, job,
                     rewritten, redirected, offTrack, overlapped>>
  BY BoundAssumption DEF Invalidate, RefundInv, RefundTypeOK
<1>1. /\ order' \in [status : OrderStatuses, units : 0 .. Units]
      /\ order'.units = order.units /\ (order'.status = "refunded" <=> order.status = "refunded")
  BY BlockFacts DEF Invalidate, RefundInv
<1>2. RefundTypeOK'
  BY <1>0, <1>1 DEF RefundInv, RefundTypeOK
<1>3. RowsInv' /\ TrackInv'
  BY <1>0, RowsStay, TrackStays
<1>4. GoodsInv'
  BY <1>0, <1>1, GoodsStay
<1> QED
  BY <1>2, <1>3, <1>4 DEF RefundInv

-----------------------------------------------------------------------------
(* Refunds: the invariant holds.                                            *)

LEMMA RefundStart ==
    ASSUME RefundInit
    PROVE  RefundInv
<1>1. RefundTypeOK
  <2>1. order \in [status : OrderStatuses, units : 0 .. Units]
    BY BaseType DEF RefundInit, OrderStatuses
  <2>2. job \in [Workers -> Jobs] /\ request \in [Requests -> Rows \cup {Absent, Gone}]
    BY JobMakes DEF RefundInit
  <2>3. calls \in 0 .. MaxCalls
    BY BoundAssumption DEF RefundInit
  <2> QED
    BY <2>1, <2>2, <2>3 DEF RefundInit, RefundTypeOK, PaymentStatuses
<1>2. /\ \A r \in Requests : ~Exists(r) /\ request[r] = Absent /\ request[r].status = "absent"
                             /\ ~request[r].active
      /\ \A w \in Workers : job[w].op = "idle" /\ ~HasRow(w) /\ ~Inserted(w) /\ ~Announces(w)
      /\ returned = {} /\ redirected = {}
  BY DEF RefundInit, Exists, Absent, HasRow, Inserted, Announces, Idle, Reviews
<1>3. CopyInv
  BY <1>2 DEF CopyInv, Reviews
<1>4. KnownInv
  BY <1>2 DEF KnownInv, Known
<1>5. AskedInv
  BY <1>2 DEF AskedInv
<1>6. KeyInv
  BY <1>2 DEF KeyInv
<1>7. PaidInv
  BY <1>2, FS_EmptySet DEF PaidInv
<1>8. TrackInv
  BY <1>2 DEF RefundInit, TrackInv, OneActive, Orderly, PaymentWaits, OrderWaits, ReadInTime,
              MarksInv, Active, Absent, Gone, Reviewing
<1>9. GoodsInv
  BY BaseType DEF RefundInit, GoodsInv, UnitsBalance, EmptyIsRefunded, RefundedIsReturned,
                  TakenIsReturned
<1> QED
  BY <1>1, <1>3, <1>4, <1>5, <1>6, <1>7, <1>8, <1>9 DEF RefundInv, RowsInv

LEMMA RefundStutter ==
    ASSUME RefundInv, UNCHANGED refundVars
    PROVE  RefundInv'
<1> USE DEF refundVars, refundData, refundHistory
<1>1. RefundTypeOK'
  BY DEF RefundInv, RefundTypeOK
<1>2. RowsInv' /\ TrackInv'
  BY RowsStay, TrackStays
<1>3. GoodsInv'
  BY GoodsStay
<1> QED
  BY <1>1, <1>2, <1>3 DEF RefundInv

LEMMA RefundStep ==
    ASSUME RefundInv, [RefundNext]_refundVars
    PROVE  RefundInv'
<1>1. ASSUME NEW w \in Workers, Creates(w) PROVE RefundInv'
  BY <1>1, StepCreateRead, StepCreateCommit, StepInsertRow, StepDescribe, StepAttach,
     StepMarkPayment DEF Creates
<1>2. ASSUME NEW w \in Workers, NEW r \in Requests, Reads(w, r) PROVE RefundInv'
  BY <1>2, StepReviewRead, StepPatchRead DEF Reads
<1>3. ASSUME NEW w \in Workers, Commits(w) PROVE RefundInv'
  BY <1>3, StepAskStripe, StepVerify, StepProcess, StepReject, StepPatch DEF Commits
<1>4. ASSUME NEW w \in Workers, GiveUp(w) PROVE RefundInv'
  BY <1>4, StepGiveUp
<1>5. ASSUME NEW r \in Requests, Delete(r) PROVE RefundInv'
  BY <1>5, StepDelete
<1>6. CASE ChargeRefunded
  BY <1>6, StepChargeRefunded
<1>7. CASE Invalidate
  BY <1>7, StepInvalidate
<1>8. CASE UNCHANGED refundVars
  BY <1>8, RefundStutter
<1> QED
  BY <1>1, <1>2, <1>3, <1>4, <1>5, <1>6, <1>7, <1>8 DEF RefundNext

\* The inductive invariant holds in every reachable state.
THEOREM RefundInvariance == RefundSpec => []RefundInv
<1>1. RefundInit => RefundInv
  BY RefundStart
<1>2. RefundInv /\ [RefundNext]_refundVars => RefundInv'
  BY RefundStep
<1> QED
  BY <1>1, <1>2, PTL DEF RefundSpec

\* Requests, orders, payments and what Stripe keeps stay what the tables hold,
\* and a refund concerns between one unit and the whole of the payment.
THEOREM RefundTypesHold == RefundSpec => []RefundTypeOK
<1>1. RefundInv => RefundTypeOK
  BY DEF RefundInv
<1> QED
  BY <1>1, RefundInvariance, PTL

\* Stripe pays a request back once, however many processes verify it and
\* however often one dies after the call: the key of the copies and the
\* selection they are for are the same until the row is written again.
THEOREM PaidBackOnceHolds == RefundSpec => []PaidBackOnce
<1>1. RefundInv => PaidBackOnce
  <2> SUFFICES ASSUME RefundInv, NEW x \in returned, NEW y \in returned, x.req = y.req,
                      x.req \notin rewritten
               PROVE  x = y
    BY DEF PaidBackOnce
  <2>1. x \in Refunded /\ y \in Refunded /\ x.req \in Requests
    BY DEF RefundInv, RefundTypeOK, Refunded
  <2>2. x.key = 0 /\ y.key = 0
    BY <2>1 DEF RefundInv, RowsInv, KeyInv
  <2>3. x.chosen \in Known(x.req) /\ y.chosen \in Known(x.req)
    BY <2>1 DEF Known, Refunded
  <2>4. x.chosen = y.chosen
    BY <2>1, <2>3 DEF RefundInv, RowsInv, KnownInv
  <2> QED
    BY <2>1, <2>2, <2>4 DEF Refunded
<1> QED
  BY <1>1, RefundInvariance, PTL

\* A payment or an order that waits for a refund has a request somebody can
\* still decide, unless one was closed or deleted past the workflow, or the
\* order was put on hold with its attendee.
THEOREM PendingIsDecidableHolds == RefundSpec => []PendingIsDecidable
<1>1. RefundInv => PendingIsDecidable
  BY DEF RefundInv, TrackInv, PaymentWaits, OrderWaits, PendingIsDecidable
<1> QED
  BY <1>1, RefundInvariance, PTL

\* A unit is on the order line, back on the shelf, or refused by a full shelf when
\* its order was refunded as a whole, and in one of these only, through any
\* sequence of refunds, unless units were refunded on an order refunded as a whole.
THEOREM UnitsBalanceHolds == RefundSpec => []UnitsBalance
<1>1. RefundInv => UnitsBalance
  BY DEF RefundInv, GoodsInv
<1> QED
  BY <1>1, RefundInvariance, PTL

\* A payment shown as refunded was paid back in full by Stripe, also when it is
\* the sum of the processed requests that says so.
THEOREM RefundedIsReturnedHolds == RefundSpec => []RefundedIsReturned
<1>1. RefundInv => RefundedIsReturned
  BY DEF RefundInv, GoodsInv
<1> QED
  BY <1>1, RefundInvariance, PTL

\* No ticket is cancelled and no unit taken back but for a request that Stripe
\* has paid and that asked for it, or whose metadata PATCH replaced.
THEOREM TakenIsReturnedHolds == RefundSpec => []TakenIsReturned
<1>1. RefundInv => TakenIsReturned
  BY DEF RefundInv, GoodsInv
<1> QED
  BY <1>1, RefundInvariance, PTL
-----------------------------------------------------------------------------
(* Refunds: what it promises, step by step, as RefundContract states it.    *)

\* What the contract sees of the order: the units the buyer still has.
Out == IF order.status = "refunded" THEN 0 ELSE order.units

\* What the contract counts as returned is what Stripe paid back.
LEMMA ContractCounts ==
    /\ Contract!Amounts(returned) = AtStripe
    /\ Contract!Amounts(returned') = Total(returned')
    /\ \A R : Contract!Amounts(R) = Total(R)
    /\ \A R : Contract!IsFiniteSet(R) <=> IsFiniteSet(R)
<1>1. \A R : Contract!Amounts(R) = Total(R)
  BY DEF Contract!Amounts, Total, Contract!MapThenSumSet, MapThenSumSet,
         Contract!MapThenFoldSet, MapThenFoldSet
<1>2. \A R : Contract!IsFiniteSet(R) <=> IsFiniteSet(R)
  BY DEF Contract!IsFiniteSet, IsFiniteSet
<1> QED
  BY <1>1, <1>2, ReturnedSoFar

\* The payment counts as refunded only when all of it was returned.
LEMMA ContractCloses ==
    ASSUME RefundInv', UNCHANGED <<method, returned>>
    PROVE  Contract!Closes
<1>1. method = "stripe" /\ payment' = "REFUNDED" => AtStripe' >= Base
  BY DEF RefundInv, GoodsInv, RefundedIsReturned, Base
<1>2. AtStripe' = AtStripe
  BY SameReturned
<1> QED
  BY <1>1, <1>2, ContractCounts DEF Contract!Closes

\* A step that moves neither money nor goods settles at most the payment.
LEMMA SettlesOnly ==
    ASSUME RefundInv', Out' = Out,
           UNCHANGED <<method, returned, cancelled, restocked, refused, rewritten, overlapped>>
    PROVE  Contract!Settle
<1>1. Contract!Closes
  BY ContractCloses
<1> QED
  BY <1>1 DEF Contract!Settle, Out

\* Holding an order, or letting it go again, keeps its units.
LEMMA BlockKeepsUnits == ASSUME RefundTypeOK, NEW b, BlockOrder(b) PROVE Out' = Out
BY BlockFacts DEF Out

LEMMA RestoreKeepsUnits == ASSUME RefundTypeOK, NEW j, RestoreOrder(j) PROVE Out' = Out
BY RestoreFacts DEF Out

\* One more refund adds its amount.
LEMMA TotalAdd ==
    ASSUME NEW R \in SUBSET Refunded, IsFiniteSet(R), NEW x \in Refunded, x \notin R
    PROVE  Total(R \cup {x}) = Total(R) + x.chosen.amount
<1> DEFINE S == R \cup {x}
<1>1. IsFiniteSet(S) /\ \A y \in S : Amounts(S)[y] \in Nat /\ Amounts(S)[y] = y.chosen.amount
  BY FS_AddElement, BaseType DEF Amounts, Refunded, Selections
<1>2. Total(S) = SumOver(Amounts(S), S)
  BY <1>1, TotalIsSum
<1>3. SumOver(Amounts(S), S) = Amounts(S)[x] + SumOver(Amounts(S), R)
  BY <1>1, SumAdd
<1>4. Total(R) = SumOver(Amounts(S), R)
  <2>1. \A y \in R : Amounts(R)[y] = Amounts(S)[y]
    BY DEF Amounts
  <2> QED
    BY <2>1, TotalIsSum, SumSame
<1>5. SumOver(Amounts(S), R) \in Nat /\ Amounts(S)[x] = x.chosen.amount
  BY <1>1, SumType
<1>6. x.chosen.amount \in Nat
  BY <1>1
<1> HIDE DEF S
<1>7. Total(S) = Total(R) + x.chosen.amount
  BY <1>2, <1>3, <1>4, <1>5, <1>6
<1> USE DEF S
<1> QED
  BY <1>7

\* Stripe answers with the refund it made, or makes the first of the request.
LEMMA ContractAskStripe ==
    ASSUME RefundInv, NEW w \in Workers, AskStripe(w)
    PROVE  UNCHANGED Contract!contractVars \/ \E x \in returned' : Contract!PayBack(x)
<1> DEFINE j   == job[w]
           new == [req |-> j.req, key |-> j.row.key, chosen |-> j.row.chosen]
<1>1. /\ HasRow(w) /\ j.op = "verify" /\ j.req \in Requests /\ j.row \in Rows
      /\ j.row.status = "PENDING" /\ j.row.key \in Nat /\ j.row.chosen \in Selections
      /\ \A c \in Known(j.req) : c = j.row.chosen
  <2>1. HasRow(w) /\ j.op = "verify"
    BY DEF AskStripe, HasRow, Reviews
  <2> QED
    BY <2>1, ReviewFacts, RowFields DEF Reviews, Wants
<1>2. /\ method = "stripe" /\ returned' = returned \cup {new}
      /\ new \in returned \/ AtStripe + j.row.chosen.amount <= Base
      /\ UNCHANGED <<method, payment, order, restocked, refused, cancelled, rewritten, overlapped>>
  BY DEF AskStripe, IdempotencyKey, refundData, refundHistory
<1>3. CASE new \in returned
  BY <1>2, <1>3 DEF Contract!contractVars
<1>4. CASE new \notin returned
  <2>1. new \in Refunded /\ returned \in SUBSET Refunded /\ IsFiniteSet(returned)
    BY <1>1 DEF Refunded, RefundInv, RefundTypeOK, RowsInv, PaidInv
  <2>2. new.req = j.req /\ new.chosen = j.row.chosen
    OBVIOUS
  <2>3. Total(returned') <= Base
    BY <1>2, <1>4, <2>1, <2>2, TotalAdd, ReturnedSoFar
  <2>4. j.req \in rewritten \/ \A y \in returned : y.req # j.req
    <3> SUFFICES ASSUME j.req \notin rewritten, NEW y \in returned, y.req = j.req
                 PROVE  FALSE
      OBVIOUS
    <3>1. y.key = 0 /\ j.row.key = 0
      BY <1>1 DEF RefundInv, RowsInv, KeyInv
    <3>2. y \in Refunded /\ y.chosen = j.row.chosen
      BY <1>1, <2>1 DEF Known, Refunded
    <3> QED
      BY <1>4, <3>1, <3>2 DEF Refunded
  <2>5. Contract!PayBack(new)
    <3> HIDE DEF new, j
    <3> QED
      BY <1>2, <1>4, <2>1, <2>2, <2>3, <2>4, ContractCounts DEF Contract!PayBack, Refunded
  <2> QED
    BY <1>2, <2>5
<1> QED
  BY <1>3, <1>4

\* What processing moves is what the contract lets it move.
LEMMA ContractSees ==
    ASSUME RefundTypeOK, RefundTypeOK'
    PROVE  /\ LeftOf(Goods) = Out /\ LeftOf(Goods') = Out'
           /\ Goods.shelf = restocked /\ Goods'.shelf = restocked'
           /\ Goods.refused = refused /\ Goods'.refused = refused'
           /\ Goods.twice = overlapped /\ Goods'.twice = overlapped'
           /\ Out \in Nat /\ Out \in 0 .. Units /\ restocked \in Nat /\ refused \in Nat
           /\ overlapped \in BOOLEAN /\ overlapped' \in BOOLEAN
<1>1. /\ LeftOf(Goods) = Out /\ LeftOf(Goods') = Out'
      /\ Goods.shelf = restocked /\ Goods'.shelf = restocked'
      /\ Goods.refused = refused /\ Goods'.refused = refused'
      /\ Goods.twice = overlapped /\ Goods'.twice = overlapped'
  BY DEF Goods, LeftOf, Out
<1> QED
  BY <1>1, BaseType DEF RefundTypeOK, Out

LEMMA ContractUnitsMoved ==
    ASSUME RefundTypeOK, RefundTypeOK', NEW n \in 0 .. Units, Moves(Goods, Goods', n)
    PROVE  Contract!TakeUnits(n)
<1>1. PICK k \in 0 .. n : restocked' = restocked + k /\ refused' = refused + (n - k)
  BY ContractSees DEF Moves
<1>2. n <= Out /\ Out' = Out - n /\ overlapped' = overlapped
  BY ContractSees, Zenon DEF Moves
<1>3. refused' = refused + n - k
  BY <1>1, ContractSees, BaseType
<1> QED
  BY <1>1, <1>2, <1>3 DEF Contract!TakeUnits, Out

LEMMA ContractUnitsTwice ==
    ASSUME RefundTypeOK, RefundTypeOK', NEW n \in 0 .. Units, MovesTwice(Goods, Goods', n),
           Out = 0 \/ rewritten # {}
    PROVE  Contract!TakeTwice(n)
<1>1. PICK k \in 0 .. Out : restocked' = restocked + k + n /\ refused' = refused + (Out - k)
  BY ContractSees DEF MovesTwice
<1>2. Out' = 0 /\ overlapped' = TRUE
  BY ContractSees, Zenon DEF MovesTwice
<1>3. refused' = refused + Out - k
  BY <1>1, ContractSees
<1> QED
  BY <1>1, <1>2, <1>3 DEF Contract!TakeTwice, Out

\* Processing takes what the selection was paid for, or, when PATCH replaced the
\* metadata, what it names.
LEMMA ContractProcess ==
    ASSUME RefundInv, NEW w \in Workers, Process(w), RefundInv'
    PROVE  \E c \in Selections : Contract!Take(c)
<1>1. PICK r \in Requests, n \in Named, l \in Links, mine \in Selections :
          /\ HasRow(w) /\ r = job[w].req /\ mine = job[w].row.chosen
          /\ n = job[w].row.meta.names /\ l = LinksOf(r)
          /\ job[w].row.status = "VERIFIED" /\ \A c \in Known(r) : c = mine
  <2>1. HasRow(w) /\ job[w].op = "process" /\ RefundTypeOK
    BY DEF Process, Reviewing, HasRow, Reviews, RefundInv
  <2>2. /\ job[w].req \in Requests /\ job[w].row \in Rows /\ job[w].row.status = "VERIFIED"
        /\ job[w].row.chosen \in Selections
        /\ \A c \in Known(job[w].req) : c = job[w].row.chosen
    BY <2>1, ReviewFacts DEF Reviews, Wants
  <2> QED
    BY <2>1, <2>2, RowFields, MetaFields, LinksOfType
<1>2. Finalize(l, n) /\ UNCHANGED <<method, returned, rewritten, redirected>>
  BY <1>1 DEF Process
<1>3. /\ RefundTypeOK /\ RefundTypeOK' /\ UnitsBalance /\ EmptyIsRefunded
      /\ redirected \subseteq rewritten
  BY DEF RefundInv, RowsInv, AskedInv, GoodsInv
<1>4. cancelled' = cancelled \cup l.tickets \cup ByName(n) /\ Puts(l, Goods, Goods')
      /\ cancelled' \subseteq Attendees
  BY <1>2, <1>3, FinalizeFacts
<1>5. PICK k \in 0 .. Units :
          /\ \/ Moves(Goods, Goods', k)
             \/ MovesTwice(Goods, Goods', k) /\ (LeftOf(Goods) = 0 \/ (l.order > 0 /\ l.units > 0))
          /\ l.order = 0 => k <= l.units
  BY <1>4 DEF Puts
<1>6. method = "stripe" => \E x \in returned : x.req = r /\ x.chosen = mine
  <2> SUFFICES ASSUME method = "stripe" PROVE \E x \in returned : x.req = r /\ x.chosen = mine
    OBVIOUS
  <2>1. r \in Paid
    BY <1>1 DEF RefundInv, RowsInv, PaidInv
  <2>2. PICK x \in returned : x.req = r
    BY <2>1 DEF Paid
  <2>3. x.chosen \in Known(r)
    BY <1>3, <2>2 DEF RefundTypeOK, Refunded, Known
  <2> QED
    BY <1>1, <2>2, <2>3
<1>7. Contract!Closes
  BY <1>2, ContractCloses
<1>8. CASE r \notin redirected
  <2>1. MadeFor(l, mine) /\ AsksFor(n, mine)
    BY <1>1, <1>8, LinksMadeFor
  <2>2. l.tickets \cup ByName(n) \subseteq mine.who
    BY <2>1, NoMeaning DEF MadeFor, AsksFor, ByName
  <2>3. /\ l.order \in 0 .. Units /\ l.units \in 0 .. Units /\ mine.units \in 0 .. Units
        /\ Units \in Nat
    BY LinkFields, UnitsAssumption DEF Selections
  <2>4. k \in Contract!MayTake(mine)
    <3>1. CASE mine.units > 0
      <4>1. l.order = 0 /\ l.units <= mine.units
        BY <2>1, <2>3, <3>1 DEF MadeFor
      <4> QED
        BY <1>5, <2>3, <3>1, <4>1 DEF Contract!MayTake
    <3>2. CASE mine.units = 0 /\ Buyer \in mine.who
      BY <3>2 DEF Contract!MayTake
    <3>3. CASE mine.units = 0 /\ Buyer \notin mine.who
      <4>1. l.order = 0 /\ l.units = 0
        BY <2>1, <2>3, <3>3 DEF MadeFor
      <4> QED
        BY <1>5, <2>3, <3>3, <4>1 DEF Contract!MayTake
    <3> QED
      BY <2>3, <3>1, <3>2, <3>3
  <2>5. ~(l.order > 0 /\ l.units > 0)
    BY <2>1, <2>3 DEF MadeFor
  <2>6. Contract!TakeUnits(k) \/ (Out \in Contract!MayTake(mine) /\ Contract!TakeTwice(k))
    <3>1. Moves(Goods, Goods', k) \/ (MovesTwice(Goods, Goods', k) /\ Out = 0)
      BY <1>3, <1>5, <2>5, ContractSees
    <3>2. 0 \in Contract!MayTake(mine)
      BY <2>3 DEF Contract!MayTake
    <3>3. CASE Moves(Goods, Goods', k)
      BY <1>3, <3>3, ContractUnitsMoved
    <3>4. CASE MovesTwice(Goods, Goods', k) /\ Out = 0
      BY <1>3, <3>2, <3>4, ContractUnitsTwice
    <3> QED
      BY <3>1, <3>3, <3>4
  <2>7. method = "stripe" => Contract!PaidFor(mine)
    BY <1>6 DEF Contract!PaidFor
  <2>8. cancelled \subseteq cancelled' /\ cancelled' \subseteq cancelled \cup mine.who
    BY <1>4, <2>2
  <2> QED
    BY <1>2, <1>7, <2>4, <2>6, <2>7, <2>8 DEF Contract!Take, Out
<1>9. CASE r \in redirected
  <2>1. PICK all \in Selections : all.who = Attendees /\ all.units = 0
    <3>1. [who |-> Attendees, units |-> 0, amount |-> 1] \in Selections
      BY BaseType DEF Selections
    <3> QED
      BY <3>1
  <2>2. k \in Contract!MayTake(all)
    BY <2>1, BuyerAssumption DEF Contract!MayTake
  <2>3. Contract!TakeUnits(k) \/ (Out \in Contract!MayTake(all) /\ Contract!TakeTwice(k))
    <3>1. Out \in Contract!MayTake(all)
      BY <1>3, <2>1, BuyerAssumption, ContractSees DEF Contract!MayTake
    <3>2. CASE Moves(Goods, Goods', k)
      BY <1>3, <3>2, ContractUnitsMoved
    <3>3. CASE MovesTwice(Goods, Goods', k)
      BY <1>3, <1>9, <3>1, <3>3, ContractUnitsTwice
    <3> QED
      BY <1>5, <3>2, <3>3
  <2>4. method = "stripe" => Contract!PaidFor(all)
    BY <1>3, <1>6, <1>9 DEF Contract!PaidFor
  <2>5. cancelled \subseteq cancelled' /\ cancelled' \subseteq cancelled \cup all.who
    BY <1>4, <2>1
  <2> QED
    BY <1>2, <1>7, <2>2, <2>3, <2>4, <2>5 DEF Contract!Take, Out
<1> QED
  BY <1>8, <1>9

\* A PATCH writes the row again, and touches nothing the contract sees.
LEMMA ContractPatch ==
    ASSUME RefundInv, NEW w \in Workers, Patch(w)
    PROVE  \E r \in Requests : Contract!Excuse(r)
<1>1. HasRow(w)
  BY DEF Patch, HasRow
<1>2. job[w].req \in Requests
  BY <1>1, ReviewFacts
<1>3. Contract!Excuse(job[w].req)
  BY DEF Patch, Contract!Excuse, refundData
<1> QED
  BY <1>2, <1>3

\* Every other step of a process leaves money and goods where they are.
LEMMA ContractWorkflow ==
    ASSUME RefundInv, RefundInv', NEW w \in Workers,
           Creates(w) \/ (\E r \in Requests : Reads(w, r)) \/ Verify(w) \/ Reject(w) \/ GiveUp(w)
    PROVE  Contract!Settle
<1>0. RefundTypeOK
  BY DEF RefundInv
<1>1. /\ Out' = Out
      /\ UNCHANGED <<method, returned, cancelled, restocked, refused, rewritten, overlapped>>
  <2> USE DEF refundData, refundHistory
  <2>1. CASE Creates(w)
    <3>1. ASSUME NEW via, NEW c, CreateRead(w, via, c) PROVE <1>1!:
      BY <3>1 DEF CreateRead, Out
    <3>2. ASSUME NEW r, CreateCommit(w, r) PROVE <1>1!:
      BY <1>0, <3>2, BlockKeepsUnits DEF CreateCommit
    <3>3. CASE Attach(w)
      BY <1>0, <3>3, BlockKeepsUnits DEF Attach
    <3>4. ASSUME NEW r, InsertRow(w, r) PROVE <1>1!:
      BY <3>4 DEF InsertRow, Out
    <3>5. CASE Describe(w) \/ MarkPayment(w)
      BY <3>5 DEF Describe, MarkPayment, Out
    <3> QED
      BY <2>1, <3>1, <3>2, <3>3, <3>4, <3>5 DEF Creates
  <2>2. CASE \E r \in Requests : Reads(w, r)
    BY <2>2 DEF Reads, ReviewRead, PatchRead, Out
  <2>3. CASE Verify(w)
    BY <1>0, <2>3, BlockKeepsUnits DEF Verify
  <2>4. CASE Reject(w)
    BY <1>0, <2>4, RestoreKeepsUnits DEF Reject
  <2>5. CASE GiveUp(w)
    BY <2>5 DEF GiveUp, Out
  <2> QED
    BY <2>1, <2>2, <2>3, <2>4, <2>5
<1> QED
  BY <1>1, SettlesOnly

\* Every step is one of the contract, or changes nothing it sees.
LEMMA ContractStep ==
    ASSUME RefundInv, [RefundNext]_refundVars
    PROVE  [Contract!ContractNext]_(Contract!contractVars)
<1>0. RefundInv'
  BY RefundStep
<1>1. ASSUME NEW w \in Workers, Commits(w) PROVE [Contract!ContractNext]_(Contract!contractVars)
  <2>1. CASE Verify(w) \/ Reject(w)
    BY <1>0, <2>1, ContractWorkflow DEF Contract!ContractNext
  <2> QED
    BY <1>0, <1>1, <2>1, ContractAskStripe, ContractProcess, ContractPatch
    DEF Commits, Contract!ContractNext
<1>2. ASSUME NEW w \in Workers,
             Creates(w) \/ (\E r \in Requests : Reads(w, r)) \/ GiveUp(w)
      PROVE  Contract!ContractNext
  BY <1>0, <1>2, ContractWorkflow DEF Contract!ContractNext
<1>3. CASE (\E r \in Requests : Delete(r)) \/ ChargeRefunded \/ Invalidate
  <2>1. /\ Out' = Out
        /\ UNCHANGED <<method, returned, cancelled, restocked, refused, rewritten, overlapped>>
    <3>1. CASE Invalidate
      BY <3>1, BlockKeepsUnits DEF Invalidate, RefundInv
    <3>2. CASE (\E r \in Requests : Delete(r)) \/ ChargeRefunded
      BY <3>2 DEF Delete, ChargeRefunded, refundData, refundHistory, Out
    <3> QED
      BY <1>3, <3>1, <3>2
  <2> QED
    BY <1>0, <2>1, SettlesOnly DEF Contract!ContractNext
<1>4. CASE UNCHANGED refundVars
  BY <1>4 DEF refundVars, refundData, refundHistory, Contract!contractVars
<1> QED
  BY <1>1, <1>2, <1>3, <1>4 DEF RefundNext

\* Whatever requests, reviews, rewritten rows and retries are in flight, from
\* outside the refunds do what the contract promises.
THEOREM RefundsKeepContract == RefundSpec => KeepsContract
<1>1. RefundInit => Contract!ContractInit
  BY DEF RefundInit, Contract!ContractInit
<1>2. RefundInv /\ [RefundNext]_refundVars
      => [Contract!ContractNext]_(Contract!contractVars)
  BY ContractStep
<1> QED
  BY <1>1, <1>2, RefundInvariance, PTL DEF RefundSpec, KeepsContract, Contract!ContractSpec

\* The contract keeps its own invariant: from the start,
LEMMA ContractInvStart == ASSUME Contract!ContractInit PROVE Contract!ContractInv
<1>1. Total(returned) = 0 /\ IsFiniteSet(returned) /\ returned = {}
  BY TotalIsSum, SumEmpty, FS_EmptySet DEF Contract!ContractInit
<1>2. Base \in Nat /\ Base >= 1 /\ Units \in Nat
  BY BaseType
<1>3. /\ cancelled = {} /\ rewritten = {} /\ Out = Units /\ restocked = 0 /\ refused = 0
      /\ (payment = "REFUNDED") = FALSE /\ overlapped = FALSE
  BY DEF Contract!ContractInit, Out
<1>4. Contract!ContractTypeOK
  <2>1. Contract!IsFiniteSet(returned)
    BY <1>1, ContractCounts
  <2>2. (method = "stripe") \in BOOLEAN /\ (payment = "REFUNDED") \in BOOLEAN
        /\ overlapped \in BOOLEAN
    BY <1>3, Zenon
  <2>3. Out \in 0 .. Units /\ restocked \in Nat /\ refused \in Nat
    BY <1>2, <1>3
  <2> QED
    BY <1>1, <1>3, <2>1, <2>2, <2>3, Zenon DEF Contract!ContractTypeOK, Out
<1>5. Contract!MoneyBack
  <2>1. Contract!Amounts(returned) = 0
    BY <1>1, ContractCounts
  <2> QED
    BY <1>1, <1>2, <1>3, <2>1 DEF Contract!MoneyBack
<1>6. Contract!GoodsBack
  BY <1>1, <1>2, <1>3 DEF Contract!GoodsBack, Out
<1> QED
  BY <1>4, <1>5, <1>6 DEF Contract!ContractInv

\* when the payment is settled,
LEMMA ContractInvSettle ==
    ASSUME Contract!ContractInv, Contract!Settle
    PROVE  Contract!ContractInv'
<1>1. Total(returned') = Total(returned)
  BY DEF Contract!Settle
<1>2. Contract!Amounts(returned)' = Total(returned')
  BY DEF Contract!Amounts, Total, Contract!MapThenSumSet, MapThenSumSet,
         Contract!MapThenFoldSet, MapThenFoldSet
<1>3. UNCHANGED Base
  BY DEF Base
<1> QED
  BY <1>1, <1>2, <1>3, ContractCounts
  DEF Contract!Settle, Contract!Closes, Contract!ContractInv, Contract!ContractTypeOK,
      Contract!MoneyBack, Contract!GoodsBack

\* when Stripe makes a refund,
LEMMA ContractInvPayBack ==
    ASSUME Contract!ContractInv, NEW x, Contract!PayBack(x)
    PROVE  Contract!ContractInv'
<1>1. /\ x \in Refunded /\ returned \in SUBSET Refunded /\ IsFiniteSet(returned)
      /\ returned' = returned \cup {x} /\ x \notin returned
      /\ x.req \in rewritten \/ \A y \in returned : y.req # x.req
      /\ Total(returned') <= Base
      /\ UNCHANGED <<method = "stripe", cancelled, Out, restocked, refused, payment = "REFUNDED",
                     rewritten, overlapped>>
  BY ContractCounts
  DEF Contract!PayBack, Contract!ContractInv, Contract!ContractTypeOK, Refunded, Out
<1>2. returned' \in SUBSET Refunded /\ IsFiniteSet(returned')
  BY <1>1, FS_AddElement
<1>3. Total(returned) \in Nat /\ Total(returned') \in Nat /\ Total(returned) <= Total(returned')
  BY <1>1, <1>2, TotalMonotonic
<1>4. Contract!Amounts(returned)' = Total(returned')
  BY DEF Contract!Amounts, Total, Contract!MapThenSumSet, MapThenSumSet,
         Contract!MapThenFoldSet, MapThenFoldSet
<1>5. UNCHANGED Base /\ Base \in Nat
  BY BaseType DEF Base
<1>6. Contract!ContractTypeOK'
  <2>1. Contract!IsFiniteSet(returned)'
    BY <1>2 DEF Contract!IsFiniteSet, IsFiniteSet
  <2> QED
    BY <1>1, <1>2, <2>1
    DEF Contract!ContractInv, Contract!ContractTypeOK, Refunded, Out
<1>7. Contract!MoneyBack'
  <2>1. \A y, z \in returned' : y.req = z.req /\ y.req \notin rewritten => y = z
    BY <1>1 DEF Contract!ContractInv, Contract!MoneyBack
  <2> QED
    BY <1>1, <1>3, <1>4, <1>5, <2>1, ContractCounts DEF Contract!ContractInv, Contract!MoneyBack
<1>8. Contract!GoodsBack'
  BY <1>1 DEF Contract!ContractInv, Contract!GoodsBack, Out
<1> QED
  BY <1>6, <1>7, <1>8 DEF Contract!ContractInv

\* when goods are taken for it,
LEMMA ContractInvTake ==
    ASSUME Contract!ContractInv, NEW c \in Selections, Contract!Take(c)
    PROVE  Contract!ContractInv'
<1>1. /\ c.who \subseteq Attendees /\ c.units \in 0 .. Units /\ Units \in Nat
      /\ returned' = returned /\ rewritten' = rewritten /\ (method = "stripe")' = (method = "stripe")
      /\ method = "stripe" => \E x \in returned : x.chosen = c \/ x.req \in rewritten
      /\ cancelled' \subseteq cancelled \cup c.who
      /\ Contract!Closes
  BY UnitsAssumption DEF Contract!Take, Contract!PaidFor, Selections
<1>2. PICK n \in Contract!MayTake(c) :
          Contract!TakeUnits(n) \/ (Out \in Contract!MayTake(c) /\ Contract!TakeTwice(n))
  BY DEF Contract!Take, Out
<1>3. /\ n \in Nat
      /\ \A m \in Contract!MayTake(c) : m > 0 => c.units > 0 \/ Buyer \in c.who
  <2>1. CASE c.units > 0
    <3>1. Contract!MayTake(c) = 0 .. c.units
      BY <2>1 DEF Contract!MayTake
    <3> QED
      BY <1>1, <1>2, <2>1, <3>1
  <2>2. CASE c.units = 0 /\ Buyer \in c.who
    <3>1. Contract!MayTake(c) = 0 .. Units
      BY <2>2 DEF Contract!MayTake
    <3> QED
      BY <1>1, <1>2, <2>2, <3>1
  <2>3. CASE ~(c.units > 0) /\ ~(c.units = 0 /\ Buyer \in c.who)
    <3>1. Contract!MayTake(c) = {0}
      BY <2>3 DEF Contract!MayTake
    <3> QED
      BY <1>2, <3>1
  <2> QED
    BY <2>1, <2>2, <2>3
<1>4. /\ Out \in 0 .. Units /\ Out \in Nat /\ restocked \in Nat /\ refused \in Nat
      /\ overlapped \in BOOLEAN
      /\ overlapped \/ restocked + refused + Out = Units
  BY <1>1 DEF Contract!ContractInv, Contract!ContractTypeOK, Contract!GoodsBack, Out
<1>5. /\ Out' \in 0 .. Units /\ restocked' \in Nat /\ refused' \in Nat /\ overlapped' \in BOOLEAN
      /\ overlapped' \/ restocked' + refused' + Out' = Units
  <2>1. CASE Contract!TakeUnits(n)
    <3>1. n <= Out /\ Out' = Out - n /\ overlapped' = overlapped
          /\ \E k \in 0 .. n : restocked' = restocked + k /\ refused' = refused + n - k
      BY <2>1 DEF Contract!TakeUnits, Out
    <3> QED
      BY <1>1, <1>3, <1>4, <3>1
  <2>2. CASE Contract!TakeTwice(n)
    <3>1. Out' = 0 /\ overlapped' = TRUE
          /\ \E k \in 0 .. Out : restocked' = restocked + k + n /\ refused' = refused + Out - k
      BY <2>2 DEF Contract!TakeTwice, Out
    <3> QED
      BY <1>1, <1>3, <1>4, <3>1
  <2> QED
    BY <1>2, <2>1, <2>2
<1>6. Contract!Amounts(returned)' = Contract!Amounts(returned) /\ UNCHANGED Base
  BY <1>1 DEF Contract!Amounts, Contract!MapThenSumSet, Contract!MapThenFoldSet, Base
<1>7. Contract!ContractTypeOK'
  BY <1>1, <1>3, <1>4, <1>5 DEF Contract!ContractInv, Contract!ContractTypeOK, Out, Contract!Closes
<1>8. Contract!MoneyBack'
  BY <1>1, <1>6 DEF Contract!ContractInv, Contract!MoneyBack, Contract!Closes
<1>9. Contract!GoodsBack'
  <2>1. ASSUME method = "stripe", NEW m \in cancelled'
        PROVE  \E x \in returned : m \in x.chosen.who \/ x.req \in rewritten
    BY <1>1, <2>1 DEF Contract!ContractInv, Contract!GoodsBack
  <2>2. ASSUME method = "stripe", restocked' + refused' > 0
        PROVE  \E x \in returned :
                   Buyer \in x.chosen.who \/ x.chosen.units > 0 \/ x.req \in rewritten
    <3>1. restocked + refused > 0 \/ n > 0 \/ (Out \in Contract!MayTake(c) /\ Out > 0)
      <4>1. CASE Contract!TakeUnits(n)
        <5>1. \E k \in 0 .. n : restocked' = restocked + k /\ refused' = refused + n - k
          BY <4>1 DEF Contract!TakeUnits
        <5> QED
          BY <1>3, <1>4, <2>2, <5>1
      <4>2. CASE Out \in Contract!MayTake(c) /\ Contract!TakeTwice(n)
        <5>1. \E k \in 0 .. Out : restocked' = restocked + k + n /\ refused' = refused + Out - k
          BY <4>2 DEF Contract!TakeTwice, Out
        <5> QED
          BY <1>3, <1>4, <2>2, <4>2, <5>1
      <4> QED
        BY <1>2, <4>1, <4>2
    <3> QED
      BY <1>1, <1>2, <1>3, <2>2, <3>1 DEF Contract!ContractInv, Contract!GoodsBack
  <2> QED
    BY <1>1, <1>5, <2>1, <2>2 DEF Contract!GoodsBack, Out
<1> QED
  BY <1>7, <1>8, <1>9 DEF Contract!ContractInv

\* when a row is written past the workflow, and when nothing it sees changes.
LEMMA ContractInvExcuse ==
    ASSUME Contract!ContractInv, NEW r \in Requests, Contract!Excuse(r)
    PROVE  Contract!ContractInv'
<1>1. Contract!Amounts(returned)' = Contract!Amounts(returned) /\ UNCHANGED Base
  BY DEF Contract!Excuse, Contract!Amounts, Contract!MapThenSumSet, Contract!MapThenFoldSet, Base
<1> QED
  BY <1>1 DEF Contract!Excuse, Contract!ContractInv, Contract!ContractTypeOK, Contract!MoneyBack,
              Contract!GoodsBack

LEMMA ContractInvStutter ==
    ASSUME Contract!ContractInv, UNCHANGED Contract!contractVars
    PROVE  Contract!ContractInv'
<1>1. Contract!Amounts(returned)' = Contract!Amounts(returned) /\ UNCHANGED Base
  BY DEF Contract!contractVars, Contract!Amounts, Contract!MapThenSumSet,
         Contract!MapThenFoldSet, Base
<1> QED
  BY <1>1 DEF Contract!contractVars, Contract!ContractInv, Contract!ContractTypeOK,
              Contract!MoneyBack, Contract!GoodsBack

\* Whoever keeps the contract pays a request back once and all of them within
\* the price, calls a payment refunded when it was, and takes tickets and units
\* only for what was paid back or excused, each unit once.
THEOREM ContractPays ==
    KeepsContract =>
        [](PaidBackOnce /\ UnitsBalance /\ RefundedIsReturned /\ Contract!GoodsBack
           /\ AtStripe <= Base)
<1>1. Contract!ContractInit => Contract!ContractInv
  BY ContractInvStart
<1>2. Contract!ContractInv /\ [Contract!ContractNext]_(Contract!contractVars)
      => Contract!ContractInv'
  BY ContractInvSettle, ContractInvPayBack, ContractInvTake, ContractInvExcuse,
     ContractInvStutter DEF Contract!ContractNext
<1>3. Contract!ContractInv
      => PaidBackOnce /\ UnitsBalance /\ RefundedIsReturned /\ Contract!GoodsBack
         /\ AtStripe <= Base
  BY ContractCounts
  DEF Contract!ContractInv, Contract!MoneyBack, Contract!GoodsBack, PaidBackOnce, UnitsBalance,
      RefundedIsReturned
<1> QED
  BY <1>1, <1>2, <1>3, PTL DEF KeepsContract, Contract!ContractSpec

-----------------------------------------------------------------------------
(* Units of the orders whose status is in S, of the variants in V only.     *)

AnyStatus == CartStatuses \cup {NoneYet, "gone"}
CartRow   == [status : AnyStatus, units : [Variants -> Nat]]
CartRows  == [Carts -> CartRow]

Shares(u, V)   == [v \in Variants |-> IF v \in V THEN u[v] ELSE 0]
Load(u, V)     == SumOver(Shares(u, V), Variants)
Loads(c, S, V) == [o \in Carts |-> IF c[o].status \in S THEN Load(c[o].units, V) ELSE 0]
Weigh(c, S, V) == SumOver(Loads(c, S, V), Carts)

LEMMA SumIsSumOver == \A f : Sum(f) = SumOver(f, DOMAIN f)
BY DEF Sum, SumOver, FoldFunction, FoldFunctionOnSet, MapThenSumSet, MapThenFoldSet

LEMMA LoadType ==
    ASSUME NEW u \in [Variants -> Nat], NEW V
    PROVE  /\ \A v \in Variants : Shares(u, V)[v] \in Nat
           /\ Load(u, V) \in Nat
<1>1. \A v \in Variants : Shares(u, V)[v] \in Nat
  BY DEF Shares
<1> QED
  BY <1>1, RowsAssumption, SumType DEF Load

LEMMA WeighType ==
    ASSUME NEW c \in CartRows, NEW S, NEW V
    PROVE  /\ \A o \in Carts : Loads(c, S, V)[o] \in Nat
           /\ Weigh(c, S, V) \in Nat
<1>1. \A o \in Carts : Loads(c, S, V)[o] \in Nat
  BY LoadType DEF Loads, CartRows, CartRow
<1> QED
  BY <1>1, RowsAssumption, SumType DEF Weigh

\* What the module counts is such a sum, now and after a step.
LEMMA UnitsAreWeighed ==
    ASSUME NEW S, cart \in CartRows
    PROVE  UnitsIn(S) = Weigh(cart, S, Variants)
<1> DEFINE f == [o \in Carts |-> IF cart[o].status \in S THEN Sum(cart[o].units) ELSE 0]
<1>1. ASSUME NEW o \in Carts PROVE Sum(cart[o].units) = Load(cart[o].units, Variants)
  <2>1. PICK u \in [Variants -> Nat] : u = cart[o].units
    BY DEF CartRows, CartRow
  <2>2. Sum(u) = SumOver(u, Variants)
    BY SumIsSumOver
  <2>3. Shares(u, Variants) = u
    BY DEF Shares
  <2> QED
    BY <2>1, <2>2, <2>3 DEF Load
<1>2. f = Loads(cart, S, Variants)
  BY <1>1 DEF Loads
<1>3. Sum(f) = SumOver(f, Carts)
  BY SumIsSumOver
<1> QED
  BY <1>2, <1>3 DEF UnitsIn, Weigh

-----------------------------------------------------------------------------
(* Limits: how the sums change.                                             *)

LEMMA UnitTypes ==
    ASSUME NEW c \in CartRows
    PROVE  /\ \A o \in Carts : c[o] \in CartRow /\ c[o].units \in [Variants -> Nat]
           /\ \A o \in Carts, v \in Variants : c[o].units[v] \in Nat
BY DEF CartRows, CartRow

\* Less of every variant that counts is less altogether.
LEMMA LoadShrinks ==
    ASSUME NEW u \in [Variants -> Nat], NEW V, NEW x \in [Variants -> Nat], NEW W,
           \A v \in Variants : v \in W => (v \in V /\ x[v] <= u[v]) \/ x[v] = 0
    PROVE  Load(x, W) <= Load(u, V)
<1>1. \A v \in Variants : Shares(x, W)[v] <= Shares(u, V)[v]
  BY DEF Shares
<1> QED
  BY <1>1, LoadType, RowsAssumption, SumPointwise DEF Load

LEMMA LoadZero ==
    ASSUME NEW u \in [Variants -> Nat], NEW V, \A v \in Variants : v \in V => u[v] = 0
    PROVE  Load(u, V) = 0
<1>1. \A v \in Variants : Shares(u, V)[v] = 0
  BY DEF Shares
<1> QED
  BY <1>1, RowsAssumption, SumZero DEF Load

LEMMA WeighShrinks ==
    ASSUME NEW c \in CartRows, NEW S, NEW V, NEW d \in CartRows, NEW T, NEW W,
           \A o \in Carts, v \in Variants : d[o].status \in T /\ v \in W =>
               \/ c[o].status \in S /\ v \in V /\ d[o].units[v] <= c[o].units[v]
               \/ d[o].units[v] = 0
    PROVE  Weigh(d, T, W) <= Weigh(c, S, V)
<1>1. ASSUME NEW o \in Carts PROVE Loads(d, T, W)[o] <= Loads(c, S, V)[o]
  <2>1. PICK u \in [Variants -> Nat] : u = c[o].units
    BY DEF CartRows, CartRow
  <2>2. PICK x \in [Variants -> Nat] : x = d[o].units
    BY DEF CartRows, CartRow
  <2>3. Load(u, V) \in Nat /\ Load(x, W) \in Nat
    BY LoadType
  <2>4. CASE d[o].status \notin T
    BY <2>1, <2>3, <2>4 DEF Loads
  <2>5. CASE d[o].status \in T /\ c[o].status \notin S
    <3>1. Load(x, W) = 0
      BY <2>2, <2>5, LoadZero
    <3> QED
      BY <2>2, <2>5, <3>1 DEF Loads
  <2>6. CASE d[o].status \in T /\ c[o].status \in S
    <3>1. Load(x, W) <= Load(u, V)
      BY <2>1, <2>2, <2>6, LoadShrinks
    <3> QED
      BY <2>1, <2>2, <2>6, <3>1 DEF Loads
  <2> QED
    BY <2>4, <2>5, <2>6
<1>2. \A o \in Carts : Loads(d, T, W)[o] \in Nat /\ Loads(c, S, V)[o] \in Nat
  BY WeighType
<1> QED
  BY <1>1, <1>2, RowsAssumption, SumPointwise DEF Weigh

\* At most n more units of one variant in one order.
Grows(c, d, o, v, n) ==
    /\ \A x \in Carts \ {o} : d[x] = c[x]
    /\ d[o].status = c[o].status
    /\ d[o].units[v] <= c[o].units[v] + n
    /\ \A z \in Variants \ {v} : d[o].units[z] = c[o].units[z]

LEMMA LoadGrows ==
    ASSUME NEW u \in [Variants -> Nat], NEW x \in [Variants -> Nat], NEW V,
           NEW v \in Variants, NEW n \in Nat, x[v] <= u[v] + n,
           \A z \in Variants \ {v} : x[z] = u[z]
    PROVE  Load(x, V) <= Load(u, V) + n
<1> DEFINE f == Shares(u, V)
           g == Shares(x, V)
<1>1. /\ \A z \in Variants : f[z] \in Nat /\ g[z] \in Nat
      /\ SumOver(f, Variants) \in Nat /\ SumOver(g, Variants) \in Nat
  BY LoadType DEF Load
<1>2. \A z \in Variants \ {v} : f[z] = g[z]
  BY DEF Shares
<1>3. g[v] <= f[v] + n
  BY DEF Shares
<1> HIDE DEF f, g
<1>4. SumOver(g, Variants) + f[v] = SumOver(f, Variants) + g[v]
  BY <1>1, <1>2, RowsAssumption, SumChange
<1>5. SumOver(g, Variants) <= SumOver(f, Variants) + n
  BY <1>1, <1>3, <1>4
<1> QED
  BY <1>5 DEF f, g, Load

LEMMA WeighGrows ==
    ASSUME NEW c \in CartRows, NEW d \in CartRows, NEW S, NEW V,
           NEW o \in Carts, NEW v \in Variants, NEW n \in Nat, Grows(c, d, o, v, n)
    PROVE  Weigh(d, S, V) <= Weigh(c, S, V) + n
<1> DEFINE f == Loads(c, S, V)
           g == Loads(d, S, V)
<1>1. /\ \A x \in Carts : f[x] \in Nat /\ g[x] \in Nat
      /\ SumOver(f, Carts) \in Nat /\ SumOver(g, Carts) \in Nat
  BY WeighType DEF Weigh
<1>2. \A x \in Carts \ {o} : f[x] = g[x]
  BY DEF Loads, Grows
<1>3. g[o] <= f[o] + n
  <2>1. PICK u \in [Variants -> Nat] : u = c[o].units
    BY DEF CartRows, CartRow
  <2>2. PICK x \in [Variants -> Nat] : x = d[o].units
    BY DEF CartRows, CartRow
  <2>3. Load(x, V) <= Load(u, V) + n
    BY <2>1, <2>2, LoadGrows DEF Grows
  <2> QED
    BY <2>1, <2>2, <2>3 DEF Loads, Grows
<1> HIDE DEF f, g
<1>4. SumOver(g, Carts) + f[o] = SumOver(f, Carts) + g[o]
  BY <1>1, <1>2, RowsAssumption, SumChange
<1>5. SumOver(g, Carts) <= SumOver(f, Carts) + n
  BY <1>1, <1>3, <1>4
<1> QED
  BY <1>5 DEF f, g, Weigh

\* With nothing in orders that wait for a refund, what counts is all there is.
LEMMA KeptIsCounted ==
    ASSUME NEW c \in CartRows, Weigh(c, InRefund, Variants) = 0
    PROVE  Weigh(c, KeptStatuses, Variants) = Weigh(c, CountedStatuses, Variants)
<1>1. ASSUME NEW o \in Carts
      PROVE  Loads(c, KeptStatuses, Variants)[o] = Loads(c, CountedStatuses, Variants)[o]
  <2>1. Loads(c, InRefund, Variants)[o] <= 0 /\ Loads(c, InRefund, Variants)[o] \in Nat
    BY WeighType, RowsAssumption, SumTerm DEF Weigh
  <2>2. Loads(c, InRefund, Variants)[o] = 0
    BY <2>1
  <2>3. KeptStatuses = CountedStatuses \cup InRefund
    BY DEF KeptStatuses, CountedStatuses, InRefund, OpenCart
  <2> QED
    BY <2>2, <2>3 DEF Loads
<1> QED
  BY <1>1, RowsAssumption, SumSame DEF Weigh

-----------------------------------------------------------------------------
(* Limits: the inductive invariant.                                         *)

AddsItem(j) == j.op \in {"create", "add"} /\ j.ord # NoneYet
OfOrder(j)  == j.op \in {"add", "update", "locked", "remove", "move"}
ItemOps     == {"create", "add", "update", "locked", "remove"}

\* Requests know orders that were made, and the move they make was allowed when
\* they looked.
JobIn(c, j) ==
    /\ j.op \in ItemOps => j.lines # <<>>
    /\ OfOrder(j) \/ AddsItem(j) => j.ord \in Carts /\ c[j.ord].status # NoneYet
    /\ j.op = "move" => j.found \in AnyStatus /\ j.to \in Transitions(j.found)
    /\ j.counted => AddsItem(j) \/ j.op = "locked"
    /\ j.op = "locked" => j.counted

Locks(j, o) == j.op = "locked" /\ j.ord = o

\* An order that was not made is empty; one request has the lock of an order.
ShopInv ==
    /\ \A o \in Carts : cart[o].status = NoneYet => cart[o].units = NoUnits
    /\ \A w \in Shoppers : JobIn(cart, shopping[w])
    /\ \A w, x \in Shoppers, o \in Carts : Locks(shopping[w], o) /\ Locks(shopping[x], o) => w = x

\* How many more units a request that has counted will make it.
More(c, j) ==
    IF j.op = "locked" THEN Increase(c[j.ord].units[Head(j.lines)[1]], Head(j.lines)[2])
                       ELSE Head(j.lines)[2]

\* What a request has counted leaves room for them until others add theirs.
RoomIn(c, j) ==
    j.counted /\ ~j.late /\ More(c, j) > 0 =>
        Weigh(c, CountedStatuses, Variants) + More(c, j) <= EffectiveLimit(Head(j.lines)[1])
CountInv == \A w \in Shoppers : RoomIn(cart, shopping[w])

\* The units of the variants whose limit is at most n are at most n, whichever
\* of them are there: so it stays when some of them go.
Below(n)   == {v \in Variants : EffectiveLimit(v) <= n}
LevelIn(c) == \A n \in Nat : Weigh(c, KeptStatuses, Below(n)) <= n

LimitInv ==
    /\ LimitTypeOK /\ ShopInv
    /\ bypassed = {} => CountInv /\ LevelIn(cart)
-----------------------------------------------------------------------------
(* Limits: types.                                                           *)

Lines == Seq(Variants \X (1 .. MostUnits))

LEMMA JobTypes ==
    /\ NoJob \in ShopJobs
    /\ NoJob.op = NoneYet /\ NoJob.ord = NoneYet /\ ~NoJob.counted /\ NoJob.found = NoneYet
    /\ \A j \in ShopJobs : /\ j.lines \in Lines /\ j.counted \in BOOLEAN /\ j.late \in BOOLEAN
                           /\ j.ord \in Carts \cup {NoneYet}
    /\ \A v \in Variants, n \in 1 .. MostUnits :
          << <<v, n>> >> \in Lines /\ << <<v, n>> >> # <<>> /\ Head(<< <<v, n>> >>) = <<v, n>>
<1>1. <<>> \in Lines
  BY DEF Lines
<1> QED
  BY <1>1 DEF NoJob, ShopJobs, Lines

LEMMA LineTypes ==
    ASSUME NEW l \in Lines, l # <<>>
    PROVE  /\ Head(l)[1] \in Variants /\ Head(l)[2] \in 1 .. MostUnits
           /\ Head(l)[2] \in Nat \ {0}
           /\ Tail(l) \in Lines
           /\ Len(l) \in Nat /\ Len(l) # 0 /\ (Len(l) # 1 => Tail(l) # <<>>)
<1>1. Head(l) \in Variants \X (1 .. MostUnits) /\ Tail(l) \in Lines
  BY DEF Lines
<1>2. Head(l)[1] \in Variants /\ Head(l)[2] \in 1 .. MostUnits
  BY <1>1
<1>3. Head(l)[2] \in Nat \ {0}
  BY <1>2, BasketsAssumption
<1>4. Len(l) \in Nat /\ Len(l) # 0 /\ (Len(l) # 1 => Tail(l) # <<>>)
  <2> DEFINE T == Variants \X (1 .. MostUnits)
  <2>1. l \in Seq(T)
    BY DEF Lines
  <2> HIDE DEF T
  <2>2. Len(l) \in Nat \ {0} /\ Len(Tail(l)) = Len(l) - 1
    BY <2>1, EmptySeq, HeadTailProperties
  <2>3. Len(l) # 1 => Len(Tail(l)) # 0
    BY <2>2
  <2> QED
    BY <2>2, <2>3, EmptySeq
<1> QED
  BY <1>1, <1>2, <1>3, <1>4

LEMMA LimitType == \A v \in Variants : EffectiveLimit(v) \in Nat \ {0}
BY LimitsAssumption DEF EffectiveLimit

LEMMA RowTypes ==
    ASSUME LimitTypeOK
    PROVE  /\ cart \in CartRows
           /\ \A o \in Carts : cart[o].status \in AnyStatus /\ cart[o].units \in [Variants -> Nat]
           /\ \A w \in Shoppers : shopping[w] \in ShopJobs
           /\ ordered \in 0 .. MaxOrdered
           /\ bypassed \subseteq {"raced", "in refund", "revived"}
BY DEF LimitTypeOK, CartRows, CartRow, AnyStatus

LEMMA RowTypesNext ==
    ASSUME cart' \in CartRows, shopping' \in [Shoppers -> ShopJobs],
           ordered' \in 0 .. MaxOrdered, bypassed' \subseteq {"raced", "in refund", "revived"}
    PROVE  LimitTypeOK'
BY DEF LimitTypeOK, CartRows, CartRow, AnyStatus

-----------------------------------------------------------------------------
(* Limits: what the steps have in common.                                   *)

\* The request goes on with what it has, though others may have added units.
GoesOn(old, new) ==
    /\ new.op = old.op /\ new.ord = old.ord /\ new.lines = old.lines
    /\ new.counted = old.counted /\ new.found = old.found /\ new.to = old.to
    /\ new.late = old.late \/ new.late = old.counted

\* Orders stay made, and what is not made stays empty.
Stays(c, d) ==
    \A o \in Carts : /\ c[o].status # NoneYet => d[o].status # NoneYet
                     /\ d[o].status = NoneYet => d[o] = c[o]

\* A task that is new or ends.
Starts(c, x, new) ==
    /\ JobIn(c, new)
    /\ \A o \in Carts : Locks(new, o) => \A y \in Shoppers \ {x} : ~Locks(shopping[y], o)

LEMMA ShopKeeps ==
    ASSUME LimitInv, Stays(cart, cart'), NEW W \in SUBSET Shoppers,
           \A x \in Shoppers \ W : GoesOn(shopping[x], shopping'[x]),
           \A x \in W : Starts(cart', x, shopping'[x]),
           \A x, y \in W : x = y
    PROVE  ShopInv'
<1>1. ShopInv /\ LimitTypeOK
  BY DEF LimitInv
<1>2. \A o \in Carts : cart'[o].status = NoneYet => cart'[o].units = NoUnits
  BY <1>1 DEF ShopInv, Stays
<1>3. ASSUME NEW x \in Shoppers PROVE JobIn(cart', shopping'[x])
  <2>1. CASE x \in W
    BY <2>1 DEF Starts
  <2>2. CASE x \notin W
    BY <1>1, <2>2 DEF ShopInv, JobIn, GoesOn, Stays, OfOrder, AddsItem
  <2> QED
    BY <2>1, <2>2
<1>4. ASSUME NEW x \in Shoppers, NEW y \in Shoppers, NEW o \in Carts,
             Locks(shopping'[x], o), Locks(shopping'[y], o)
      PROVE  x = y
  <2>1. \A z \in Shoppers \ W : Locks(shopping'[z], o) => Locks(shopping[z], o)
    BY DEF GoesOn, Locks
  <2> QED
    BY <1>1, <1>4, <2>1 DEF ShopInv, Starts
<1> QED
  BY <1>2, <1>3, <1>4 DEF ShopInv, NoUnits

\* Orders that wait for nobody's lock, of whom nothing has more units than before
\* and nothing that did not count counts.
Less(c, d, S) ==
    \A o \in Carts, v \in Variants : d[o].status \in S =>
        \/ c[o].status \in S /\ d[o].units[v] <= c[o].units[v]
        \/ d[o].units[v] = 0

LEMMA LevelKeeps ==
    ASSUME NEW c \in CartRows, NEW d \in CartRows, LevelIn(c), Less(c, d, KeptStatuses)
    PROVE  LevelIn(d)
<1> SUFFICES ASSUME NEW n \in Nat PROVE Weigh(d, KeptStatuses, Below(n)) <= n
  BY DEF LevelIn
<1>1. Weigh(d, KeptStatuses, Below(n)) <= Weigh(c, KeptStatuses, Below(n))
  BY WeighShrinks DEF Less
<1>2. Weigh(d, KeptStatuses, Below(n)) \in Nat /\ Weigh(c, KeptStatuses, Below(n)) \in Nat
  BY WeighType
<1> QED
  BY <1>1, <1>2 DEF LevelIn

LEMMA MoreType ==
    ASSUME NEW c \in CartRows, NEW j \in ShopJobs, j.counted, JobIn(c, j)
    PROVE  /\ Head(j.lines)[1] \in Variants
           /\ More(c, j) \in Nat
           /\ EffectiveLimit(Head(j.lines)[1]) \in Nat
<1>1. j.lines \in Lines /\ j.lines # <<>>
  BY JobTypes DEF JobIn, AddsItem, ItemOps
<1>2. Head(j.lines)[1] \in Variants /\ Head(j.lines)[2] \in Nat
  BY <1>1, LineTypes
<1>3. j.op = "locked" => c[j.ord].units[Head(j.lines)[1]] \in Nat
  BY <1>2 DEF JobIn, OfOrder, CartRows, CartRow
<1> QED
  BY <1>2, <1>3, LimitType DEF More, Increase

LEMMA RoomKeeps ==
    ASSUME NEW c \in CartRows, NEW d \in CartRows, NEW j \in ShopJobs, JobIn(c, j),
           RoomIn(c, j), Less(c, d, CountedStatuses),
           j.op = "locked" => d[j.ord].units = c[j.ord].units
    PROVE  RoomIn(d, j)
<1> SUFFICES ASSUME j.counted, ~j.late, More(d, j) > 0
             PROVE  Weigh(d, CountedStatuses, Variants) + More(d, j)
                        <= EffectiveLimit(Head(j.lines)[1])
  BY DEF RoomIn
<1>1. More(d, j) = More(c, j)
  BY DEF More
<1>2. More(c, j) \in Nat /\ EffectiveLimit(Head(j.lines)[1]) \in Nat
  BY MoreType
<1>3. Weigh(d, CountedStatuses, Variants) <= Weigh(c, CountedStatuses, Variants)
  BY WeighShrinks DEF Less
<1>4. /\ Weigh(d, CountedStatuses, Variants) \in Nat
      /\ Weigh(c, CountedStatuses, Variants) \in Nat
  BY WeighType
<1>5. Weigh(c, CountedStatuses, Variants) + More(c, j) <= EffectiveLimit(Head(j.lines)[1])
  BY <1>1 DEF RoomIn
<1> QED
  BY <1>1, <1>2, <1>3, <1>4, <1>5

Aged(old, new) == new = [old EXCEPT !.late = old.counted]

\* A step: the requests in W, one at most, start, go on or end; what the others
\* have counted is still so or is late.
LEMMA StepKeeps ==
    ASSUME LimitInv, LimitTypeOK', bypassed \subseteq bypassed', Stays(cart, cart'),
           NEW W \in SUBSET Shoppers, \A x, y \in W : x = y,
           \A x \in W : Starts(cart', x, shopping'[x]),
           \A x \in Shoppers \ W :
               /\ shopping'[x] = shopping[x] \/ Aged(shopping[x], shopping'[x])
               /\ shopping[x].op = "locked" =>
                      cart'[shopping[x].ord].units = cart[shopping[x].ord].units,
           bypassed' = {} =>
               /\ LevelIn(cart')
               /\ \A x \in W : RoomIn(cart', shopping'[x])
               /\ \/ Less(cart, cart', CountedStatuses)
                  \/ \A x \in Shoppers \ W : Aged(shopping[x], shopping'[x])
    PROVE  LimitInv'
<1>1. /\ cart \in CartRows /\ cart' \in CartRows
      /\ \A x \in Shoppers : shopping[x] \in ShopJobs /\ shopping'[x] \in ShopJobs
  BY DEF LimitInv, LimitTypeOK, CartRows, CartRow, AnyStatus
<1>2. \A x \in Shoppers : Aged(shopping[x], shopping'[x]) => GoesOn(shopping[x], shopping'[x])
  BY <1>1 DEF Aged, GoesOn, ShopJobs
<1>3. \A x \in Shoppers \ W : GoesOn(shopping[x], shopping'[x])
  BY <1>2 DEF GoesOn
<1>4. ShopInv'
  BY <1>3, ShopKeeps
<1>5. ASSUME bypassed' = {} PROVE CountInv' /\ LevelIn(cart)'
  <2>1. bypassed = {} /\ CountInv /\ ShopInv
    BY <1>5 DEF LimitInv
  <2>2. ASSUME NEW x \in Shoppers PROVE RoomIn(cart', shopping'[x])
    <3>1. CASE x \in W
      BY <1>5, <3>1
    <3>2. CASE x \notin W /\ Aged(shopping[x], shopping'[x])
      <4>1. shopping'[x].late = shopping[x].counted /\ shopping'[x].counted = shopping[x].counted
        BY <1>1, <3>2 DEF Aged, ShopJobs
      <4> QED
        BY <4>1 DEF RoomIn
    <3>3. CASE x \notin W /\ ~Aged(shopping[x], shopping'[x])
      <4>1. shopping'[x] = shopping[x] /\ Less(cart, cart', CountedStatuses)
        BY <1>5, <3>3
      <4>2. RoomIn(cart, shopping[x]) /\ JobIn(cart, shopping[x])
        BY <2>1 DEF CountInv, ShopInv
      <4>3. shopping[x].op = "locked" =>
                cart'[shopping[x].ord].units = cart[shopping[x].ord].units
        BY <3>3
      <4>4. RoomIn(cart', shopping[x])
        BY <1>1, <4>1, <4>2, <4>3, RoomKeeps
      <4> QED
        BY <4>1, <4>4
    <3> QED
      BY <3>1, <3>2, <3>3
  <2> QED
    BY <1>5, <2>2 DEF CountInv
<1> QED
  BY <1>4, <1>5 DEF LimitInv

\* A step that changes no order.
LEMMA SameCartKeeps ==
    ASSUME LimitInv, NEW w \in Shoppers, NEW j \in ShopJobs, Continues(w, j),
           cart' = cart, ordered' \in 0 .. MaxOrdered, bypassed' = bypassed,
           JobIn(cart, j), bypassed = {} => RoomIn(cart, j),
           \A o \in Carts : Locks(j, o) => \A y \in Shoppers \ {w} : ~Locks(shopping[y], o)
    PROVE  LimitInv'
<1>1. /\ LimitTypeOK /\ cart \in CartRows /\ shopping \in [Shoppers -> ShopJobs]
      /\ bypassed \subseteq {"raced", "in refund", "revived"}
      /\ bypassed = {} => LevelIn(cart)
  BY DEF LimitInv, LimitTypeOK, CartRows, CartRow, AnyStatus
<1>2. /\ shopping' \in [Shoppers -> ShopJobs] /\ shopping'[w] = j
      /\ \A x \in Shoppers \ {w} : shopping'[x] = shopping[x]
  BY <1>1 DEF Continues
<1>3. LimitTypeOK'
  BY <1>1, <1>2, RowTypesNext
<1>4. Stays(cart, cart') /\ Starts(cart', w, shopping'[w])
  BY <1>2 DEF Stays, Starts
<1>5. Less(cart, cart', CountedStatuses)
  <2>1. \A o \in Carts, v \in Variants : cart[o].units[v] \in Nat
    BY <1>1 DEF CartRows, CartRow
  <2> QED
    BY <2>1 DEF Less
<1>6. bypassed' = {} => LevelIn(cart') /\ RoomIn(cart', shopping'[w])
  BY <1>1, <1>2
<1> QED
  BY <1>2, <1>3, <1>4, <1>5, <1>6, StepKeeps, {w} \in SUBSET Shoppers

-----------------------------------------------------------------------------
(* Limits: steps that change no order.                                      *)

LEMMA AnotherType ==
    ASSUME LimitInv, Another
    PROVE  ordered' \in 0 .. MaxOrdered
<1>1. ordered \in 0 .. MaxOrdered
  BY RowTypes DEF LimitInv
<1> QED
  BY <1>1, OrderedAssumption DEF Another

LEMMA Validate_Inv ==
    ASSUME LimitInv, NEW w \in Shoppers, NEW basket \in Baskets, Validate(w, basket)
    PROVE  LimitInv'
<1> DEFINE j == [NoJob EXCEPT !.op = "create", !.lines = basket]
<1>1. basket \in Lines /\ basket # <<>>
  BY BasketsAssumption DEF Lines
<1>2. /\ j \in ShopJobs /\ j.op = "create" /\ j.lines = basket /\ j.ord = NoneYet
      /\ ~j.counted
  BY <1>1, JobTypes DEF ShopJobs, NoJob, Lines
<1>3. /\ Continues(w, j) /\ cart' = cart /\ bypassed' = bypassed
  BY DEF Validate, Begins, Continues
<1>4. ordered' \in 0 .. MaxOrdered
  BY AnotherType DEF Validate
<1> HIDE DEF j
<1>5. JobIn(cart, j) /\ RoomIn(cart, j) /\ \A o \in Carts : ~Locks(j, o)
  BY <1>1, <1>2 DEF JobIn, RoomIn, Locks, OfOrder, AddsItem
<1> QED
  BY <1>2, <1>3, <1>4, <1>5, SameCartKeeps

LEMMA ReadDraft_Inv ==
    ASSUME LimitInv, NEW w \in Shoppers, NEW op \in {"add", "update", "remove"},
           NEW o \in Carts, NEW v \in Variants, NEW n \in 1 .. MostUnits,
           ReadDraft(w, op, o, v, n)
    PROVE  LimitInv'
<1> DEFINE j == [NoJob EXCEPT !.op = op, !.ord = o, !.lines = << <<v, n>> >>]
<1>1. /\ j \in ShopJobs /\ j.op = op /\ j.lines # <<>> /\ j.ord = o /\ ~j.counted
  BY JobTypes DEF ShopJobs, NoJob, Lines
<1>2. /\ Continues(w, j) /\ cart' = cart /\ bypassed' = bypassed
      /\ cart[o].status = "draft"
  BY DEF ReadDraft, Begins, Continues
<1>3. ordered' \in 0 .. MaxOrdered
  BY AnotherType DEF ReadDraft
<1> HIDE DEF j
<1>4. JobIn(cart, j) /\ RoomIn(cart, j) /\ \A x \in Carts : ~Locks(j, x)
  BY <1>1, <1>2 DEF JobIn, RoomIn, Locks, OfOrder, AddsItem, NoneYet
<1> QED
  BY <1>1, <1>2, <1>3, <1>4, SameCartKeeps

LEMMA ReadForTransition_Inv ==
    ASSUME LimitInv, NEW w \in Shoppers, NEW o \in Carts, NEW to \in CartStatuses,
           ReadForTransition(w, o, to)
    PROVE  LimitInv'
<1> DEFINE j == [NoJob EXCEPT !.op = "move", !.ord = o, !.to = to, !.found = cart[o].status]
<1>1. /\ Continues(w, j) /\ cart' = cart /\ bypassed' = bypassed
      /\ Row(o) /\ to \in Transitions(cart[o].status)
  BY DEF ReadForTransition, Begins, Continues
<1>2. ordered' \in 0 .. MaxOrdered
  BY AnotherType DEF ReadForTransition
<1>3. cart[o].status \in CartStatuses /\ cart[o].status # NoneYet /\ cart[o].status \in AnyStatus
  BY <1>1, RowTypes DEF LimitInv, Row, AnyStatus
<1>4. /\ j \in ShopJobs /\ j.op = "move" /\ j.ord = o /\ ~j.counted
      /\ j.found = cart[o].status /\ j.to = to
  BY <1>3, JobTypes DEF ShopJobs, NoJob
<1> HIDE DEF j
<1>5. JobIn(cart, j) /\ RoomIn(cart, j) /\ \A x \in Carts : ~Locks(j, x)
  BY <1>1, <1>3, <1>4 DEF JobIn, RoomIn, Locks, OfOrder, AddsItem, ItemOps
<1> QED
  BY <1>1, <1>2, <1>4, <1>5, SameCartKeeps

LEMMA IdleFits ==
    /\ \A c : JobIn(c, NoJob) /\ RoomIn(c, NoJob)
    /\ \A o \in Carts : ~Locks(NoJob, o)
BY JobTypes DEF JobIn, RoomIn, Locks, OfOrder, AddsItem, ItemOps, NoneYet

LEMMA LeaveOff_Inv ==
    ASSUME LimitInv, NEW w \in Shoppers, LeaveOff(w)
    PROVE  LimitInv'
<1>1. /\ Continues(w, NoJob) /\ cart' = cart /\ bypassed' = bypassed
      /\ ordered' = ordered /\ ordered \in 0 .. MaxOrdered
  BY RowTypes DEF LeaveOff, LimitInv
<1> QED
  BY <1>1, JobTypes, IdleFits, SameCartKeeps

LEMMA CountedIsWeighed ==
    ASSUME LimitInv, NEW v, NEW n, Permits(v, n)
    PROVE  Weigh(cart, CountedStatuses, Variants) + n <= EffectiveLimit(v)
BY RowTypes, UnitsAreWeighed DEF LimitInv, Permits, Counted

LEMMA CountForAdd_Inv ==
    ASSUME LimitInv, NEW w \in Shoppers, CountForAdd(w)
    PROVE  LimitInv'
<1> DEFINE task  == shopping[w]
           line == Head(task.lines)
           j    == [task EXCEPT !.counted = TRUE]
<1>1. /\ AddsItem(task) /\ task.op # "locked" /\ task \in ShopJobs
      /\ cart' = cart /\ bypassed' = bypassed /\ ordered' \in 0 .. MaxOrdered
      /\ Continues(w, IF Permits(line[1], line[2]) THEN j ELSE NoJob)
  BY RowTypes DEF CountForAdd, LimitInv, AddsItem
<1>2. CASE ~Permits(line[1], line[2])
  <2>1. Continues(w, NoJob)
    BY <1>1, <1>2
  <2> QED
    BY <1>1, <2>1, JobTypes, IdleFits, SameCartKeeps
<1>3. CASE Permits(line[1], line[2])
  <2>1. Continues(w, j)
    BY <1>1, <1>3
  <2>2. /\ j \in ShopJobs /\ j.op = task.op /\ j.ord = task.ord /\ j.lines = task.lines
    BY <1>1 DEF ShopJobs
  <2>3. JobIn(cart, task)
    BY DEF LimitInv, ShopInv
  <2>4. /\ Weigh(cart, CountedStatuses, Variants) + line[2] <= EffectiveLimit(line[1])
    BY <1>3, CountedIsWeighed
  <2> HIDE DEF j
  <2>5. JobIn(cart, j) /\ RoomIn(cart, j) /\ \A x \in Carts : ~Locks(j, x)
    BY <1>1, <2>2, <2>3, <2>4 DEF JobIn, RoomIn, More, Locks, OfOrder, AddsItem, ItemOps
  <2> QED
    BY <1>1, <2>1, <2>2, <2>5, SameCartKeeps
<1> QED
  BY <1>2, <1>3

LEMMA LockForUpdate_Inv ==
    ASSUME LimitInv, NEW w \in Shoppers, LockForUpdate(w)
    PROVE  LimitInv'
<1> DEFINE task  == shopping[w]
           line == Head(task.lines)
           more == Increase(cart[task.ord].units[line[1]], line[2])
           j    == [task EXCEPT !.op = "locked", !.counted = TRUE]
<1>1. /\ task.op = "update" /\ task \in ShopJobs /\ Unlocked(task.ord)
      /\ cart' = cart /\ bypassed' = bypassed /\ ordered' \in 0 .. MaxOrdered
      /\ Continues(w, IF more = 0 \/ Permits(line[1], more) THEN j ELSE NoJob)
  BY RowTypes DEF LockForUpdate, LimitInv
<1>2. CASE ~(more = 0 \/ Permits(line[1], more))
  <2>1. Continues(w, NoJob)
    BY <1>1, <1>2
  <2> QED
    BY <1>1, <2>1, JobTypes, IdleFits, SameCartKeeps
<1>3. CASE more = 0 \/ Permits(line[1], more)
  <2>1. Continues(w, j)
    BY <1>1, <1>3
  <2>2. /\ j \in ShopJobs /\ j.op = "locked" /\ j.ord = task.ord /\ j.lines = task.lines
        /\ j.counted
    BY <1>1 DEF ShopJobs
  <2>3. JobIn(cart, task) /\ more \in Nat
    <3>1. JobIn(cart, task)
      BY DEF LimitInv, ShopInv
    <3>2. task.lines \in Lines /\ task.lines # <<>> /\ task.ord \in Carts
      BY <1>1, <3>1, JobTypes DEF JobIn, ItemOps, OfOrder
    <3>3. line[1] \in Variants /\ line[2] \in Nat
      BY <3>2, LineTypes
    <3>4. cart[task.ord].units[line[1]] \in Nat
      BY <3>2, <3>3, RowTypes DEF LimitInv
    <3> QED
      BY <3>1, <3>3, <3>4 DEF Increase
  <2>4. more > 0 => Weigh(cart, CountedStatuses, Variants) + more <= EffectiveLimit(line[1])
    BY <1>3, <2>3, CountedIsWeighed
  <2>5. \A o \in Carts : Locks(j, o) => \A y \in Shoppers \ {w} : ~Locks(shopping[y], o)
    BY <1>1, <2>2 DEF Locks, Unlocked
  <2>6. More(cart, j) = more
    BY <2>2 DEF More
  <2> HIDE DEF j, more
  <2>7. JobIn(cart, j) /\ RoomIn(cart, j)
    BY <1>1, <2>2, <2>3, <2>4, <2>6 DEF JobIn, RoomIn, OfOrder, AddsItem, ItemOps
  <2> QED
    BY <1>1, <2>1, <2>2, <2>5, <2>7, SameCartKeeps
<1> QED
  BY <1>2, <1>3

-----------------------------------------------------------------------------
(* Limits: more units.                                                      *)

LEMMA LevelGrows ==
    ASSUME NEW c \in CartRows, NEW d \in CartRows, LevelIn(c),
           Weigh(c, InRefund, Variants) = 0, NEW o \in Carts, NEW v \in Variants,
           NEW n \in Nat, Grows(c, d, o, v, n),
           Weigh(c, CountedStatuses, Variants) + n <= EffectiveLimit(v)
    PROVE  LevelIn(d)
<1> SUFFICES ASSUME NEW m \in Nat PROVE Weigh(d, KeptStatuses, Below(m)) <= m
  BY DEF LevelIn
<1> DEFINE K(r, V) == Weigh(r, KeptStatuses, V)
<1>1. K(c, Variants) \in Nat /\ K(d, Variants) \in Nat /\ K(c, Below(m)) \in Nat /\ K(d, Below(m)) \in Nat
  BY WeighType
<1>2. \A x \in Carts, z \in Variants : c[x].units[z] \in Nat /\ d[x].units[z] \in Nat
  BY DEF CartRows, CartRow
<1>3. CASE v \in Below(m)
  <2>1. K(d, Below(m)) <= K(d, Variants)
    BY <1>2, WeighShrinks
  <2>2. K(d, Variants) <= K(c, Variants) + n
    BY WeighGrows
  <2>3. K(c, Variants) = Weigh(c, CountedStatuses, Variants)
    BY KeptIsCounted
  <2>4. EffectiveLimit(v) \in Nat /\ EffectiveLimit(v) <= m
    BY <1>3, LimitType DEF Below
  <2> HIDE DEF K
  <2>5. K(d, Below(m)) <= m
    BY <1>1, <2>1, <2>2, <2>3, <2>4
  <2> QED
    BY <2>5 DEF K
<1>4. CASE v \notin Below(m)
  <2>1. \A x \in Carts, z \in Variants : z # v => d[x].units[z] = c[x].units[z]
    BY DEF Grows
  <2>2. \A x \in Carts : d[x].status = c[x].status
    BY DEF Grows
  <2>3. K(d, Below(m)) <= K(c, Below(m))
    BY <1>2, <1>4, <2>1, <2>2, WeighShrinks
  <2>4. K(c, Below(m)) <= m
    BY DEF LevelIn
  <2> HIDE DEF K
  <2>5. K(d, Below(m)) <= m
    BY <1>1, <2>3, <2>4
  <2> QED
    BY <2>5 DEF K
<1> QED
  BY <1>3, <1>4

\* Who adds units without having gone past a hole has room for them.
LEMMA NoteFacts ==
    ASSUME LimitInv, NEW w \in Shoppers, NoteGrowth(w)
    PROVE  /\ bypassed' \subseteq {"raced", "in refund", "revived"}
           /\ bypassed \subseteq bypassed'
           /\ bypassed' = {} => ~shopping[w].late /\ Weigh(cart, InRefund, Variants) = 0
<1>1. bypassed \subseteq {"raced", "in refund", "revived"} /\ cart \in CartRows
  BY RowTypes DEF LimitInv
<1>2. UnitsIn(InRefund) = Weigh(cart, InRefund, Variants) /\ Weigh(cart, InRefund, Variants) \in Nat
  BY <1>1, UnitsAreWeighed, WeighType
<1>3. PICK u \in Nat : u = UnitsIn(InRefund)
  BY <1>2
<1>4. bypassed' = bypassed \cup (IF shopping[w].late THEN {"raced"} ELSE {})
                           \cup (IF u > 0 THEN {"in refund"} ELSE {})
  BY <1>3 DEF NoteGrowth
<1>5. bypassed' = {} => ~shopping[w].late /\ ~(u > 0)
  BY <1>4
<1>6. ~(u > 0) => u = 0
  OBVIOUS
<1>7. bypassed' \subseteq {"raced", "in refund", "revived"} /\ bypassed \subseteq bypassed'
  BY <1>1, <1>4
<1> QED
  BY <1>2, <1>3, <1>5, <1>6, <1>7

LEMMA GrowthKeeps ==
    ASSUME LimitInv, NEW w \in Shoppers, NEW j \in ShopJobs, ContinuesAndAges(w, j),
           JobIn(cart', j), ~j.counted, j.op # "locked",
           NEW o \in Carts, NEW v \in Variants, NEW n \in Nat,
           cart' \in CartRows, Grows(cart, cart', o, v, n), cart[o].status # NoneYet,
           \A x \in Shoppers \ {w} : ~Locks(shopping[x], o),
           NoteGrowth(w), ordered' \in 0 .. MaxOrdered,
           bypassed = {} /\ ~shopping[w].late =>
               Weigh(cart, CountedStatuses, Variants) + n <= EffectiveLimit(v)
    PROVE  LimitInv'
<1>1. /\ LimitTypeOK /\ cart \in CartRows /\ \A x \in Shoppers : shopping[x] \in ShopJobs
  BY RowTypes DEF LimitInv
<1>2. /\ shopping'[w] = j
      /\ \A x \in Shoppers \ {w} : Aged(shopping[x], shopping'[x])
      /\ shopping' \in [Shoppers -> ShopJobs]
  <2>1. \A x \in Shoppers : [shopping[x] EXCEPT !.late = shopping[x].counted] \in ShopJobs
    BY <1>1 DEF ShopJobs
  <2> QED
    BY <2>1 DEF ContinuesAndAges, Aged
<1>3. /\ bypassed' \subseteq {"raced", "in refund", "revived"} /\ bypassed \subseteq bypassed'
      /\ bypassed' = {} => ~shopping[w].late /\ Weigh(cart, InRefund, Variants) = 0
  BY NoteFacts
<1>4. LimitTypeOK'
  BY <1>2, <1>3, RowTypesNext
<1>5. Stays(cart, cart')
  BY DEF Stays, Grows
<1>6. Starts(cart', w, shopping'[w])
  BY <1>2 DEF Starts, Locks
<1>7. \A x \in Shoppers \ {w} : shopping[x].op = "locked" =>
          cart'[shopping[x].ord].units = cart[shopping[x].ord].units
  <2>1. \A x \in Shoppers : shopping[x].op = "locked" => shopping[x].ord \in Carts
    BY DEF LimitInv, ShopInv, JobIn, OfOrder
  <2> QED
    BY <2>1 DEF Locks, Grows
<1>8. ASSUME bypassed' = {} PROVE LevelIn(cart') /\ RoomIn(cart', shopping'[w])
  <2>1. bypassed = {} /\ ~shopping[w].late /\ Weigh(cart, InRefund, Variants) = 0
    BY <1>3, <1>8
  <2>2. LevelIn(cart) /\ Weigh(cart, CountedStatuses, Variants) + n <= EffectiveLimit(v)
    BY <2>1 DEF LimitInv
  <2>3. LevelIn(cart')
    BY <1>1, <2>1, <2>2, LevelGrows
  <2> QED
    BY <1>2, <2>3 DEF RoomIn
<1> QED
  BY <1>2, <1>3, <1>4, <1>5, <1>6, <1>7, <1>8, StepKeeps, {w} \in SUBSET Shoppers

\* The line a request works on, and what it knows of its order.
LEMMA LineOf ==
    ASSUME LimitInv, NEW w \in Shoppers,
           shopping[w].op \in {"add", "update", "locked", "remove"} \/ AddsItem(shopping[w])
    PROVE  /\ shopping[w] \in ShopJobs /\ JobIn(cart, shopping[w])
           /\ shopping[w].ord \in Carts /\ cart[shopping[w].ord].status # NoneYet
           /\ shopping[w].lines \in Lines /\ shopping[w].lines # <<>>
           /\ Head(shopping[w].lines)[1] \in Variants
           /\ Head(shopping[w].lines)[2] \in Nat \ {0}
<1>1. shopping[w] \in ShopJobs /\ JobIn(cart, shopping[w])
  BY RowTypes DEF LimitInv, ShopInv
<1>2. /\ shopping[w].lines \in Lines /\ shopping[w].lines # <<>>
      /\ shopping[w].ord \in Carts /\ cart[shopping[w].ord].status # NoneYet
  BY <1>1, JobTypes DEF JobIn, ItemOps, OfOrder, AddsItem
<1> QED
  BY <1>1, <1>2, LineTypes

\* The rows after the units of one variant in one order are set.
Put(c, o, v, m) == [c EXCEPT ![o].units[v] = m]

LEMMA UnitsSet ==
    ASSUME NEW c \in CartRows, NEW o \in Carts, NEW v \in Variants, NEW m \in Nat
    PROVE  /\ Put(c, o, v, m) \in CartRows
           /\ Put(c, o, v, m)[o].status = c[o].status /\ Put(c, o, v, m)[o].units[v] = m
           /\ \A z \in Variants \ {v} : Put(c, o, v, m)[o].units[z] = c[o].units[z]
           /\ \A x \in Carts \ {o} : Put(c, o, v, m)[x] = c[x]
<1>0. PICK d : d = Put(c, o, v, m)
  OBVIOUS
<1>1. PICK r \in CartRow : r = c[o]
  BY DEF CartRows, CartRow
<1>2. PICK u \in [Variants -> Nat] : u = r.units
  BY DEF CartRow
<1>3. PICK x \in [Variants -> Nat] : x = [u EXCEPT ![v] = m]
  OBVIOUS
<1>4. d = [c EXCEPT ![o] = [r EXCEPT !.units = x]]
  BY <1>0, <1>1, <1>2, <1>3 DEF Put
<1>5. [r EXCEPT !.units = x] \in CartRow
  BY DEF CartRow
<1>6. d \in CartRows
  BY <1>4, <1>5 DEF CartRows, CartRow
<1>7. d[o] = [r EXCEPT !.units = x] /\ \A y \in Carts \ {o} : d[y] = c[y]
  BY <1>4 DEF CartRows, CartRow
<1>8. d[o].status = r.status /\ d[o].units = x
  BY <1>7
<1>9. x[v] = m /\ \A z \in Variants \ {v} : x[z] = u[z]
  BY <1>3
<1> QED
  BY <1>0, <1>1, <1>2, <1>6, <1>7, <1>8, <1>9

LEMMA AddUnits_Inv ==
    ASSUME LimitInv, NEW w \in Shoppers, AddUnits(w)
    PROVE  LimitInv'
<1> DEFINE task  == shopping[w]
           line == Head(task.lines)
           o    == task.ord
           j    == IF Len(task.lines) = 1 \/ cart[o].status # "draft" THEN NoJob
                   ELSE [task EXCEPT !.lines = Tail(@), !.counted = FALSE, !.late = FALSE]
<1>1. /\ task.op \in {"create", "add"} /\ task.counted /\ Unlocked(o)
      /\ cart' = [cart EXCEPT ![o].units[line[1]] = @ + line[2]]
      /\ ContinuesAndAges(w, j) /\ NoteGrowth(w) /\ ordered' = ordered
  BY DEF AddUnits
<1>2. AddsItem(task) /\ task.op # "locked"
  BY <1>1 DEF LimitInv, ShopInv, JobIn
<1>3. /\ task \in ShopJobs /\ JobIn(cart, task) /\ o \in Carts /\ cart[o].status # NoneYet
      /\ task.lines \in Lines /\ task.lines # <<>>
      /\ line[1] \in Variants /\ line[2] \in Nat \ {0}
  BY <1>2, LineOf
<1>4. /\ cart \in CartRows /\ ordered \in 0 .. MaxOrdered
  BY RowTypes DEF LimitInv
<1>5. PICK v \in Variants, n \in Nat : v = line[1] /\ n = line[2]
  BY <1>3
<1>6. cart' \in CartRows /\ Grows(cart, cart', o, v, n)
  <2>1. PICK now \in Nat : now = cart[o].units[v]
    BY <1>3, <1>4 DEF CartRows, CartRow
  <2>2. PICK m \in Nat : m = now + n
    OBVIOUS
  <2>3. cart' = Put(cart, o, v, m)
    BY <1>1, <1>5, <2>1, <2>2 DEF Put
  <2>4. o \in Carts /\ cart \in CartRows
    BY <1>3, <1>4
  <2> HIDE DEF o
  <2>5. /\ cart' \in CartRows /\ cart'[o].status = cart[o].status /\ cart'[o].units[v] = m
        /\ \A z \in Variants \ {v} : cart'[o].units[z] = cart[o].units[z]
        /\ \A x \in Carts \ {o} : cart'[x] = cart[x]
    BY <2>3, <2>4, UnitsSet
  <2> QED
    BY <2>1, <2>2, <2>5 DEF Grows
<1>7. j \in ShopJobs /\ JobIn(cart', j) /\ ~j.counted /\ j.op # "locked"
  <2>1. CASE Len(task.lines) = 1 \/ cart[o].status # "draft"
    <3>1. j = NoJob
      BY <2>1
    <3> HIDE DEF j
    <3> QED
      BY <3>1, JobTypes, IdleFits DEF NoneYet
  <2>2. CASE ~(Len(task.lines) = 1 \/ cart[o].status # "draft")
    <3>1. j = [task EXCEPT !.lines = Tail(@), !.counted = FALSE, !.late = FALSE]
      BY <2>2
    <3>2. Tail(task.lines) \in Lines /\ Tail(task.lines) # <<>>
      BY <1>3, <2>2, LineTypes
    <3>3. /\ j \in ShopJobs /\ ~j.counted /\ j.op = task.op /\ j.ord = o
          /\ j.lines # <<>>
      BY <1>3, <3>1, <3>2 DEF ShopJobs, Lines
    <3>4. cart'[o].status # NoneYet
      BY <1>3, <1>6 DEF Grows
    <3> HIDE DEF j
    <3> QED
      BY <1>1, <1>3, <3>3, <3>4 DEF JobIn
  <2> QED
    BY <2>1, <2>2
<1>8. \A x \in Shoppers \ {w} : ~Locks(shopping[x], o)
  BY <1>1 DEF Locks, Unlocked
<1>9. bypassed = {} /\ ~task.late => Weigh(cart, CountedStatuses, Variants) + n <= EffectiveLimit(v)
  <2>1. bypassed = {} => RoomIn(cart, task)
    BY DEF LimitInv, CountInv
  <2>2. More(cart, task) = n /\ n > 0
    BY <1>2, <1>3, <1>5 DEF More
  <2> QED
    BY <1>1, <1>5, <2>1, <2>2 DEF RoomIn
<1> HIDE DEF j
<1> QED
  BY <1>1, <1>3, <1>4, <1>6, <1>7, <1>8, <1>9, GrowthKeeps

LEMMA LockedAlone ==
    ASSUME LimitInv, NEW w \in Shoppers, NEW o \in Carts, Locks(shopping[w], o)
    PROVE  \A x \in Shoppers \ {w} : ~Locks(shopping[x], o)
BY DEF LimitInv, ShopInv

-----------------------------------------------------------------------------
(* Limits: other steps.                                                     *)

\* A step that changes one order, which nobody else has the lock of, and adds
\* nothing to what counts.
LEMMA OrderKeeps ==
    ASSUME LimitInv, NEW W \in SUBSET Shoppers, \A x, y \in W : x = y,
           shopping' \in [Shoppers -> ShopJobs],
           \A x \in W : JobIn(cart', shopping'[x]) /\ ~shopping'[x].counted,
           \A x \in Shoppers \ W : shopping'[x] = shopping[x],
           NEW o \in Carts, \A x \in Shoppers \ W : ~Locks(shopping[x], o),
           cart' \in CartRows, \A y \in Carts \ {o} : cart'[y] = cart[y],
           cart'[o].status # NoneYet,
           ordered' \in 0 .. MaxOrdered, bypassed \subseteq bypassed',
           bypassed' \subseteq {"raced", "in refund", "revived"},
           bypassed' = {} => /\ Less(cart, cart', KeptStatuses)
                             /\ Less(cart, cart', CountedStatuses)
    PROVE  LimitInv'
<1>1. cart \in CartRows
  BY RowTypes DEF LimitInv
<1>2. LimitTypeOK'
  BY RowTypesNext
<1>3. Stays(cart, cart')
  BY DEF Stays
<1>4. \A x \in W : Starts(cart', x, shopping'[x]) /\ RoomIn(cart', shopping'[x])
  BY DEF Starts, RoomIn, JobIn, Locks
<1>5. \A x \in Shoppers \ W : shopping[x].op = "locked" =>
          cart'[shopping[x].ord].units = cart[shopping[x].ord].units
  <2>1. \A x \in Shoppers : shopping[x].op = "locked" => shopping[x].ord \in Carts
    BY DEF LimitInv, ShopInv, JobIn, OfOrder
  <2> QED
    BY <2>1 DEF Locks
<1>6. bypassed' = {} => LevelIn(cart') /\ Less(cart, cart', CountedStatuses)
  BY <1>1, LevelKeeps DEF LimitInv
<1> QED
  BY <1>2, <1>3, <1>4, <1>5, <1>6, StepKeeps

LEMMA ContinuesTypes ==
    ASSUME LimitInv, NEW w \in Shoppers, NEW j \in ShopJobs, Continues(w, j)
    PROVE  /\ shopping' \in [Shoppers -> ShopJobs] /\ shopping'[w] = j
           /\ \A x \in Shoppers \ {w} : shopping'[x] = shopping[x]
<1>1. shopping \in [Shoppers -> ShopJobs]
  BY DEF LimitInv, LimitTypeOK
<1> QED
  BY <1>1 DEF Continues

\* The rows after one of them is written.
RowWritten(c, o, r) == [c EXCEPT ![o] = r]

LEMMA RowSet ==
    ASSUME NEW c \in CartRows, NEW o \in Carts,
           NEW r \in CartRow
    PROVE  /\ RowWritten(c, o, r) \in CartRows /\ RowWritten(c, o, r)[o] = r
           /\ \A x \in Carts \ {o} : RowWritten(c, o, r)[x] = c[x]
BY DEF RowWritten, CartRows, CartRow

LEMMA UpdateUnits_Inv ==
    ASSUME LimitInv, NEW w \in Shoppers, UpdateUnits(w)
    PROVE  LimitInv'
<1>1. PICK task \in ShopJobs : task = shopping[w]
  BY RowTypes DEF LimitInv
<1>2. PICK o : o = task.ord
  OBVIOUS
<1>3. task.op = "locked" /\ Locks(shopping[w], o)
  BY <1>1, <1>2 DEF UpdateUnits, Locks
<1>4. /\ JobIn(cart, task) /\ o \in Carts /\ cart[o].status # NoneYet
      /\ Head(task.lines)[1] \in Variants /\ Head(task.lines)[2] \in Nat
  BY <1>1, <1>2, <1>3, LineOf
<1>5. PICK v \in Variants, m \in Nat : v = Head(task.lines)[1] /\ m = Head(task.lines)[2]
  BY <1>4
<1>6. /\ cart \in CartRows /\ ordered \in 0 .. MaxOrdered
      /\ bypassed \subseteq {"raced", "in refund", "revived"}
  BY RowTypes DEF LimitInv
<1>7. PICK now \in Nat : now = cart[o].units[v]
  BY <1>4, <1>6 DEF CartRows, CartRow
<1>8. /\ cart' = Put(cart, o, v, m)
      /\ IF m > now THEN ContinuesAndAges(w, NoJob) /\ NoteGrowth(w)
                    ELSE Continues(w, NoJob) /\ bypassed' = bypassed
      /\ ordered' = ordered
  BY <1>1, <1>2, <1>5, <1>7 DEF UpdateUnits, Put
<1>9. /\ cart' \in CartRows /\ cart'[o].status = cart[o].status /\ cart'[o].units[v] = m
      /\ \A z \in Variants \ {v} : cart'[o].units[z] = cart[o].units[z]
      /\ \A x \in Carts \ {o} : cart'[x] = cart[x]
  <2>1. cart' = Put(cart, o, v, m) /\ o \in Carts /\ cart \in CartRows
    BY <1>4, <1>6, <1>8
  <2> QED
    BY <2>1, UnitsSet
<1>10. \A x \in Shoppers \ {w} : ~Locks(shopping[x], o)
  BY <1>3, <1>4, LockedAlone
<1>11. JobIn(cart', NoJob) /\ ~NoJob.counted /\ NoJob.op # "locked" /\ NoJob \in ShopJobs
  BY JobTypes, IdleFits DEF NoneYet
<1>12. CASE m > now
  <2>1. PICK n \in Nat : n = m - now
    BY <1>12
  <2>2. Grows(cart, cart', o, v, n)
    BY <1>7, <1>9, <2>1 DEF Grows
  <2>3. More(cart, task) = n /\ n > 0
    BY <1>2, <1>3, <1>5, <1>7, <1>12, <2>1 DEF More, Increase
  <2>4. bypassed = {} => RoomIn(cart, task)
    BY <1>1 DEF LimitInv, CountInv
  <2>5. bypassed = {} /\ ~task.late =>
            Weigh(cart, CountedStatuses, Variants) + n <= EffectiveLimit(v)
    BY <1>3, <1>4, <1>5, <2>3, <2>4 DEF RoomIn, JobIn
  <2>6. ContinuesAndAges(w, NoJob) /\ NoteGrowth(w)
    BY <1>8, <1>12
  <2> QED
    BY <1>1, <1>4, <1>6, <1>8, <1>9, <1>10, <1>11, <2>2, <2>5, <2>6, GrowthKeeps
<1>13. CASE ~(m > now)
  <2>1. Continues(w, NoJob) /\ bypassed' = bypassed
    BY <1>8, <1>13
  <2>2. /\ shopping' \in [Shoppers -> ShopJobs] /\ shopping'[w] = NoJob
        /\ \A x \in Shoppers \ {w} : shopping'[x] = shopping[x]
    BY <1>11, <2>1, ContinuesTypes
  <2>3. \A x \in Carts, z \in Variants :
            cart'[x].status = cart[x].status /\ cart'[x].units[z] <= cart[x].units[z]
    <3>1. \A x \in Carts, z \in Variants : cart[x].units[z] \in Nat
      BY <1>6 DEF CartRows, CartRow
    <3>2. m <= now
      BY <1>13
    <3> QED
      BY <1>7, <1>9, <3>1, <3>2
  <2>4. Less(cart, cart', KeptStatuses) /\ Less(cart, cart', CountedStatuses)
    BY <2>3 DEF Less
  <2> QED
    BY <1>4, <1>6, <1>8, <1>9, <1>10, <1>11, <2>1, <2>2, <2>4, OrderKeeps,
       {w} \in SUBSET Shoppers
<1> QED
  BY <1>12, <1>13

LEMMA PlaceOrder_Inv ==
    ASSUME LimitInv, NEW w \in Shoppers, PlaceOrder(w)
    PROVE  LimitInv'
<1>1. PICK task \in ShopJobs : task = shopping[w]
  BY RowTypes DEF LimitInv
<1>2. PICK o \in Carts :
          /\ cart[o].status = NoneYet
          /\ cart' = [cart EXCEPT ![o].status = "draft"]
          /\ Continues(w, [task EXCEPT !.ord = o])
  BY <1>1 DEF PlaceOrder
<1>3. task.op = "create" /\ task.ord = NoneYet /\ ordered' = ordered /\ bypassed' = bypassed
  BY <1>1 DEF PlaceOrder
<1>4. PICK j \in ShopJobs : j = [task EXCEPT !.ord = o]
  BY DEF ShopJobs
<1>5. j.op = "create" /\ j.ord = o /\ j.lines = task.lines /\ j.counted = task.counted
  BY <1>3, <1>4 DEF ShopJobs
<1>6. /\ cart \in CartRows /\ ordered \in 0 .. MaxOrdered
      /\ bypassed \subseteq {"raced", "in refund", "revived"}
  BY RowTypes DEF LimitInv
<1>7. JobIn(cart, task) /\ cart[o].units = NoUnits
  BY <1>1, <1>2 DEF LimitInv, ShopInv
<1>8. PICK r \in CartRow :
          /\ r = [cart[o] EXCEPT !.status = "draft"]
          /\ r.status = "draft" /\ r.units = NoUnits
  <2>1. PICK q \in CartRow : q = cart[o]
    BY <1>6 DEF CartRows, CartRow
  <2>2. "draft" \in AnyStatus
    BY DEF AnyStatus, CartStatuses, KeptStatuses, OpenCart
  <2>3. /\ [q EXCEPT !.status = "draft"] \in CartRow
        /\ [q EXCEPT !.status = "draft"].status = "draft"
        /\ [q EXCEPT !.status = "draft"].units = q.units
    BY <2>2 DEF CartRow
  <2> QED
    BY <1>7, <2>1, <2>3
<1>9. cart' = RowWritten(cart, o, r)
  BY <1>2, <1>8 DEF RowWritten
<1>10. /\ cart' \in CartRows /\ cart'[o] = r /\ \A x \in Carts \ {o} : cart'[x] = cart[x]
  BY <1>6, <1>9, RowSet
<1>11. /\ shopping' \in [Shoppers -> ShopJobs] /\ shopping'[w] = j
       /\ \A x \in Shoppers \ {w} : shopping'[x] = shopping[x]
  BY <1>2, <1>4, ContinuesTypes
<1>12. JobIn(cart', j) /\ ~j.counted /\ cart'[o].status # NoneYet
  BY <1>3, <1>5, <1>7, <1>8, <1>10 DEF JobIn, OfOrder, AddsItem, ItemOps, NoneYet
<1>13. \A x \in Shoppers : ~Locks(shopping[x], o)
  BY <1>2 DEF LimitInv, ShopInv, JobIn, OfOrder, Locks
<1>14. Less(cart, cart', KeptStatuses) /\ Less(cart, cart', CountedStatuses)
  <2>1. \A z \in Variants : cart'[o].units[z] = 0
    BY <1>8, <1>10 DEF NoUnits
  <2>2. ASSUME NEW x \in Carts, NEW z \in Variants
        PROVE  cart[x].units[z] <= cart[x].units[z]
    <3>1. cart \in CartRows
      BY <1>6
    <3>2. \A y \in Carts, v \in Variants : cart[y].units[v] \in Nat
      BY <3>1, UnitTypes
    <3>3. cart[x].units[z] \in Nat
      BY <3>2
    <3> QED
      BY <3>3
  <2> QED
    BY <1>10, <2>1, <2>2 DEF Less
<1> QED
  BY <1>3, <1>6, <1>10, <1>11, <1>12, <1>13, <1>14, OrderKeeps, {w} \in SUBSET Shoppers

LEMMA LessInOne ==
    ASSUME NEW c \in CartRows, NEW d \in CartRows, NEW S, NEW o \in Carts,
           \A x \in Carts \ {o} : d[x] = c[x],
           d[o].status \in S => \A v \in Variants :
               \/ c[o].status \in S /\ d[o].units[v] <= c[o].units[v]
               \/ d[o].units[v] = 0
    PROVE  Less(c, d, S)
<1>1. \A x \in Carts, v \in Variants : c[x].units[v] \in Nat
  BY UnitTypes
<1>2. \A x \in Carts, v \in Variants : c[x].units[v] <= c[x].units[v]
  BY <1>1
<1> QED
  BY <1>2 DEF Less

LEMMA RemoveUnits_Inv ==
    ASSUME LimitInv, NEW w \in Shoppers, RemoveUnits(w)
    PROVE  LimitInv'
<1>1. PICK task \in ShopJobs : task = shopping[w]
  BY RowTypes DEF LimitInv
<1>2. PICK o : o = task.ord
  OBVIOUS
<1>3. task.op = "remove"
  BY <1>1 DEF RemoveUnits
<1>4. /\ o \in Carts /\ cart[o].status # NoneYet
      /\ Head(task.lines)[1] \in Variants /\ Head(task.lines)[2] \in Nat
  BY <1>1, <1>2, <1>3, LineOf
<1>5. PICK v \in Variants, n \in Nat : v = Head(task.lines)[1] /\ n = Head(task.lines)[2]
  BY <1>4
<1>6. /\ cart \in CartRows /\ ordered \in 0 .. MaxOrdered
      /\ bypassed \subseteq {"raced", "in refund", "revived"}
  BY RowTypes DEF LimitInv
<1>7. PICK q \in CartRow : q = cart[o]
  BY <1>4, <1>6, UnitTypes
<1>8. PICK u \in [Variants -> Nat] : u = q.units
  BY DEF CartRow
<1>9. PICK left : left = [u EXCEPT ![v] = u[v] - n]
  OBVIOUS
<1>10. /\ u[v] >= n /\ Unlocked(o)
       /\ cart' = [cart EXCEPT ![o] =
              [status |-> IF left = NoUnits THEN "gone" ELSE q.status, units |-> left]]
       /\ Continues(w, NoJob) /\ ordered' = ordered /\ bypassed' = bypassed
  BY <1>1, <1>2, <1>5, <1>7, <1>8, <1>9 DEF RemoveUnits
<1>11. left \in [Variants -> Nat] /\ \A z \in Variants : left[z] <= u[z]
  <2>1. u[v] - n \in Nat /\ u[v] - n <= u[v]
    BY <1>10
  <2> QED
    BY <1>9, <2>1
<1>12. PICK r \in CartRow :
           r = [status |-> IF left = NoUnits THEN "gone" ELSE q.status, units |-> left]
  <2>1. q.status \in AnyStatus /\ "gone" \in AnyStatus
    BY DEF CartRow, AnyStatus
  <2> QED
    BY <1>11, <2>1 DEF CartRow
<1>13. cart' = RowWritten(cart, o, r)
  BY <1>10, <1>12 DEF RowWritten
<1>14. /\ cart' \in CartRows /\ cart'[o] = r /\ \A x \in Carts \ {o} : cart'[x] = cart[x]
  <2>1. cart \in CartRows
    BY <1>6
  <2> QED
    BY <1>4, <1>13, <2>1, RowSet
<1>15. /\ shopping' \in [Shoppers -> ShopJobs] /\ shopping'[w] = NoJob
       /\ \A x \in Shoppers \ {w} : shopping'[x] = shopping[x]
  BY <1>10, JobTypes, ContinuesTypes
<1>16. JobIn(cart', NoJob) /\ ~NoJob.counted
  BY JobTypes, IdleFits
<1>17. cart'[o].status # NoneYet
  BY <1>4, <1>7, <1>12, <1>14 DEF NoneYet
<1>18. \A x \in Shoppers : ~Locks(shopping[x], o)
  BY <1>10 DEF Unlocked, Locks
<1>19. Less(cart, cart', KeptStatuses) /\ Less(cart, cart', CountedStatuses)
  <2>1. "gone" \notin KeptStatuses /\ "gone" \notin CountedStatuses
    BY DEF KeptStatuses, CountedStatuses, OpenCart, InRefund
  <2>2. \A z \in Variants : cart'[o].units[z] <= cart[o].units[z]
    BY <1>7, <1>8, <1>11, <1>12, <1>14
  <2>3. cart'[o].status = "gone" \/ cart'[o].status = cart[o].status
    BY <1>7, <1>12, <1>14
  <2> QED
    BY <1>4, <1>6, <1>14, <2>1, <2>2, <2>3, LessInOne
<1> QED
  BY <1>4, <1>6, <1>10, <1>14, <1>15, <1>16, <1>17, <1>18, <1>19, OrderKeeps,
     {w} \in SUBSET Shoppers

LEMMA ReturnUnits_Inv ==
    ASSUME LimitInv, NEW o \in Carts, NEW v \in Variants, NEW n \in 1 .. MostUnits,
           ReturnUnits(o, v, n)
    PROVE  LimitInv'
<1>1. n \in Nat
  BY BasketsAssumption
<1>2. /\ cart \in CartRows
      /\ bypassed \subseteq {"raced", "in refund", "revived"}
  BY RowTypes DEF LimitInv
<1>3. PICK now \in Nat : now = cart[o].units[v]
  BY <1>2, UnitTypes
<1>4. PICK m \in Nat : m = now - n /\ m <= now
  <2>1. n <= now
    BY <1>3 DEF ReturnUnits
  <2> QED
    BY <1>1, <2>1
<1>5. /\ cart' = Put(cart, o, v, m) /\ shopping' = shopping /\ bypassed' = bypassed
      /\ Unlocked(o) /\ ordered' \in 0 .. MaxOrdered
      /\ cart[o].status # NoneYet
  BY <1>3, <1>4, AnotherType DEF ReturnUnits, Put, InRefund, NoneYet
<1>6. /\ cart' \in CartRows /\ cart'[o].status = cart[o].status /\ cart'[o].units[v] = m
      /\ \A z \in Variants \ {v} : cart'[o].units[z] = cart[o].units[z]
      /\ \A x \in Carts \ {o} : cart'[x] = cart[x]
  <2>1. cart' = Put(cart, o, v, m) /\ cart \in CartRows
    BY <1>2, <1>5
  <2> QED
    BY <2>1, UnitsSet
<1>7. \A x \in Shoppers : ~Locks(shopping[x], o)
  BY <1>5 DEF Unlocked, Locks
<1>8. Less(cart, cart', KeptStatuses) /\ Less(cart, cart', CountedStatuses)
  <2>1. \A z \in Variants : cart[o].units[z] \in Nat
    BY <1>2, UnitTypes
  <2>2. \A z \in Variants : cart'[o].units[z] <= cart[o].units[z]
    BY <1>3, <1>4, <1>6, <2>1
  <2> QED
    BY <1>2, <1>6, <2>2, LessInOne
<1>9. shopping' \in [Shoppers -> ShopJobs]
  BY <1>5 DEF LimitInv, LimitTypeOK
<1> QED
  BY <1>2, <1>5, <1>6, <1>7, <1>8, <1>9, OrderKeeps, {} \in SUBSET Shoppers

LEMMA DeleteOrder_Inv ==
    ASSUME LimitInv, NEW o \in Carts, DeleteOrder(o)
    PROVE  LimitInv'
<1>1. /\ cart \in CartRows
      /\ bypassed \subseteq {"raced", "in refund", "revived"}
  BY RowTypes DEF LimitInv
<1>2. PICK r \in CartRow : r = [status |-> "gone", units |-> NoUnits]
  BY DEF CartRow, AnyStatus, NoUnits
<1>3. /\ cart' = RowWritten(cart, o, r) /\ shopping' = shopping /\ bypassed' = bypassed
      /\ Unlocked(o) /\ ordered' \in 0 .. MaxOrdered
  BY <1>2, AnotherType DEF DeleteOrder, RowWritten
<1>4. /\ cart' \in CartRows /\ cart'[o] = r /\ \A x \in Carts \ {o} : cart'[x] = cart[x]
  <2>1. cart' = RowWritten(cart, o, r) /\ cart \in CartRows
    BY <1>1, <1>3
  <2> QED
    BY <2>1, RowSet
<1>5. \A x \in Shoppers : ~Locks(shopping[x], o)
  BY <1>3 DEF Unlocked, Locks
<1>6. cart'[o].status # NoneYet /\ \A z \in Variants : cart'[o].units[z] = 0
  BY <1>2, <1>4 DEF NoneYet, NoUnits
<1>7. Less(cart, cart', KeptStatuses) /\ Less(cart, cart', CountedStatuses)
  BY <1>1, <1>4, <1>6, LessInOne
<1>8. shopping' \in [Shoppers -> ShopJobs]
  BY <1>3 DEF LimitInv, LimitTypeOK
<1> QED
  BY <1>1, <1>3, <1>4, <1>5, <1>6, <1>7, <1>8, OrderKeeps, {} \in SUBSET Shoppers

\* What a move that was allowed leads from and to.
LEMMA TransitionFacts ==
    ASSUME NEW s, NEW t \in Transitions(s)
    PROVE  /\ t \in CartStatuses /\ t # NoneYet
           /\ s \in KeptStatuses
           /\ t \in CountedStatuses =>
                  s \in CountedStatuses \/ (s = "pending_refund" /\ t = "completed")
BY DEF Transitions, CartStatuses, KeptStatuses, CountedStatuses, OpenCart, InRefund,
       ClosedCart, NoneYet

LEMMA Transition_Inv ==
    ASSUME LimitInv, NEW w \in Shoppers, Transition(w)
    PROVE  LimitInv'
<1>1. PICK task \in ShopJobs : task = shopping[w]
  BY RowTypes DEF LimitInv
<1>2. PICK o : o = task.ord
  OBVIOUS
<1>3. task.op = "move"
  BY <1>1 DEF Transition
<1>4. /\ o \in Carts /\ cart[o].status # NoneYet /\ task.to \in Transitions(task.found)
  BY <1>1, <1>2, <1>3 DEF LimitInv, ShopInv, JobIn, OfOrder
<1>5. /\ cart \in CartRows /\ ordered \in 0 .. MaxOrdered
      /\ bypassed \subseteq {"raced", "in refund", "revived"}
  BY RowTypes DEF LimitInv
<1>6. PICK q \in CartRow : q = cart[o]
  BY <1>4, <1>5, UnitTypes
<1>7. PICK r \in CartRow : r = [q EXCEPT !.status = task.to] /\ r.status = task.to
                           /\ r.units = q.units
  <2>1. PICK t \in AnyStatus : t = task.to
    BY <1>4, TransitionFacts DEF AnyStatus
  <2>2. /\ [q EXCEPT !.status = t] \in CartRow
        /\ [q EXCEPT !.status = t].status = t
        /\ [q EXCEPT !.status = t].units = q.units
    BY <2>1 DEF CartRow
  <2> QED
    BY <2>1, <2>2
<1>8. /\ cart' = RowWritten(cart, o, r) /\ Unlocked(o) /\ ordered' = ordered
      /\ bypassed' = bypassed \cup IF task.found # q.status THEN {"revived"} ELSE {}
      /\ IF task.found = "pending_refund" /\ task.to = "completed"
         THEN ContinuesAndAges(w, NoJob) ELSE Continues(w, NoJob)
  BY <1>1, <1>2, <1>6, <1>7 DEF Transition, RowWritten
<1>9. /\ cart' \in CartRows /\ cart'[o] = r /\ \A x \in Carts \ {o} : cart'[x] = cart[x]
  <2>1. cart' = RowWritten(cart, o, r) /\ cart \in CartRows
    BY <1>5, <1>8
  <2> QED
    BY <1>4, <2>1, RowSet
<1>10. /\ JobIn(cart', NoJob) /\ ~NoJob.counted /\ NoJob.op # "locked" /\ NoJob \in ShopJobs
       /\ RoomIn(cart', NoJob) /\ \A y \in Carts : ~Locks(NoJob, y)
  BY JobTypes, IdleFits DEF NoneYet
<1>11. /\ bypassed \subseteq bypassed' /\ bypassed' \subseteq {"raced", "in refund", "revived"}
       /\ bypassed' = {} => bypassed = {} /\ task.found = q.status
  BY <1>5, <1>8
<1>12. \A x \in Shoppers : ~Locks(shopping[x], o)
  BY <1>8 DEF Unlocked, Locks
<1>13. cart'[o].status # NoneYet
  BY <1>4, <1>7, <1>9, TransitionFacts
<1>14. \A z \in Variants : cart'[o].units[z] <= cart[o].units[z]
  <2>1. \A z \in Variants : cart[o].units[z] \in Nat
    BY <1>4, <1>5, UnitTypes
  <2> QED
    BY <1>6, <1>7, <1>9, <2>1
<1>15. bypassed' = {} => Less(cart, cart', KeptStatuses)
  <2>1. bypassed' = {} => cart[o].status \in KeptStatuses
    BY <1>4, <1>6, <1>11, TransitionFacts
  <2> QED
    BY <1>4, <1>5, <1>9, <1>14, <2>1, LessInOne
<1>16. CASE task.found = "pending_refund" /\ task.to = "completed"
  <2>1. ContinuesAndAges(w, NoJob)
    BY <1>8, <1>16
  <2>2. /\ shopping' \in [Shoppers -> ShopJobs] /\ shopping'[w] = NoJob
        /\ \A x \in Shoppers \ {w} : Aged(shopping[x], shopping'[x])
    <3>1. \A x \in Shoppers : shopping[x] \in ShopJobs
      BY RowTypes DEF LimitInv
    <3>2. \A x \in Shoppers : [shopping[x] EXCEPT !.late = shopping[x].counted] \in ShopJobs
      BY <3>1 DEF ShopJobs
    <3> QED
      BY <1>10, <2>1, <3>2 DEF ContinuesAndAges, Aged
  <2>3. LimitTypeOK'
    BY <1>5, <1>8, <1>9, <1>11, <2>2, RowTypesNext
  <2>4. Stays(cart, cart') /\ Starts(cart', w, shopping'[w])
    BY <1>9, <1>10, <1>13, <2>2 DEF Stays, Starts
  <2>5. \A x \in Shoppers \ {w} : shopping[x].op = "locked" =>
            cart'[shopping[x].ord].units = cart[shopping[x].ord].units
    <3>1. \A x \in Shoppers : shopping[x].op = "locked" => shopping[x].ord \in Carts
      BY DEF LimitInv, ShopInv, JobIn, OfOrder
    <3> QED
      BY <1>9, <1>12, <3>1 DEF Locks
  <2>6. bypassed' = {} => LevelIn(cart') /\ RoomIn(cart', shopping'[w])
    BY <1>5, <1>9, <1>10, <1>11, <1>15, <2>2, LevelKeeps DEF LimitInv
  <2> QED
    BY <1>11, <2>2, <2>3, <2>4, <2>5, <2>6, StepKeeps, {w} \in SUBSET Shoppers
<1>17. CASE ~(task.found = "pending_refund" /\ task.to = "completed")
  <2>1. Continues(w, NoJob)
    BY <1>8, <1>17
  <2>2. /\ shopping' \in [Shoppers -> ShopJobs] /\ shopping'[w] = NoJob
        /\ \A x \in Shoppers \ {w} : shopping'[x] = shopping[x]
    BY <1>10, <2>1, ContinuesTypes
  <2>3. bypassed' = {} => Less(cart, cart', CountedStatuses)
    <3>1. cart'[o].status = task.to
      BY <1>7, <1>9
    <3>2. bypassed' = {} /\ cart'[o].status \in CountedStatuses =>
              cart[o].status \in CountedStatuses
      BY <1>4, <1>6, <1>11, <1>17, <3>1, TransitionFacts
    <3> QED
      BY <1>4, <1>5, <1>9, <1>14, <3>2, LessInOne
  <2> QED
    BY <1>4, <1>5, <1>8, <1>9, <1>10, <1>11, <1>12, <1>13, <1>15, <2>2, <2>3, OrderKeeps,
       {w} \in SUBSET Shoppers
<1> QED
  BY <1>16, <1>17

-----------------------------------------------------------------------------
(* Limits: the theorems.                                                    *)

LEMMA LimitInit_Inv == ASSUME LimitInit PROVE LimitInv
<1>1. NoUnits \in [Variants -> Nat] /\ NoneYet \in AnyStatus /\ {} \subseteq {"raced"}
  BY DEF NoUnits, AnyStatus
<1>2. /\ cart \in CartRows /\ shopping \in [Shoppers -> ShopJobs]
      /\ \A o \in Carts : cart[o].status = NoneYet /\ cart[o].units = NoUnits
      /\ \A w \in Shoppers : shopping[w] = NoJob
  BY <1>1, JobTypes DEF LimitInit, CartRows, CartRow
<1>3. LimitTypeOK
  <2>1. 0 \in 0 .. MaxOrdered
    BY OrderedAssumption
  <2> QED
    BY <1>2, <2>1 DEF LimitInit, LimitTypeOK, CartRows, CartRow, AnyStatus
<1>4. ShopInv /\ CountInv
  BY <1>2, IdleFits DEF ShopInv, CountInv
<1>5. LevelIn(cart)
  <2> SUFFICES ASSUME NEW n \in Nat PROVE Weigh(cart, KeptStatuses, Below(n)) <= n
    BY DEF LevelIn
  <2>1. \A o \in Carts : Loads(cart, KeptStatuses, Below(n))[o] = 0
    <3>1. NoneYet \notin KeptStatuses
      BY DEF NoneYet, KeptStatuses, OpenCart, InRefund
    <3> QED
      BY <1>2, <3>1 DEF Loads
  <2>2. Weigh(cart, KeptStatuses, Below(n)) = 0
    BY <2>1, RowsAssumption, SumZero DEF Weigh
  <2> QED
    BY <2>2
<1> QED
  BY <1>3, <1>4, <1>5 DEF LimitInv

LEMMA LimitStep_Inv == ASSUME LimitInv, [LimitNext]_limitVars PROVE LimitInv'
<1>1. ASSUME NEW w \in Shoppers, NEW basket \in Baskets, Validate(w, basket) PROVE LimitInv'
  BY <1>1, Validate_Inv
<1>2. ASSUME NEW w \in Shoppers, PlaceOrder(w) PROVE LimitInv'
  BY <1>2, PlaceOrder_Inv
<1>3. ASSUME NEW w \in Shoppers, NEW o \in Carts, NEW v \in Variants, NEW n \in 1 .. MostUnits,
             NEW op \in {"add", "update", "remove"}, ReadDraft(w, op, o, v, n)
      PROVE  LimitInv'
  BY <1>3, ReadDraft_Inv
<1>4. ASSUME NEW w \in Shoppers, CountForAdd(w) PROVE LimitInv'
  BY <1>4, CountForAdd_Inv
<1>5. ASSUME NEW w \in Shoppers, AddUnits(w) PROVE LimitInv'
  BY <1>5, AddUnits_Inv
<1>6. ASSUME NEW w \in Shoppers, LockForUpdate(w) PROVE LimitInv'
  BY <1>6, LockForUpdate_Inv
<1>7. ASSUME NEW w \in Shoppers, UpdateUnits(w) PROVE LimitInv'
  BY <1>7, UpdateUnits_Inv
<1>8. ASSUME NEW w \in Shoppers, RemoveUnits(w) PROVE LimitInv'
  BY <1>8, RemoveUnits_Inv
<1>9. ASSUME NEW w \in Shoppers, NEW o \in Carts, NEW to \in CartStatuses,
             ReadForTransition(w, o, to)
      PROVE  LimitInv'
  BY <1>9, ReadForTransition_Inv
<1>10. ASSUME NEW w \in Shoppers, Transition(w) PROVE LimitInv'
  BY <1>10, Transition_Inv
<1>11. ASSUME NEW w \in Shoppers, LeaveOff(w) PROVE LimitInv'
  BY <1>11, LeaveOff_Inv
<1>12. ASSUME NEW o \in Carts, NEW v \in Variants, NEW n \in 1 .. MostUnits, ReturnUnits(o, v, n)
       PROVE  LimitInv'
  BY <1>12, ReturnUnits_Inv
<1>13. ASSUME NEW o \in Carts, DeleteOrder(o) PROVE LimitInv'
  BY <1>13, DeleteOrder_Inv
<1>14. ASSUME UNCHANGED limitVars PROVE LimitInv'
  <2>1. cart' = cart /\ shopping' = shopping /\ ordered' = ordered /\ bypassed' = bypassed
    BY <1>14 DEF limitVars
  <2> QED
    BY <2>1 DEF LimitInv, LimitTypeOK, ShopInv, CountInv
<1> QED
  BY <1>1, <1>2, <1>3, <1>4, <1>5, <1>6, <1>7, <1>8, <1>9, <1>10, <1>11, <1>12, <1>13, <1>14
     DEF LimitNext

\* Whatever the orders hold was counted with room for it: the inductive
\* invariant, also while requests are between counting and writing.
THEOREM LimitInvariance == LimitSpec => []LimitInv
<1>1. LimitInit => LimitInv
  BY LimitInit_Inv
<1>2. LimitInv /\ [LimitNext]_limitVars => LimitInv'
  BY LimitStep_Inv
<1> QED
  BY <1>1, <1>2, PTL DEF LimitSpec

\* Every reachable state of the orders and the requests about them is well typed.
THEOREM LimitTypesHold == LimitSpec => []LimitTypeOK
<1>1. LimitInv => LimitTypeOK
  BY DEF LimitInv
<1> QED
  BY <1>1, LimitInvariance, PTL

\* All orders of an attendee together stay within the limit of one of the
\* variants in them, unless one of the recorded holes was used.  If they did not,
\* the limits of all of them would be at most one less than what is kept.
THEOREM KeptWithinLimitHolds == LimitSpec => []KeptWithinLimit
<1>1. LimitInv => KeptWithinLimit
  <2> SUFFICES ASSUME LimitInv, bypassed = {}, Kept > 0,
                      \A v \in Variants : ~(Held(v) /\ Kept <= EffectiveLimit(v))
               PROVE  FALSE
    BY DEF KeptWithinLimit
  <2>1. cart \in CartRows /\ LevelIn(cart)
    BY RowTypes DEF LimitInv
  <2>2. PICK k \in Nat : k = Kept /\ k = Weigh(cart, KeptStatuses, Variants)
    BY <2>1, UnitsAreWeighed, WeighType DEF Kept
  <2>3. PICK n \in Nat : n = k - 1 /\ n < k
    BY <2>2
  <2>4. ASSUME NEW v \in Variants, Held(v) PROVE v \in Below(n)
    <3>1. EffectiveLimit(v) \in Nat /\ ~(k <= EffectiveLimit(v))
      BY <2>2, <2>4, LimitType
    <3> QED
      BY <2>3, <3>1 DEF Below
  <2>5. ASSUME NEW o \in Carts, NEW v \in Variants, cart[o].status \in KeptStatuses,
               v \notin Below(n)
        PROVE  cart[o].units[v] = 0
    <3>1. cart[o].units[v] \in Nat /\ ~(cart[o].units[v] > 0)
      BY <2>1, <2>4, <2>5, UnitTypes DEF Held
    <3> QED
      BY <3>1
  <2>6. Weigh(cart, KeptStatuses, Variants) <= Weigh(cart, KeptStatuses, Below(n))
    <3>1. \A o \in Carts, v \in Variants : cart[o].units[v] <= cart[o].units[v]
      <4>1. \A o \in Carts, v \in Variants : cart[o].units[v] \in Nat
        BY <2>1, UnitTypes
      <4> QED
        BY <4>1
    <3>2. cart \in CartRows
      BY <2>1
    <3> QED
      BY <2>5, <3>1, <3>2, WeighShrinks
  <2>7. Weigh(cart, KeptStatuses, Below(n)) <= n
    BY <2>1 DEF LevelIn
  <2>8. Weigh(cart, KeptStatuses, Below(n)) \in Nat
    BY <2>1, WeighType
  <2> QED
    BY <2>2, <2>3, <2>6, <2>7, <2>8
<1> QED
  BY <1>1, LimitInvariance, PTL
=============================================================================
