------------------------ MODULE BookingIntentsProofs ------------------------
(***************************************************************************)
(* Proofs about BookingIntents for any number of intents, customers,       *)
(* payments, workers, seats and requests: the safety properties of the     *)
(* run booking_intents, and that the module implements BookingContract.    *)
(***************************************************************************)
EXTENDS BookingIntents, SetSums

Seated == 1..Capacity

\* A row that was ever made asks for seats.
RowInv ==
    \A i \in Intents :
        /\ intent[i].status = "absent" => intent[i] = Absent
        /\ intent[i].status # "absent" => intent[i].seats \in Seated

\* What a request that writes later may rely on: a new row is not there yet and
\* is made by one request only; the seats were counted with room for the change.
CreateInv(w) ==
    /\ intent[job[w].of] = Absent
    /\ \A v \in Workers \ {w} : job[v].op = "create" => job[v].of # job[w].of
    /\ job[w].taken + job[w].seats <= Capacity

UpdateInv(w) ==
    /\ intent[job[w].of].status # "absent"
    /\ job[w].snap.status = "pending" /\ job[w].snap.seats \in Seated
    /\ job[w].seats > job[w].snap.seats =>
           job[w].taken - job[w].snap.seats + job[w].seats <= Capacity

JobInv ==
    \A w \in Workers :
        /\ job[w].op = "create" => CreateInv(w)
        /\ job[w].op = "update" => UpdateInv(w)

\* An intent remembers its booking, and that it has one.
BookInv ==
    \A i \in Intents : ~overwritten[i] =>
        /\ bookings[i] <= 1
        /\ bookings[i] > 0 => intent[i].booked
        /\ intent[i].booked => ~Pending(i)

\* One payment has made the booking of an intent; only it has tickets.
PayInv ==
    /\ \A p \in Payments :
          /\ tickets[p] <= 1
          /\ tickets[p] > 0 => payment[p] # NoPayment /\ payment[p].final
          /\ payment[p] # NoPayment /\ payment[p].final => bookings[payment[p].of] > 0
          /\ payment[p].status = "fulfilled" => payment[p].final /\ tickets[p] = 1
    /\ \A p, q \in Payments :
          /\ payment[p] # NoPayment /\ payment[p].final
          /\ payment[q] # NoPayment /\ payment[q].final
          /\ payment[p].of = payment[q].of /\ ~overwritten[payment[p].of]
          => p = q

IInv == TypeOK /\ RowInv /\ JobInv /\ BookInv /\ PayInv /\ NeverOverbooked

-----------------------------------------------------------------------------
(* Seats.                                                                   *)

\* The seats of each row, the rows that hold theirs, and what they hold.
Weight(rows) == [i \in Intents |-> rows[i].seats]
Claims(r)    == r.status = "pending" /\ r.held
Held(rows)   == {i \in Intents : Claims(rows[i])}
Total(rows)  == SumOver(Weight(rows), Held(rows))

LEMMA SeatsAreFinite == \A S \in SUBSET Intents : IsFiniteSet(S)
BY IntentsAssumption, FS_Subset

LEMMA WeightIsNat ==
    ASSUME NEW rows \in [Intents -> Rows]
    PROVE  \A i \in Intents : Weight(rows)[i] = rows[i].seats /\ Weight(rows)[i] \in Nat
BY CapacityAssumption DEF Weight, Rows

\* The model's count of seats, now and after a step, is the sum of SetSums.
LEMMA SeatsOfIsSum ==
    ASSUME NEW S \in SUBSET Intents
    PROVE  SeatsOf(S) = SumOver(Weight(intent), S)
<1>1. SeatsOf(S) = SumOver([i \in S |-> intent[i].seats], S)
  BY DEF SumOver, MapThenSumSet, MapThenFoldSet, SeatsOf
<1>2. \A i \in S : [k \in S |-> intent[k].seats][i] = Weight(intent)[i]
  BY DEF Weight
<1>3. SumOver([i \in S |-> intent[i].seats], S) = SumOver(Weight(intent), S)
  BY <1>2, SeatsAreFinite, SumSame
<1> QED
  BY <1>1, <1>3

LEMMA TakenIsTotal == Taken = attendees + Total(intent)
<1>1. Holding = Held(intent) /\ Held(intent) \in SUBSET Intents
  BY DEF Holding, Held, Active, Pending, Claims
<1>2. SeatsOf(Holding) = SumOver(Weight(intent), Held(intent))
  BY <1>1, SeatsOfIsSum
<1> QED
  BY <1>2 DEF Taken, Total

LEMMA TakenIsTotalNext == Taken' = attendees' + Total(intent')
<1>1. (Taken = attendees + Total(intent))'
  BY TakenIsTotal, PTL
<1>2. (Total(intent))' = Total(intent')
  BY DEF Total, Weight, Held, Claims
<1> QED
  BY <1>1, <1>2

LEMMA TotalType ==
    ASSUME NEW rows \in [Intents -> Rows]
    PROVE  Total(rows) \in Nat
BY WeightIsNat, SeatsAreFinite, SumType DEF Total, Held

\* Rows that keep their seats, fewer of which hold them, hold no more.
LEMMA TotalShrinks ==
    ASSUME NEW rows \in [Intents -> Rows], NEW new \in [Intents -> Rows],
           \A i \in Intents : Claims(new[i]) => Claims(rows[i]) /\ new[i].seats = rows[i].seats
    PROVE  Total(new) <= Total(rows)
<1>1. Held(new) \subseteq Held(rows) /\ Held(rows) \subseteq Intents
  BY DEF Held
<1>2. \A i \in Held(new) : Weight(new)[i] = Weight(rows)[i]
  BY WeightIsNat DEF Held
<1>3. SumOver(Weight(new), Held(new)) = SumOver(Weight(rows), Held(new))
  BY <1>1, <1>2, SeatsAreFinite, SumSame
<1>4. SumOver(Weight(rows), Held(new)) <= SumOver(Weight(rows), Held(rows))
  BY <1>1, WeightIsNat, SeatsAreFinite, SumMonotonic
<1> QED
  BY <1>3, <1>4 DEF Total

\* What the other rows hold does not depend on row i.
Beside(rows, i) == SumOver(Weight(rows), Held(rows) \ {i})

LEMMA BesideType ==
    ASSUME NEW rows \in [Intents -> Rows], NEW i
    PROVE  Beside(rows, i) \in Nat
BY WeightIsNat, SeatsAreFinite, SumType DEF Beside, Held

LEMMA TotalSplit ==
    ASSUME NEW rows \in [Intents -> Rows], NEW i \in Intents
    PROVE  Total(rows) = Beside(rows, i) + (IF Claims(rows[i]) THEN rows[i].seats ELSE 0)
<1>1. CASE Claims(rows[i])
  <2>1. i \in Held(rows) /\ Held(rows) \subseteq Intents
    BY <1>1 DEF Held
  <2>2. SumOver(Weight(rows), Held(rows)) = Weight(rows)[i] + SumOver(Weight(rows), Held(rows) \ {i})
    BY <2>1, WeightIsNat, SeatsAreFinite, SumRemove
  <2>3. Weight(rows)[i] = rows[i].seats /\ rows[i].seats \in Nat /\ Beside(rows, i) \in Nat
    BY WeightIsNat, BesideType
  <2>4. Total(rows) = Weight(rows)[i] + Beside(rows, i)
    BY <2>2 DEF Total, Beside
  <2> QED
    BY <1>1, <2>3, <2>4
<1>2. CASE ~Claims(rows[i])
  <2>1. Held(rows) \ {i} = Held(rows)
    BY <1>2 DEF Held
  <2> QED
    BY <1>2, <2>1, TotalType DEF Total, Beside
<1> QED
  BY <1>1, <1>2

LEMMA BesideKept ==
    ASSUME NEW rows \in [Intents -> Rows], NEW i \in Intents, NEW r \in Rows
    PROVE  Beside([rows EXCEPT ![i] = r], i) = Beside(rows, i)
<1> DEFINE new == [rows EXCEPT ![i] = r]
<1>1. Held(new) \ {i} = Held(rows) \ {i} /\ Held(rows) \ {i} \in SUBSET Intents
  BY DEF Held
<1>2. \A k \in Held(rows) \ {i} : Weight(new)[k] = Weight(rows)[k]
  BY DEF Weight, Held
<1>3. SumOver(Weight(new), Held(rows) \ {i}) = SumOver(Weight(rows), Held(rows) \ {i})
  <2> HIDE DEF new
  <2> QED
    BY <1>1, <1>2, SeatsAreFinite, SumSame
<1> QED
  BY <1>1, <1>3 DEF Beside

\* A step that writes one row changes the total by what that row holds.
LEMMA TotalOfWrite ==
    ASSUME NEW rows \in [Intents -> Rows], NEW i \in Intents, NEW r \in Rows
    PROVE  Total([rows EXCEPT ![i] = r]) = Beside(rows, i) + (IF Claims(r) THEN r.seats ELSE 0)
<1>1. [rows EXCEPT ![i] = r] \in [Intents -> Rows] /\ [rows EXCEPT ![i] = r][i] = r
  OBVIOUS
<1>2. PICK new : new = [rows EXCEPT ![i] = r]
  OBVIOUS
<1> QED
  BY <1>1, <1>2, TotalSplit, BesideKept

\* The guards of the actions in these terms.
LEMMA FitsBesideMeans ==
    ASSUME TypeOK, NEW i \in Intents, NEW n \in Nat
    PROVE  FitsBeside(i, n) <=> attendees + Beside(intent, i) + n <= Capacity
<1>1. Holding \ {i} = Held(intent) \ {i} /\ Held(intent) \ {i} \in SUBSET Intents
  BY DEF Holding, Held, Active, Pending, Claims
<1>2. SeatsOf(Holding \ {i}) = Beside(intent, i)
  BY <1>1, SeatsOfIsSum DEF Beside
<1> QED
  BY <1>2 DEF FitsBeside

LEMMA RoomForBookingMeans ==
    ASSUME TypeOK, NEW i \in Intents
    PROVE  RoomForBooking(i) <=>
               attendees + Beside(intent, i) + intent[i].seats + intent[i].seats <= Capacity
<1>0. intent \in [Intents -> Rows] /\ attendees \in Nat /\ intent[i].seats \in Nat
  BY CapacityAssumption DEF TypeOK, Rows
<1>1. Holding \cup {i} = (Held(intent) \ {i}) \cup {i} /\ Held(intent) \ {i} \in SUBSET Intents
  BY DEF Holding, Held, Active, Pending, Claims
<1>2. SeatsOf(Holding \cup {i}) = SumOver(Weight(intent), (Held(intent) \ {i}) \cup {i})
  BY <1>1, SeatsOfIsSum
<1>3. SumOver(Weight(intent), (Held(intent) \ {i}) \cup {i})
      = Weight(intent)[i] + SumOver(Weight(intent), Held(intent) \ {i})
  BY <1>0, <1>1, WeightIsNat, SeatsAreFinite, SumAdd
<1>4. SeatsOf(Holding \cup {i}) = Weight(intent)[i] + Beside(intent, i)
  BY <1>2, <1>3 DEF Beside
<1>5. Weight(intent)[i] = intent[i].seats /\ Beside(intent, i) \in Nat
  BY <1>0, WeightIsNat, BesideType
<1> QED
  BY <1>0, <1>4, <1>5, CapacityAssumption DEF RoomForBooking

-----------------------------------------------------------------------------
(* Types.                                                                   *)

LEMMA JobKinds ==
    ASSUME NEW j \in Jobs
    PROVE  /\ j.op = "create" => j.of \in Intents /\ j.seats \in Seated /\ j.taken \in Nat
           /\ j.op = "update" => /\ j.of \in Intents /\ j.seats \in Seated /\ j.taken \in Nat
                                 /\ j.snap \in Rows
           /\ j.op \in {"checkout", "preview"} => j.of \in Intents /\ j.seats \in Seated
           /\ j.op = "expire" => j.rows \in SUBSET Intents
BY DEF Jobs, Idle, Seated

LEMMA JobTypes ==
    /\ Idle \in Jobs
    /\ \A i \in Intents, n \in Seated, t \in Nat :
          /\ [op |-> "create", of |-> i, seats |-> n, taken |-> t] \in Jobs
          /\ [op |-> "checkout", of |-> i, seats |-> n] \in Jobs
          /\ [op |-> "preview", of |-> i, seats |-> n] \in Jobs
          /\ \A r \in Rows :
                [op |-> "update", of |-> i, seats |-> n, taken |-> t, snap |-> r] \in Jobs
    /\ \A i \in Intents, op \in {"cancel", "delete", "book", "retire"} :
          [op |-> op, of |-> i] \in Jobs
    /\ \A S \in SUBSET Intents : [op |-> "expire", rows |-> S] \in Jobs
BY DEF Jobs, Seated

LEMMA LapsedJob ==
    ASSUME NEW j \in Jobs, j.op = "update"
    PROVE  /\ [j EXCEPT !.snap.held = FALSE] \in Jobs
           /\ [j EXCEPT !.snap.held = FALSE].op = j.op
           /\ [j EXCEPT !.snap.held = FALSE].of = j.of
           /\ [j EXCEPT !.snap.held = FALSE].seats = j.seats
           /\ [j EXCEPT !.snap.held = FALSE].taken = j.taken
           /\ [j EXCEPT !.snap.held = FALSE].snap = [j.snap EXCEPT !.held = FALSE]
<1>1. j \in [op : {"update"}, of : Intents, seats : 1..Capacity, taken : Nat, snap : Rows]
  BY DEF Jobs, Idle
<1>2. PICK r : r = [j.snap EXCEPT !.held = FALSE]
  OBVIOUS
<1>3. r \in Rows
  BY <1>1, <1>2 DEF Rows
<1>4. [j EXCEPT !.snap.held = FALSE] = [j EXCEPT !.snap = r]
  BY <1>2
<1>5. [j EXCEPT !.snap = r]
      \in [op : {"update"}, of : Intents, seats : 1..Capacity, taken : Nat, snap : Rows]
  BY <1>1, <1>3
<1>6. /\ [j EXCEPT !.snap = r].op = j.op /\ [j EXCEPT !.snap = r].of = j.of
      /\ [j EXCEPT !.snap = r].seats = j.seats /\ [j EXCEPT !.snap = r].taken = j.taken
      /\ [j EXCEPT !.snap = r].snap = r
  BY <1>1
<1> QED
  BY <1>2, <1>4, <1>5, <1>6 DEF Jobs

LEMMA PaymentKinds ==
    ASSUME NEW q \in PaymentRows, q # NoPayment
    PROVE  /\ q.of \in Intents /\ q.seats \in Seated /\ q.final \in BOOLEAN
           /\ q.status # "none"
           /\ \A s \in {"open", "offline", "paid", "fulfilled", "review", "void"} :
                 /\ [q EXCEPT !.status = s] \in PaymentRows
                 /\ [q EXCEPT !.status = s, !.final = TRUE] \in PaymentRows
BY DEF PaymentRows, NoPayment, Seated

LEMMA AllTaken == ASSUME TypeOK PROVE Taken \in Nat
BY TakenIsTotal, TotalType DEF TypeOK

\* What a request asks for and reads fits its job.
LEMMA CreateType ==
    ASSUME TypeOK, RowInv, NEW w \in Workers, NEW i \in Intents, ReadForCreate(w, i)
    PROVE  \E n \in Seated :
              /\ attendees + Total(intent) + n <= Capacity
              /\ \E t \in Nat :
                    /\ t <= Taken
                    /\ job' = [job EXCEPT ![w] =
                                 [op |-> "create", of |-> i, seats |-> n, taken |-> t]]
<1>1. PICK n \in AllowedSeats :
         /\ FitsBeside(i, n)
         /\ job' = [job EXCEPT ![w] = [op |-> "create", of |-> i, seats |-> n,
                                       taken |-> Taken - SeatsOf(OthersOfOwner(i))]]
  BY DEF ReadForCreate, Ask, SetJob
<1>2. intent \in [Intents -> Rows] /\ attendees \in Nat /\ n \in Nat \ {0} /\ Capacity \in Nat
  BY CapacityAssumption DEF TypeOK, AllowedSeats
<1>3. Total(intent) = Beside(intent, i)
  <2>1. ~Claims(intent[i])
    BY DEF ReadForCreate, Absent, Claims
  <2> QED
    BY <1>2, <2>1, TotalSplit, BesideType
<1>4. attendees + Total(intent) + n <= Capacity
  BY <1>1, <1>2, <1>3, FitsBesideMeans
<1>5. n \in Seated
  BY <1>2, <1>4, TotalType DEF Seated
<1>6. SeatsOf(OthersOfOwner(i)) \in Nat /\ SeatsOf(OthersOfOwner(i)) <= SeatsOf(Holding)
  <2>1. /\ OthersOfOwner(i) \subseteq Holding /\ Holding \in SUBSET Intents
        /\ OthersOfOwner(i) \in SUBSET Intents
    BY DEF OthersOfOwner, Holding
  <2>2. /\ SumOver(Weight(intent), OthersOfOwner(i)) \in Nat
        /\ SumOver(Weight(intent), OthersOfOwner(i)) <= SumOver(Weight(intent), Holding)
    BY <1>2, <2>1, WeightIsNat, SeatsAreFinite, SumType, SumMonotonic
  <2> QED
    BY <2>1, <2>2, SeatsOfIsSum
<1>7. Taken - SeatsOf(OthersOfOwner(i)) \in Nat /\ Taken - SeatsOf(OthersOfOwner(i)) <= Taken
  <2>1. SeatsOf(Holding) \in Nat
    BY <1>2, TakenIsTotal, SeatsOfIsSum, WeightIsNat, SeatsAreFinite, SumType DEF Holding
  <2> QED
    BY <1>2, <1>6, <2>1 DEF Taken
<1> QED
  BY <1>1, <1>4, <1>5, <1>7

LEMMA StepTypes ==
    ASSUME TypeOK, RowInv, [Next]_vars
    PROVE  TypeOK'
<1> USE DEF TypeOK
<1>rows. ASSUME NEW i \in Intents, NEW s \in {"completed", "expired", "cancelled", "deleted"}
         PROVE  /\ [intent[i] EXCEPT !.status = s] \in Rows
                /\ [intent[i] EXCEPT !.held = FALSE] \in Rows
                /\ Extended(i) \in Rows
  BY DEF Rows, Extended
<1>seated. ASSUME NEW i \in Intents, intent[i].status # "absent" PROVE intent[i].seats \in Seated
  BY <1>seated DEF RowInv
<1>1. ASSUME UNCHANGED vars PROVE TypeOK'
  BY <1>1 DEF vars
<1>2. ASSUME NEW w \in Workers, NEW j \in Jobs, Read(w, j) PROVE TypeOK'
  <2>1. job' \in [Workers -> Jobs]
    BY <1>2 DEF Read, Ask, SetJob
  <2>2. requests' \in 0..MaxRequests
    BY <1>2, CapacityAssumption DEF Read, Ask
  <2> QED
    BY <1>2, <2>1, <2>2 DEF Read, history
<1>3. ASSUME NEW w \in Workers, NEW i \in Intents, ReadForCreate(w, i) PROVE TypeOK'
  <2>1. PICK n \in Seated, t \in Nat :
           job' = [job EXCEPT ![w] = [op |-> "create", of |-> i, seats |-> n, taken |-> t]]
    BY <1>3, CreateType
  <2>2. [op |-> "create", of |-> i, seats |-> n, taken |-> t] \in Jobs
    BY JobTypes
  <2>3. job' \in [Workers -> Jobs]
    BY <2>1, <2>2
  <2>4. requests' \in 0..MaxRequests
    BY <1>3, CapacityAssumption DEF ReadForCreate, Ask
  <2>5. intent' \in [Intents -> Rows]
    BY <1>3, <1>rows DEF ReadForCreate
  <2> QED
    BY <1>3, <2>3, <2>4, <2>5 DEF ReadForCreate, history
<1>4. ASSUME NEW w \in Workers, NEW i \in Intents, ReadStep(w, i) PROVE TypeOK'
  <2>1. CASE ReadForCreate(w, i)
    BY <2>1, <1>3
  <2>2. CASE ReadForUpdate(w, i)
    <3>1. PICK n \in Seated :
             Read(w, [op |-> "update", of |-> i, seats |-> n, taken |-> Taken, snap |-> intent[i]])
      BY <2>2 DEF ReadForUpdate, Seated
    <3> QED
      BY <3>1, <1>2, JobTypes, AllTaken
  <2>3. CASE ReadForCancel(w, i)
    BY <2>3, <1>2, JobTypes DEF ReadForCancel
  <2>4. CASE ReadForDelete(w, i)
    BY <2>4, <1>2, JobTypes DEF ReadForDelete
  <2>5. CASE ReadForBooking(w, i)
    BY <2>5, <1>2, JobTypes DEF ReadForBooking
  <2>6. CASE ReadForRetire(w, i)
    BY <2>6, <1>2, JobTypes DEF ReadForRetire
  <2>7. CASE ReadForCheckout(w, i)
    <3>1. intent[i].seats \in Seated
      BY <2>7, <1>seated DEF ReadForCheckout, Active, Pending
    <3> QED
      BY <2>7, <3>1, <1>2, JobTypes DEF ReadForCheckout
  <2>8. CASE ReadForPreview(w, i)
    <3>1. intent[i].seats \in Seated
      BY <2>8, <1>seated DEF ReadForPreview, Active, Pending
    <3> QED
      BY <2>8, <3>1, <1>2, JobTypes DEF ReadForPreview
  <2> QED
    BY <1>4, <2>1, <2>2, <2>3, <2>4, <2>5, <2>6, <2>7, <2>8 DEF ReadStep
<1>5. ASSUME NEW w \in Workers, NEW op, Answer(w, op), intent' \in [Intents -> Rows],
             attendees' = attendees, raced' \in BOOLEAN, overwritten' \in [Intents -> BOOLEAN]
      PROVE  TypeOK'
  <2>1. job' \in [Workers -> Jobs]
    BY <1>5, JobTypes DEF Answer, SetJob
  <2> QED
    BY <1>5, <2>1 DEF Answer
<1>6. ASSUME NEW w \in Workers, NEW i \in Intents, Insert(w, i) PROVE TypeOK'
  <2>1. job[w].seats \in 1..Capacity
    BY <1>6, JobKinds DEF Insert, Answer, Seated
  <2>2. [status |-> "pending", held |-> TRUE, seats |-> job[w].seats, booked |-> FALSE] \in Rows
    BY <2>1, CapacityAssumption DEF Rows
  <2>3. intent' \in [Intents -> Rows]
    BY <1>6, <2>2 DEF Insert, SetIntent
  <2>4. raced' \in BOOLEAN
    BY <1>6 DEF Insert
  <2> QED
    BY <1>5, <1>6, <2>3, <2>4 DEF Insert
<1>7. ASSUME NEW w \in Workers, NEW i \in Intents, SaveUpdate(w, i) PROVE TypeOK'
  <2>1. job[w].seats \in 1..Capacity /\ job[w].snap \in Rows
    BY <1>7, JobKinds DEF SaveUpdate, Answer, Seated
  <2>2. [job[w].snap EXCEPT !.seats = job[w].seats] \in Rows
    BY <2>1, CapacityAssumption DEF Rows
  <2>3. intent' \in [Intents -> Rows]
    BY <1>7, <2>2 DEF SaveUpdate, SetIntent
  <2>4. raced' \in BOOLEAN
    BY <1>7 DEF SaveUpdate
  <2>5. overwritten' \in [Intents -> BOOLEAN]
    BY <1>7 DEF SaveUpdate
  <2> QED
    BY <1>5, <1>7, <2>3, <2>4, <2>5 DEF SaveUpdate
<1>8. ASSUME NEW w \in Workers, NEW i \in Intents, WriteStatus(w, i) PROVE TypeOK'
  <2>1. \E s \in {"completed", "cancelled", "deleted"} : SaveStatus(i, s)
    BY <1>8 DEF WriteStatus
  <2>2. intent' \in [Intents -> Rows]
    BY <2>1, <1>rows DEF SaveStatus, SetIntent
  <2> QED
    BY <1>5, <1>8, <2>2 DEF WriteStatus
<1>9. ASSUME NEW w \in Workers, ExpireRows(w) PROVE TypeOK'
  <2>1. intent' \in [Intents -> Rows]
    BY <1>9, <1>rows DEF ExpireRows
  <2> QED
    BY <1>5, <1>9, <2>1 DEF ExpireRows
<1>10. ASSUME NEW w \in Workers, NEW i \in Intents, LockForCheckout(w, i)
       PROVE  /\ job' \in [Workers -> Jobs] /\ requests' \in 0..MaxRequests
              /\ raced' \in BOOLEAN /\ overwritten' \in [Intents -> BOOLEAN]
              /\ job[w].seats \in Seated
  BY <1>10, JobTypes, JobKinds DEF LockForCheckout, SetJob
<1>11. ASSUME NEW i \in Intents, NEW r \in Rows, NEW n \in Seated, MakeBooking(i, r, n)
       PROVE  /\ intent' \in [Intents -> Rows] /\ attendees' \in Nat
              /\ bookings' \in [Intents -> Nat] /\ unreserved' \in BOOLEAN
  <2>1. [r EXCEPT !.booked = TRUE,
                  !.status = IF @ = "pending" THEN "completed" ELSE @] \in Rows
    BY DEF Rows
  <2>2. n \in Nat
    BY CapacityAssumption DEF Seated
  <2> QED
    BY <1>11, <2>1, <2>2 DEF MakeBooking, SetIntent
<1>12. ASSUME NEW p \in Payments, NEW i \in Intents, NEW n \in Seated, NEW f \in BOOLEAN,
              NEW s \in {"open", "offline", "paid"}, NewPayment(p, i, n, s, f)
       PROVE  payment' \in [Payments -> PaymentRows]
  BY <1>12 DEF NewPayment, SetPayment, PaymentRows, Seated
<1>13. ASSUME NEW p \in Payments, MakeTickets(p) PROVE tickets' \in [Payments -> Nat]
  BY <1>13 DEF MakeTickets
<1>14. ASSUME NEW w \in Workers, NEW i \in Intents, Preview(w, i) PROVE TypeOK'
  <2>1. intent' \in [Intents -> Rows]
    BY <1>14, <1>rows DEF Preview, SetIntent
  <2> QED
    BY <1>10, <1>14, <2>1 DEF Preview
<1>15. ASSUME NEW w \in Workers, NEW i \in Intents, NEW p \in Payments, CheckoutStep(w, i, p)
       PROVE  TypeOK'
  <2>1. CASE CheckoutStripe(w, i, p)
    <3>1. intent' \in [Intents -> Rows]
      BY <2>1, <1>rows DEF CheckoutStripe, SetIntent
    <3> QED
      BY <2>1, <3>1, <1>10, <1>12 DEF CheckoutStripe
  <2>2. CASE CheckoutTransfer(w, i, p)
    BY <2>2, <1>rows, <1>10, <1>11, <1>12 DEF CheckoutTransfer
  <2>3. CASE CheckoutPaid(w, i, p)
    BY <2>3, <1>rows, <1>10, <1>11, <1>12, <1>13 DEF CheckoutPaid
  <2> QED
    BY <1>15, <2>1, <2>2, <2>3 DEF CheckoutStep
<1>16. ASSUME NEW p \in Payments, PaymentStep(p) PROVE TypeOK'
  <2>0. payment[p] # NoPayment
    BY <1>16 DEF PaymentStep, Confirm, Abandon, FulfilFinal, FulfilDeferred, FulfilFails,
                 ClearReview, NoPayment
  <2>1. payment' \in [Payments -> PaymentRows]
    <3>1. PICK s \in {"paid", "void", "fulfilled", "review"} :
             \/ SetPayment(p, [payment[p] EXCEPT !.status = s])
             \/ SetPayment(p, [payment[p] EXCEPT !.status = s, !.final = TRUE])
      BY <1>16 DEF PaymentStep, Confirm, Abandon, FulfilFinal, FulfilDeferred, FulfilFails,
                   ClearReview
    <3>2. /\ [payment[p] EXCEPT !.status = s] \in PaymentRows
          /\ [payment[p] EXCEPT !.status = s, !.final = TRUE] \in PaymentRows
      BY <2>0, PaymentKinds
    <3> QED
      BY <3>1, <3>2 DEF SetPayment
  <2>2. CASE Confirm(p) \/ Abandon(p) \/ FulfilFails(p) \/ ClearReview(p)
    BY <2>1, <2>2 DEF Confirm, Abandon, FulfilFails, ClearReview, requestVars, history
  <2>3. CASE FulfilFinal(p)
    BY <2>1, <2>3, <1>13 DEF FulfilFinal, requestVars
  <2>4. CASE FulfilDeferred(p)
    <3>1. payment[p].of \in Intents /\ payment[p].seats \in Seated
      BY <2>0, PaymentKinds
    <3>2. MakeBooking(payment[p].of, intent[payment[p].of], payment[p].seats)
      BY <2>4 DEF FulfilDeferred
    <3>3. intent[payment[p].of] \in Rows
      BY <3>1
    <3> QED
      BY <2>1, <2>4, <3>1, <3>2, <3>3, <1>11, <1>13 DEF FulfilDeferred, requestVars
  <2> QED
    BY <1>16, <2>2, <2>3, <2>4 DEF PaymentStep
<1>17. ASSUME NEW i \in Intents, Lapse(i) PROVE TypeOK'
  <2>1. intent' \in [Intents -> Rows]
    BY <1>17, <1>rows DEF Lapse, SetIntent
  <2>2. job' \in [Workers -> Jobs]
    <3>1. ASSUME NEW w \in Workers, job[w].op = "update"
          PROVE  [job[w] EXCEPT !.snap.held = FALSE] \in Jobs
      BY <3>1, LapsedJob
    <3> QED
      BY <1>17, <3>1 DEF Lapse
  <2> QED
    BY <1>17, <2>1, <2>2 DEF Lapse, history
<1>18. ASSUME NEW w \in Workers, ReadForExpire(w) \/ Abort(w) PROVE TypeOK'
  <2>1. CASE ReadForExpire(w)
    BY <2>1, <1>2, JobTypes DEF ReadForExpire
  <2>2. CASE Abort(w)
    BY <2>2, JobTypes DEF Abort, SetJob, history
  <2> QED
    BY <1>18, <2>1, <2>2
<1> QED
  BY <1>1, <1>4, <1>6, <1>7, <1>8, <1>9, <1>14, <1>15, <1>16, <1>17, <1>18
  DEF Next, WriteStep

-----------------------------------------------------------------------------
(* What a step that leaves a part of the invariant alone has to show.       *)

\* Rows are neither made nor unmade, nor given other seats.
SameSeats(old, new) ==
    \/ new = old
    \/ old.status # "absent" /\ new.status # "absent" /\ new.seats = old.seats

LEMMA RowsKept ==
    ASSUME RowInv, \A i \in Intents : SameSeats(intent[i], intent'[i])
    PROVE  RowInv'
BY DEF RowInv, SameSeats

LEMMA JobsKept ==
    ASSUME IInv, \A i \in Intents : SameSeats(intent[i], intent'[i]),
           \A w \in Workers : job'[w] = job[w] \/ job'[w].op \notin {"create", "update"}
    PROVE  JobInv'
<1>1. ASSUME NEW w \in Workers, job'[w].op = "create"
      PROVE  CreateInv(w)'
  <2>1. job'[w] = job[w] /\ CreateInv(w) /\ job[w].of \in Intents
    BY <1>1, JobKinds DEF IInv, JobInv, TypeOK
  <2>2. intent'[job[w].of] = Absent
    BY <2>1 DEF CreateInv, SameSeats, Absent
  <2> QED
    BY <2>1, <2>2 DEF CreateInv
<1>2. ASSUME NEW w \in Workers, job'[w].op = "update"
      PROVE  UpdateInv(w)'
  <2>1. job'[w] = job[w] /\ UpdateInv(w) /\ job[w].of \in Intents
    BY <1>2, JobKinds DEF IInv, JobInv, TypeOK
  <2>2. intent'[job[w].of].status # "absent"
    BY <2>1 DEF UpdateInv, SameSeats
  <2> QED
    BY <2>1, <2>2 DEF UpdateInv
<1> QED
  BY <1>1, <1>2 DEF JobInv

LEMMA BooksKept ==
    ASSUME BookInv, bookings' = bookings, overwritten' = overwritten,
           \A i \in Intents : /\ intent'[i].booked = intent[i].booked
                              /\ intent'[i].status = "pending" => Pending(i)
    PROVE  BookInv'
BY DEF BookInv, Pending

LEMMA PaysKept ==
    ASSUME PayInv, UNCHANGED <<payment, tickets, bookings>>,
           \A i \in Intents : overwritten[i] => overwritten'[i],
           payment \in [Payments -> PaymentRows]
    PROVE  PayInv'
<1>1. \A p \in Payments : payment[p] # NoPayment => payment[p].of \in Intents
  BY PaymentKinds
<1> QED
  BY <1>1 DEF PayInv

LEMMA SeatsKept ==
    ASSUME NeverOverbooked, TypeOK, TypeOK', attendees' = attendees,
           raced => raced', unreserved => unreserved',
           \A i \in Intents : overwritten[i] => overwritten'[i],
           \A i \in Intents :
              Claims(intent'[i]) => Claims(intent[i]) /\ intent'[i].seats = intent[i].seats
    PROVE  NeverOverbooked'
<1> SUFFICES ASSUME ~raced', ~unreserved', \A i \in Intents : ~overwritten'[i]
             PROVE  Taken' <= Capacity
  BY DEF NeverOverbooked
<1>1. Taken <= Capacity
  BY DEF NeverOverbooked
<1>2. Total(intent') <= Total(intent)
  BY TotalShrinks DEF TypeOK
<1> QED
  BY <1>1, <1>2, TakenIsTotal, TakenIsTotalNext, TotalType, CapacityAssumption DEF TypeOK

-----------------------------------------------------------------------------
(* Every step keeps the invariant.                                          *)

\* A request that reads, one that is given up.
LEMMA StepLooks ==
    ASSUME IInv, TypeOK', UNCHANGED <<intent, payment, attendees, history>>,
           \A w \in Workers : job'[w] = job[w] \/ job'[w].op \notin {"create", "update"}
    PROVE  IInv'
<1>1. RowInv'
  BY RowsKept DEF IInv, SameSeats
<1>2. JobInv'
  BY JobsKept DEF IInv, SameSeats
<1>3. BookInv'
  BY DEF IInv, BookInv, Pending, history
<1>4. PayInv'
  BY PaysKept DEF IInv, TypeOK, history
<1>5. NeverOverbooked'
  BY SeatsKept DEF IInv, history
<1> QED
  BY <1>1, <1>2, <1>3, <1>4, <1>5 DEF IInv

LEMMA StepReads ==
    ASSUME IInv, TypeOK', NEW w \in Workers, NEW j,
           Read(w, j), j.op \notin {"create", "update"}
    PROVE  IInv'
<1>1. job' = [job EXCEPT ![w] = j] /\ UNCHANGED <<intent, payment, attendees, history>>
  BY DEF Read, Ask, SetJob
<1>2. \A v \in Workers : job'[v] = job[v] \/ job'[v].op \notin {"create", "update"}
  BY <1>1 DEF IInv, TypeOK
<1> QED
  BY <1>1, <1>2, StepLooks

LEMMA StepReadForUpdate ==
    ASSUME IInv, TypeOK', NEW w \in Workers, NEW i \in Intents, ReadForUpdate(w, i)
    PROVE  IInv'
<1>1. PICK n \in Seated :
         /\ n > intent[i].seats => FitsBeside(i, n)
         /\ job' = [job EXCEPT ![w] = [op |-> "update", of |-> i, seats |-> n,
                                       taken |-> Taken, snap |-> intent[i]]]
  BY DEF ReadForUpdate, Read, Ask, SetJob, Seated
<1>2. UNCHANGED <<intent, payment, attendees, history>>
  BY DEF ReadForUpdate, Read
<1>3. JobInv'
  <2>1. job \in [Workers -> Jobs] /\ intent \in [Intents -> Rows] /\ attendees \in Nat
    BY DEF IInv, TypeOK
  <2>2. UpdateInv(w)'
    <3>1. job'[w] = [op |-> "update", of |-> i, seats |-> n, taken |-> Taken, snap |-> intent[i]]
      BY <1>1, <2>1
    <3>2. Claims(intent[i])
      BY DEF ReadForUpdate, Active, Pending, Claims
    <3>3. intent[i].status = "pending" /\ intent[i].seats \in Seated
      BY <3>2 DEF Claims, IInv, RowInv
    <3>4. ASSUME n > intent[i].seats PROVE Taken - intent[i].seats + n <= Capacity
      <4>1. n \in Nat /\ intent[i].seats \in Nat /\ Capacity \in Nat
        BY <3>3, CapacityAssumption DEF Seated
      <4>2. attendees + Beside(intent, i) + n <= Capacity
        BY <1>1, <3>4, <4>1, FitsBesideMeans DEF IInv
      <4>3. Taken = attendees + Beside(intent, i) + intent[i].seats /\ Beside(intent, i) \in Nat
        BY <2>1, <3>2, <4>1, TakenIsTotal, TotalSplit, BesideType
      <4> QED
        BY <2>1, <4>1, <4>2, <4>3
    <3> QED
      BY <1>2, <3>1, <3>3, <3>4 DEF UpdateInv
  <2>3. ASSUME NEW v \in Workers, v # w PROVE job'[v] = job[v]
    BY <1>1, <2>1, <2>3
  <2>4. job'[w].op = "update"
    BY <1>1, <2>1
  <2>5. ASSUME NEW v \in Workers, job'[v].op = "create" PROVE CreateInv(v)'
    <3>1. v # w /\ CreateInv(v)
      BY <2>3, <2>4, <2>5 DEF IInv, JobInv
    <3> QED
      BY <1>2, <2>3, <2>4, <3>1 DEF CreateInv
  <2>6. ASSUME NEW v \in Workers, v # w, job'[v].op = "update" PROVE UpdateInv(v)'
    BY <1>2, <2>3, <2>6 DEF IInv, JobInv, UpdateInv
  <2> QED
    BY <2>2, <2>5, <2>6 DEF JobInv
<1>4. RowInv' /\ BookInv' /\ PayInv' /\ NeverOverbooked'
  <2>1. RowInv'
    BY <1>2, RowsKept DEF IInv, SameSeats
  <2>2. BookInv'
    BY <1>2 DEF IInv, BookInv, Pending, history
  <2>3. PayInv'
    BY <1>2, PaysKept DEF IInv, TypeOK, history
  <2>4. NeverOverbooked'
    BY <1>2, SeatsKept DEF IInv, history
  <2> QED
    BY <2>1, <2>2, <2>3, <2>4
<1> QED
  BY <1>3, <1>4 DEF IInv

LEMMA StepReadForCreate ==
    ASSUME IInv, TypeOK', NEW w \in Workers, NEW i \in Intents, ReadForCreate(w, i)
    PROVE  IInv'
<1>1. PICK n \in Seated, t \in Nat :
         /\ attendees + Total(intent) + n <= Capacity /\ t <= Taken
         /\ job' = [job EXCEPT ![w] = [op |-> "create", of |-> i, seats |-> n, taken |-> t]]
  BY CreateType DEF IInv
<1>2. job \in [Workers -> Jobs] /\ intent \in [Intents -> Rows] /\ attendees \in Nat
  BY DEF IInv, TypeOK
<1>3. /\ intent[i] = Absent
      /\ \A v \in Workers : job[v].op = "create" => job[v].of # i
      /\ intent' = [k \in Intents |-> IF k \in OthersOfOwner(i)
                                      THEN [intent[k] EXCEPT !.status = "expired"]
                                      ELSE intent[k]]
      /\ UNCHANGED <<payment, attendees, history>>
  BY DEF ReadForCreate
<1>4. ASSUME NEW k \in Intents
      PROVE  /\ SameSeats(intent[k], intent'[k])
             /\ intent'[k].booked = intent[k].booked
             /\ intent'[k].status = "pending" => intent'[k] = intent[k]
             /\ intent[k] = Absent => intent'[k] = Absent
  <2>1. \/ intent'[k] = intent[k]
        \/ /\ intent[k].status = "pending"
           /\ intent'[k] = [intent[k] EXCEPT !.status = "expired"]
    BY <1>3 DEF OthersOfOwner, Holding, Active, Pending
  <2>2. intent[k] \in Rows
    BY <1>2
  <2>3. CASE intent'[k] = intent[k]
    BY <2>3 DEF SameSeats
  <2>4. CASE /\ intent[k].status = "pending"
             /\ intent'[k] = [intent[k] EXCEPT !.status = "expired"]
    BY <2>2, <2>4 DEF SameSeats, Absent, Rows
  <2> QED
    BY <2>1, <2>3, <2>4
<1>5. JobInv'
  <2>1. job'[w] = [op |-> "create", of |-> i, seats |-> n, taken |-> t]
    BY <1>1, <1>2
  <2>2. ASSUME NEW v \in Workers, v # w PROVE job'[v] = job[v]
    BY <1>1, <1>2, <2>2
  <2>3. CreateInv(w)'
    <3>1. t + n <= Capacity
      BY <1>1, <1>2, TakenIsTotal, TotalType, CapacityAssumption DEF Seated
    <3> QED
      BY <1>3, <1>4, <2>1, <2>2, <3>1 DEF CreateInv
  <2>4. ASSUME NEW v \in Workers, v # w, job'[v].op = "create" PROVE CreateInv(v)'
    <3>1. job'[v] = job[v] /\ CreateInv(v) /\ job[v].of \in Intents /\ job[v].of # i
      BY <1>2, <1>3, <2>2, <2>4, JobKinds DEF IInv, JobInv
    <3>2. intent'[job[v].of] = Absent
      BY <1>4, <3>1 DEF CreateInv
    <3>3. ASSUME NEW u \in Workers \ {v}, job'[u].op = "create" PROVE job'[u].of # job[v].of
      <4>1. CASE u = w
        BY <2>1, <3>1, <4>1
      <4>2. CASE u # w
        BY <2>2, <3>1, <3>3, <4>2 DEF CreateInv
      <4> QED
        BY <4>1, <4>2
    <3> QED
      BY <3>1, <3>2, <3>3 DEF CreateInv
  <2>5. ASSUME NEW v \in Workers, job'[v].op = "update" PROVE UpdateInv(v)'
    <3>1. job'[v] = job[v] /\ UpdateInv(v) /\ job[v].of \in Intents
      BY <1>2, <2>1, <2>2, <2>5, JobKinds DEF IInv, JobInv
    <3>2. intent'[job[v].of].status # "absent"
      BY <1>4, <3>1 DEF UpdateInv, SameSeats
    <3> QED
      BY <3>1, <3>2 DEF UpdateInv
  <2> QED
    BY <2>3, <2>4, <2>5 DEF JobInv
<1>6. RowInv'
  BY <1>4, RowsKept DEF IInv
<1>7. BookInv'
  BY <1>3, <1>4 DEF IInv, BookInv, Pending, history
<1>8. PayInv'
  BY <1>3, PaysKept DEF IInv, TypeOK, history
<1>9. NeverOverbooked'
  BY <1>3, <1>4, SeatsKept DEF IInv, history, Claims
<1> QED
  BY <1>5, <1>6, <1>7, <1>8, <1>9 DEF IInv

\* A request that writes later ends: its job is over.
LEMMA JobEnds ==
    ASSUME IInv, NEW w \in Workers, job' = [job EXCEPT ![w] = Idle],
           \A i \in Intents : SameSeats(intent[i], intent'[i])
    PROVE  JobInv'
<1>1. \A v \in Workers : job'[v] = job[v] \/ job'[v].op \notin {"create", "update"}
  BY DEF IInv, TypeOK, Idle
<1> QED
  BY <1>1, JobsKept

LEMMA StepInsert ==
    ASSUME IInv, TypeOK', NEW w \in Workers, NEW i \in Intents, Insert(w, i)
    PROVE  IInv'
<1> DEFINE row == [status |-> "pending", held |-> TRUE, seats |-> job[w].seats, booked |-> FALSE]
<1>1. /\ job[w].op = "create" /\ job[w].of = i
      /\ job' = [job EXCEPT ![w] = Idle] /\ intent' = [intent EXCEPT ![i] = row]
      /\ raced' = (raced \/ Taken # job[w].taken)
      /\ UNCHANGED <<payment, attendees, bookings, tickets, overwritten, unreserved>>
  BY DEF Insert, Answer, SetJob, SetIntent
<1>2. job \in [Workers -> Jobs] /\ intent \in [Intents -> Rows] /\ attendees \in Nat
  BY DEF IInv, TypeOK
<1>3. CreateInv(w) /\ job[w].seats \in Seated /\ job[w].taken \in Nat
  BY <1>1, <1>2, JobKinds DEF IInv, JobInv
<1>4. intent[i] = Absent /\ intent'[i] = row /\ \A k \in Intents : k # i => intent'[k] = intent[k]
  BY <1>1, <1>2, <1>3 DEF CreateInv
<1>5. RowInv'
  BY <1>3, <1>4 DEF IInv, RowInv
<1>6. JobInv'
  <2>1. \A v \in Workers : job'[v] = (IF v = w THEN Idle ELSE job[v])
    BY <1>1, <1>2
  <2>2. ASSUME NEW v \in Workers, job'[v].op = "create" PROVE CreateInv(v)'
    <3>1. v # w /\ job'[v] = job[v] /\ CreateInv(v) /\ job[v].of \in Intents
      BY <1>2, <2>1, <2>2, JobKinds DEF Idle, IInv, JobInv
    <3>2. job[v].of # i
      BY <1>1, <1>3, <2>2, <3>1 DEF CreateInv
    <3>3. \A u \in Workers \ {v} : job'[u].op = "create" => job'[u].of # job'[v].of
      BY <2>1, <3>1 DEF Idle, CreateInv
    <3> QED
      BY <1>4, <3>1, <3>2, <3>3 DEF CreateInv
  <2>3. ASSUME NEW v \in Workers, job'[v].op = "update" PROVE UpdateInv(v)'
    <3>1. job'[v] = job[v] /\ UpdateInv(v) /\ job[v].of \in Intents
      BY <1>2, <2>1, <2>3, JobKinds DEF Idle, IInv, JobInv
    <3>2. job[v].of # i
      BY <1>4, <3>1 DEF UpdateInv, Absent
    <3> QED
      BY <1>4, <3>1, <3>2 DEF UpdateInv
  <2> QED
    BY <2>2, <2>3 DEF JobInv
<1>7. BookInv'
  <2>1. ASSUME NEW k \in Intents, ~overwritten[k]
        PROVE  /\ bookings[k] <= 1
               /\ bookings[k] > 0 => intent'[k].booked
               /\ intent'[k].booked => intent'[k].status # "pending"
    BY <1>4, <2>1 DEF IInv, BookInv, Pending, Absent
  <2> QED
    BY <1>1, <2>1 DEF BookInv, Pending
<1>8. PayInv'
  BY <1>1, PaysKept DEF IInv, TypeOK
<1>9. NeverOverbooked'
  <2> SUFFICES ASSUME ~raced', ~unreserved', \A k \in Intents : ~overwritten'[k]
               PROVE  Taken' <= Capacity
    BY DEF NeverOverbooked
  <2>1. Taken = job[w].taken
    BY <1>1
  <2>2. row \in Rows /\ Claims(row) /\ row.seats = job[w].seats
    BY <1>3, CapacityAssumption DEF Rows, Claims, Seated
  <2>3. Total(intent') = Beside(intent, i) + job[w].seats
    <3> HIDE DEF row
    <3> QED
      BY <1>1, <1>2, <2>2, TotalOfWrite
  <2>4. Total(intent) = Beside(intent, i)
    BY <1>2, <1>4, TotalSplit, BesideType DEF Absent, Claims
  <2> QED
    BY <1>1, <1>2, <1>3, <2>1, <2>3, <2>4, TakenIsTotal, TakenIsTotalNext, BesideType,
       CapacityAssumption DEF CreateInv, Seated
<1> QED
  BY <1>5, <1>6, <1>7, <1>8, <1>9 DEF IInv

LEMMA StepSaveUpdate ==
    ASSUME IInv, TypeOK', NEW w \in Workers, NEW i \in Intents, SaveUpdate(w, i)
    PROVE  IInv'
<1>1. PICK row : row = [job[w].snap EXCEPT !.seats = job[w].seats]
  OBVIOUS
<1>2. /\ job[w].op = "update" /\ job[w].of = i
      /\ job' = [job EXCEPT ![w] = Idle] /\ intent' = [intent EXCEPT ![i] = row]
      /\ raced' = (raced \/ Taken # job[w].taken)
      /\ overwritten' = [overwritten EXCEPT ![i] = @ \/ intent[i] # job[w].snap]
      /\ UNCHANGED <<payment, attendees, bookings, tickets, unreserved>>
  BY <1>1 DEF SaveUpdate, Answer, SetJob, SetIntent
<1>3. /\ job \in [Workers -> Jobs] /\ intent \in [Intents -> Rows] /\ attendees \in Nat
      /\ overwritten \in [Intents -> BOOLEAN]
  BY DEF IInv, TypeOK
<1>4. UpdateInv(w) /\ job[w].seats \in Seated /\ job[w].taken \in Nat /\ job[w].snap \in Rows
  BY <1>2, <1>3, JobKinds DEF IInv, JobInv
<1>5. /\ row.status = "pending" /\ row.seats = job[w].seats
      /\ row.held = job[w].snap.held /\ row.booked = job[w].snap.booked /\ row \in Rows
  BY <1>1, <1>4, CapacityAssumption DEF UpdateInv, Rows, Seated
<1>6. intent'[i] = row /\ \A k \in Intents : k # i => intent'[k] = intent[k]
  BY <1>2, <1>3
<1>7. intent[i].status # "absent"
  BY <1>2, <1>4 DEF UpdateInv
<1>8. RowInv'
  BY <1>4, <1>5, <1>6 DEF IInv, RowInv
<1>9. JobInv'
  <2>1. \A v \in Workers : job'[v] = (IF v = w THEN Idle ELSE job[v])
    BY <1>2, <1>3
  <2>2. ASSUME NEW v \in Workers, job'[v].op = "create" PROVE CreateInv(v)'
    <3>1. v # w /\ job'[v] = job[v] /\ CreateInv(v) /\ job[v].of \in Intents
      BY <1>3, <2>1, <2>2, JobKinds DEF Idle, IInv, JobInv
    <3>2. job[v].of # i
      BY <1>7, <3>1 DEF CreateInv, Absent
    <3>3. \A u \in Workers \ {v} : job'[u].op = "create" => job'[u].of # job'[v].of
      BY <2>1, <3>1 DEF Idle, CreateInv
    <3> QED
      BY <1>6, <3>1, <3>2, <3>3 DEF CreateInv
  <2>3. ASSUME NEW v \in Workers, job'[v].op = "update" PROVE UpdateInv(v)'
    <3>1. job'[v] = job[v] /\ UpdateInv(v) /\ job[v].of \in Intents
      BY <1>3, <2>1, <2>3, JobKinds DEF Idle, IInv, JobInv
    <3>2. intent'[job[v].of].status # "absent"
      BY <1>5, <1>6, <3>1 DEF UpdateInv
    <3> QED
      BY <3>1, <3>2 DEF UpdateInv
  <2> QED
    BY <2>2, <2>3 DEF JobInv
<1>10. ASSUME NEW k \in Intents
       PROVE  /\ overwritten[k] => overwritten'[k]
              /\ ~overwritten'[i] => intent[i] = job[w].snap
  BY <1>2, <1>3
<1>11. BookInv'
  <2>1. ASSUME NEW k \in Intents, ~overwritten'[k]
        PROVE  /\ bookings[k] <= 1
               /\ bookings[k] > 0 => intent'[k].booked
               /\ intent'[k].booked => intent'[k].status # "pending"
    <3>1. /\ bookings[k] <= 1
          /\ bookings[k] > 0 => intent[k].booked
          /\ intent[k].booked => intent[k].status # "pending"
      BY <1>10, <2>1 DEF IInv, BookInv, Pending
    <3>2. CASE k = i
      BY <1>4, <1>5, <1>6, <1>10, <2>1, <3>1, <3>2 DEF UpdateInv
    <3>3. CASE k # i
      BY <1>6, <3>1, <3>3
    <3> QED
      BY <3>2, <3>3
  <2> QED
    BY <1>2, <2>1 DEF BookInv, Pending
<1>12. PayInv'
  BY <1>2, <1>10, PaysKept DEF IInv, TypeOK
<1>13. NeverOverbooked'
  <2> SUFFICES ASSUME ~raced', ~unreserved', \A k \in Intents : ~overwritten'[k]
               PROVE  Taken' <= Capacity
    BY DEF NeverOverbooked
  <2>1. Taken = job[w].taken /\ intent[i] = job[w].snap /\ Taken <= Capacity
    BY <1>2, <1>10 DEF IInv, NeverOverbooked
  <2>2. Total(intent') = Beside(intent, i) + (IF Claims(row) THEN row.seats ELSE 0)
    BY <1>2, <1>3, <1>5, TotalOfWrite
  <2>3. Total(intent) = Beside(intent, i) + (IF Claims(intent[i]) THEN intent[i].seats ELSE 0)
    BY <1>3, TotalSplit
  <2>4. Claims(row) <=> Claims(intent[i])
    BY <1>4, <1>5, <2>1 DEF Claims, UpdateInv
  <2>5. /\ job[w].seats \in Nat /\ intent[i].seats \in Nat /\ Capacity \in Nat
        /\ Beside(intent, i) \in Nat
        /\ job[w].seats > intent[i].seats =>
              job[w].taken - intent[i].seats + job[w].seats <= Capacity
    BY <1>3, <1>4, <2>1, BesideType, CapacityAssumption DEF UpdateInv, Seated
  <2>6. Taken = attendees + Total(intent) /\ Taken' = attendees + Total(intent')
    BY <1>2, TakenIsTotal, TakenIsTotalNext
  <2>7. CASE Claims(row)
    BY <1>3, <1>5, <2>1, <2>2, <2>3, <2>4, <2>5, <2>6, <2>7
  <2>8. CASE ~Claims(row)
    BY <2>1, <2>2, <2>3, <2>4, <2>6, <2>8
  <2> QED
    BY <2>7, <2>8
<1> QED
  BY <1>8, <1>9, <1>11, <1>12, <1>13 DEF IInv

\* Rows that are there lose seats, or their hold on them, and nothing else.
Narrowed(old, new) ==
    \/ new = old
    \/ /\ old.status # "absent" /\ new.status # "absent"
       /\ new.seats = old.seats /\ new.booked = old.booked
       /\ new.status = "pending" => old.status = "pending"
       /\ Claims(new) => Claims(old)

LEMMA StepNarrows ==
    ASSUME IInv, TypeOK', NEW w \in Workers, job' = [job EXCEPT ![w] = Idle],
           UNCHANGED <<payment, attendees, history>>,
           \A i \in Intents : Narrowed(intent[i], intent'[i])
    PROVE  IInv'
<1>1. ASSUME NEW i \in Intents
      PROVE  /\ SameSeats(intent[i], intent'[i])
             /\ intent'[i].booked = intent[i].booked
             /\ intent'[i].status = "pending" => Pending(i)
             /\ Claims(intent'[i]) => Claims(intent[i]) /\ intent'[i].seats = intent[i].seats
  <2>1. CASE intent'[i] = intent[i]
    BY <2>1 DEF SameSeats, Pending
  <2>2. CASE intent'[i] # intent[i]
    BY <2>2 DEF Narrowed, SameSeats, Pending
  <2> QED
    BY <2>1, <2>2
<1>2. RowInv'
  BY <1>1, RowsKept DEF IInv
<1>3. JobInv'
  BY <1>1, JobEnds
<1>4. BookInv'
  BY <1>1, BooksKept DEF IInv, history
<1>5. PayInv'
  BY PaysKept DEF IInv, TypeOK, history
<1>6. NeverOverbooked'
  BY <1>1, SeatsKept DEF IInv, history
<1> QED
  BY <1>2, <1>3, <1>4, <1>5, <1>6 DEF IInv

LEMMA StepWriteStatus ==
    ASSUME IInv, TypeOK', NEW w \in Workers, NEW i \in Intents, WriteStatus(w, i)
    PROVE  IInv'
<1>1. PICK s \in {"completed", "cancelled", "deleted"} : SaveStatus(i, s)
  BY DEF WriteStatus
<1>2. job' = [job EXCEPT ![w] = Idle] /\ UNCHANGED <<payment, attendees, history>>
  BY DEF WriteStatus, Answer, SetJob, history
<1>3. ASSUME NEW k \in Intents PROVE Narrowed(intent[k], intent'[k])
  <2>1. intent[k] \in Rows /\ intent \in [Intents -> Rows]
    BY DEF IInv, TypeOK
  <2>2. CASE intent'[k] = intent[k]
    BY <2>2 DEF Narrowed
  <2>3. CASE k = i /\ Exists(i) /\ intent'[i] = [intent[i] EXCEPT !.status = s]
    BY <2>1, <2>3 DEF Narrowed, Exists, Rows, Claims
  <2> QED
    BY <1>1, <2>1, <2>2, <2>3 DEF SaveStatus, SetIntent
<1> QED
  BY <1>2, <1>3, StepNarrows

LEMMA StepExpireRows ==
    ASSUME IInv, TypeOK', NEW w \in Workers, ExpireRows(w)
    PROVE  IInv'
<1>1. job' = [job EXCEPT ![w] = Idle] /\ UNCHANGED <<payment, attendees, history>>
  BY DEF ExpireRows, Answer, SetJob, history
<1>2. ASSUME NEW k \in Intents PROVE Narrowed(intent[k], intent'[k])
  <2>1. intent[k] \in Rows
    BY DEF IInv, TypeOK
  <2>2. CASE intent'[k] = intent[k]
    BY <2>2 DEF Narrowed
  <2>3. CASE Exists(k) /\ intent'[k] = [intent[k] EXCEPT !.status = "expired"]
    BY <2>1, <2>3 DEF Narrowed, Exists, Rows, Claims
  <2> QED
    BY <2>2, <2>3 DEF ExpireRows
<1> QED
  BY <1>1, <1>2, StepNarrows

\* Time passes for a row and for the copies read from it.
LEMMA StepLapse ==
    ASSUME IInv, TypeOK', NEW i \in Intents, Lapse(i)
    PROVE  IInv'
<1>1. PICK row : row = [intent[i] EXCEPT !.held = FALSE]
  OBVIOUS
<1>2. /\ intent \in [Intents -> Rows] /\ job \in [Workers -> Jobs]
      /\ intent' = [intent EXCEPT ![i] = row] /\ intent[i].status = "pending"
      /\ UNCHANGED <<payment, attendees, history>>
  BY <1>1 DEF IInv, TypeOK, Lapse, SetIntent, Active, Pending
<1>3. ASSUME NEW k \in Intents
      PROVE  /\ SameSeats(intent[k], intent'[k])
             /\ intent'[k].booked = intent[k].booked
             /\ intent'[k].status = "pending" => Pending(k)
             /\ Claims(intent'[k]) => Claims(intent[k]) /\ intent'[k].seats = intent[k].seats
  <2>1. CASE k # i
    BY <1>2, <2>1 DEF SameSeats, Pending
  <2>2. CASE k = i
    BY <1>1, <1>2, <2>2 DEF SameSeats, Pending, Claims, Rows
  <2> QED
    BY <2>1, <2>2
<1>4. RowInv'
  BY <1>3, RowsKept DEF IInv
<1>5. JobInv'
  <2>1. ASSUME NEW v \in Workers
        PROVE  /\ job'[v].op = job[v].op
               /\ job[v].op = "create" => job'[v] = job[v]
               /\ job[v].op = "update" =>
                     /\ job'[v].of = job[v].of /\ job'[v].seats = job[v].seats
                     /\ job'[v].taken = job[v].taken
                     /\ job'[v].snap.status = job[v].snap.status
                     /\ job'[v].snap.seats = job[v].snap.seats
    <3>1. CASE job[v].op = "update" /\ job'[v] # job[v]
      <4>1. job'[v] = [job[v] EXCEPT !.snap.held = FALSE]
        BY <3>1 DEF Lapse
      <4>2. job'[v].snap = [job[v].snap EXCEPT !.held = FALSE] /\ job[v].snap \in Rows
        BY <1>2, <3>1, <4>1, LapsedJob, JobKinds
      <4>3. job'[v].snap.status = job[v].snap.status /\ job'[v].snap.seats = job[v].snap.seats
        BY <4>2 DEF Rows
      <4> QED
        BY <1>2, <3>1, <4>1, <4>3, LapsedJob
    <3>2. CASE job'[v] = job[v]
      BY <3>2
    <3>3. CASE job[v].op # "update"
      BY <3>3 DEF Lapse
    <3> QED
      BY <3>1, <3>2, <3>3
  <2>2. ASSUME NEW v \in Workers, job'[v].op = "create" PROVE CreateInv(v)'
    <3>1. job'[v] = job[v] /\ CreateInv(v) /\ job[v].of \in Intents
      BY <1>2, <2>1, <2>2, JobKinds DEF IInv, JobInv
    <3>2. intent'[job[v].of] = Absent
      BY <1>3, <3>1 DEF CreateInv, SameSeats, Absent
    <3>3. \A u \in Workers \ {v} : job'[u].op = "create" => job'[u].of # job'[v].of
      BY <2>1, <3>1 DEF CreateInv
    <3> QED
      BY <3>1, <3>2, <3>3 DEF CreateInv
  <2>3. ASSUME NEW v \in Workers, job'[v].op = "update" PROVE UpdateInv(v)'
    <3>1. UpdateInv(v) /\ job[v].of \in Intents
      BY <1>2, <2>1, <2>3, JobKinds DEF IInv, JobInv
    <3>2. intent'[job[v].of].status # "absent"
      BY <1>3, <3>1 DEF UpdateInv, SameSeats
    <3> QED
      BY <2>1, <2>3, <3>1, <3>2 DEF UpdateInv
  <2> QED
    BY <2>2, <2>3 DEF JobInv
<1>6. BookInv'
  BY <1>2, <1>3, BooksKept DEF IInv, history
<1>7. PayInv'
  BY <1>2, PaysKept DEF IInv, TypeOK, history
<1>8. NeverOverbooked'
  BY <1>2, <1>3, SeatsKept DEF IInv, history
<1> QED
  BY <1>4, <1>5, <1>6, <1>7, <1>8 DEF IInv

\* What the lock of a checkout leaves of the invariant of rows and jobs.
LEMMA CheckoutKeeps ==
    ASSUME IInv, TypeOK', NEW w \in Workers, NEW i \in Intents, LockForCheckout(w, i),
           NEW row \in Rows, row.status # "absent", row.seats = intent[i].seats,
           intent' = [intent EXCEPT ![i] = row]
    PROVE  /\ RowInv' /\ JobInv' /\ UNCHANGED <<raced, overwritten>>
           /\ Pending(i) /\ RoomForBooking(i) /\ job[w].seats \in Seated
<1>1. job \in [Workers -> Jobs] /\ intent \in [Intents -> Rows]
  BY DEF IInv, TypeOK
<1>2. job' = [job EXCEPT ![w] = Idle] /\ Pending(i)
  BY DEF LockForCheckout, SetJob
<1>3. \A k \in Intents : SameSeats(intent[k], intent'[k])
  BY <1>1, <1>2 DEF SameSeats, Pending
<1>4. RowInv'
  BY <1>3, RowsKept DEF IInv
<1>5. JobInv'
  BY <1>2, <1>3, JobEnds
<1> QED
  BY <1>1, <1>4, <1>5, JobKinds DEF LockForCheckout

\* The lock takes seats only where the booking would find room as well.
LEMMA RoomToHold ==
    ASSUME TypeOK, NEW i \in Intents, RoomForBooking(i), attendees' = attendees,
           intent' = [intent EXCEPT ![i] = Extended(i)]
    PROVE  Taken' <= Capacity
<1>1. intent \in [Intents -> Rows] /\ attendees \in Nat /\ Extended(i) \in Rows
  BY DEF TypeOK, Extended, Rows
<1>2. Extended(i).seats = intent[i].seats /\ intent[i].seats \in Nat
  BY <1>1, CapacityAssumption DEF Extended, Rows
<1>3. Total(intent') = Beside(intent, i) + (IF Claims(Extended(i)) THEN Extended(i).seats ELSE 0)
  BY <1>1, TotalOfWrite
<1>4. attendees + Beside(intent, i) + intent[i].seats + intent[i].seats <= Capacity
  BY RoomForBookingMeans
<1>5. Beside(intent, i) \in Nat /\ Taken' = attendees + Total(intent')
  BY <1>1, BesideType, TakenIsTotalNext
<1>6. Total(intent') <= Beside(intent, i) + intent[i].seats
  BY <1>2, <1>3, <1>5
<1> QED
  BY <1>1, <1>2, <1>3, <1>4, <1>5, <1>6, CapacityAssumption

LEMMA ExtendedRow ==
    ASSUME TypeOK, NEW i \in Intents
    PROVE  /\ Extended(i) \in Rows /\ Extended(i).status = intent[i].status
           /\ Extended(i).seats = intent[i].seats /\ Extended(i).booked = intent[i].booked
BY DEF TypeOK, Extended, Rows

LEMMA StepHolds ==
    ASSUME IInv, TypeOK', NEW w \in Workers, NEW i \in Intents, LockForCheckout(w, i),
           SetIntent(i, Extended(i)), UNCHANGED <<attendees, bookings, tickets, unreserved>>
    PROVE  RowInv' /\ JobInv' /\ BookInv' /\ NeverOverbooked'
<1>1. intent' = [intent EXCEPT ![i] = Extended(i)] /\ intent \in [Intents -> Rows]
  BY DEF SetIntent, IInv, TypeOK
<1>2. /\ RowInv' /\ JobInv' /\ UNCHANGED <<raced, overwritten>>
      /\ Pending(i) /\ RoomForBooking(i)
  <2>1. Extended(i).status # "absent"
    BY ExtendedRow DEF LockForCheckout, Pending, IInv
  <2> QED
    BY <1>1, <2>1, CheckoutKeeps, ExtendedRow DEF IInv
<1>3. BookInv'
  <2>1. \A k \in Intents : /\ intent'[k].booked = intent[k].booked
                           /\ intent'[k].status = "pending" => Pending(k)
    BY <1>1, <1>2, ExtendedRow DEF IInv, Pending
  <2> QED
    BY <1>2, <2>1, BooksKept DEF IInv
<1>4. NeverOverbooked'
  BY <1>1, <1>2, RoomToHold DEF IInv, NeverOverbooked
<1> QED
  BY <1>2, <1>3, <1>4

\* The booking of an intent: its seats become attendees.
LEMMA BookingKeeps ==
    ASSUME IInv, TypeOK', NEW i \in Intents, NEW row \in Rows, NEW n \in Seated,
           MakeBooking(i, row, n), UNCHANGED <<raced, overwritten>>,
           row.status = intent[i].status, row.seats = intent[i].seats,
           row.booked = intent[i].booked,
           ~overwritten[i] => ~intent[i].booked,
           Claims(row) => Claims(intent[i]) \/ RoomForBooking(i)
    PROVE  /\ BookInv' /\ NeverOverbooked'
           /\ ~overwritten[i] => bookings[i] = 0
           /\ \A k \in Intents : bookings'[k] >= bookings[k]
           /\ bookings'[i] > 0
<1>1. PICK new : new = [row EXCEPT !.booked = TRUE,
                                   !.status = IF @ = "pending" THEN "completed" ELSE @]
  OBVIOUS
<1>2. /\ intent \in [Intents -> Rows] /\ attendees \in Nat /\ bookings \in [Intents -> Nat]
      /\ intent' = [intent EXCEPT ![i] = new] /\ attendees' = attendees + n
      /\ bookings' = [bookings EXCEPT ![i] = bookings[i] + 1]
      /\ unreserved' = (unreserved \/ ~(row.status = "pending" /\ row.held /\ n <= row.seats))
  BY <1>1 DEF MakeBooking, SetIntent, IInv, TypeOK
<1>3. new \in Rows /\ new.booked /\ new.status # "pending"
  BY <1>1 DEF Rows
<1>4. ~overwritten[i] => bookings[i] = 0
  BY <1>2 DEF IInv, BookInv
<1>5. BookInv'
  <2>1. ASSUME NEW k \in Intents, ~overwritten[k]
        PROVE  /\ bookings'[k] <= 1
               /\ bookings'[k] > 0 => intent'[k].booked
               /\ intent'[k].booked => intent'[k].status # "pending"
    <3>1. CASE k = i
      BY <1>2, <1>3, <1>4, <2>1, <3>1
    <3>2. CASE k # i
      BY <1>2, <2>1, <3>2 DEF IInv, BookInv, Pending
    <3> QED
      BY <3>1, <3>2
  <2> QED
    BY <2>1 DEF BookInv, Pending
<1>6. NeverOverbooked'
  <2> SUFFICES ASSUME ~raced, ~unreserved', \A k \in Intents : ~overwritten[k]
               PROVE  Taken' <= Capacity
    BY DEF NeverOverbooked
  <2>1. Claims(row) /\ n <= row.seats /\ Taken <= Capacity
    BY <1>2 DEF Claims, IInv, NeverOverbooked
  <2>2. Total(intent') = Beside(intent, i) /\ Beside(intent, i) \in Nat
    <3>1. ~Claims(new)
      BY <1>3 DEF Claims
    <3>2. Total(intent') = Beside(intent, i) + (IF Claims(new) THEN new.seats ELSE 0)
      BY <1>2, <1>3, TotalOfWrite
    <3>3. Beside(intent, i) \in Nat
      BY <1>2, BesideType
    <3> QED
      BY <3>1, <3>2, <3>3
  <2>3. Taken' = attendees + n + Beside(intent, i)
    BY <1>2, <2>2, TakenIsTotalNext
  <2>4. /\ n \in Nat /\ intent[i].seats \in Nat /\ Capacity \in Nat /\ n <= intent[i].seats
    BY <1>2, <2>1, CapacityAssumption DEF Rows, Seated
  <2>5. CASE Claims(intent[i])
    <3>1. Taken = attendees + (Beside(intent, i) + intent[i].seats)
      BY <1>2, <2>5, TakenIsTotal, TotalSplit
    <3> QED
      BY <1>2, <2>1, <2>2, <2>3, <2>4, <3>1
  <2>6. CASE RoomForBooking(i)
    <3>1. attendees + Beside(intent, i) + intent[i].seats + intent[i].seats <= Capacity
      BY <2>6, RoomForBookingMeans DEF IInv
    <3> QED
      BY <1>2, <2>2, <2>3, <2>4, <3>1
  <2> QED
    BY <2>1, <2>5, <2>6
<1> QED
  BY <1>2, <1>4, <1>5, <1>6

\* A payment gets its booking: it is the first of its intent that does.
LEMMA PayBooked ==
    ASSUME PayInv, TypeOK, TypeOK', NEW p \in Payments, NEW q \in PaymentRows,
           q # NoPayment, q.final, payment' = [payment EXCEPT ![p] = q],
           payment[p] = NoPayment \/ ~payment[p].final,
           overwritten' = overwritten,
           \A k \in Intents : bookings'[k] >= bookings[k],
           bookings'[q.of] > 0, ~overwritten[q.of] => bookings[q.of] = 0,
           NEW t \in {0, 1}, tickets' = [tickets EXCEPT ![p] = t],
           q.status = "fulfilled" => t = 1
    PROVE  PayInv'
<1>1. /\ payment \in [Payments -> PaymentRows] /\ tickets \in [Payments -> Nat]
      /\ bookings \in [Intents -> Nat] /\ bookings' \in [Intents -> Nat]
  BY DEF TypeOK
<1>2. payment'[p] = q /\ tickets'[p] = t /\ q.of \in Intents
  BY <1>1, PaymentKinds
<1>3. ASSUME NEW r \in Payments, r # p
      PROVE  payment'[r] = payment[r] /\ tickets'[r] = tickets[r]
  BY <1>1, <1>3
<1>4. ASSUME NEW r \in Payments
      PROVE  /\ tickets'[r] <= 1
             /\ tickets'[r] > 0 => payment'[r] # NoPayment /\ payment'[r].final
             /\ payment'[r] # NoPayment /\ payment'[r].final => bookings'[payment'[r].of] > 0
             /\ payment'[r].status = "fulfilled" => payment'[r].final /\ tickets'[r] = 1
  <2>1. CASE r = p
    BY <1>2, <2>1
  <2>2. CASE r # p
    <3>1. payment[r] # NoPayment => payment[r].of \in Intents
      BY <1>1, PaymentKinds
    <3> QED
      BY <1>1, <1>3, <2>2, <3>1 DEF PayInv
  <2> QED
    BY <2>1, <2>2
<1>5. ASSUME NEW r \in Payments, r # p, payment'[r] # NoPayment, payment'[r].final,
             payment'[r].of = q.of, ~overwritten[q.of]
      PROVE  FALSE
  BY <1>2, <1>3, <1>5 DEF PayInv
<1>6. ASSUME NEW r \in Payments, NEW s \in Payments,
             payment'[r] # NoPayment, payment'[r].final,
             payment'[s] # NoPayment, payment'[s].final,
             payment'[r].of = payment'[s].of, ~overwritten'[payment'[r].of]
      PROVE  r = s
  <2>1. CASE r = p \/ s = p
    BY <1>2, <1>5, <1>6, <2>1
  <2>2. CASE r # p /\ s # p
    BY <1>3, <1>6, <2>2 DEF PayInv
  <2> QED
    BY <2>1, <2>2
<1> QED
  BY <1>4, <1>6 DEF PayInv

\* A payment moves on without a booking.
LEMMA PayMoved ==
    ASSUME PayInv, TypeOK, NEW p \in Payments, NEW q \in PaymentRows, q # NoPayment,
           payment' = [payment EXCEPT ![p] = q],
           UNCHANGED <<bookings, overwritten>>,
           IF payment[p] = NoPayment THEN ~q.final
           ELSE q.of = payment[p].of /\ q.final = payment[p].final,
           NEW t \in {0, 1}, tickets' = [tickets EXCEPT ![p] = t], t > 0 => q.final,
           q.status = "fulfilled" => q.final /\ t = 1
    PROVE  PayInv'
<1>1. payment \in [Payments -> PaymentRows] /\ tickets \in [Payments -> Nat]
  BY DEF TypeOK
<1>2. payment'[p] = q /\ tickets'[p] = t
  BY <1>1
<1>3. ASSUME NEW r \in Payments, r # p
      PROVE  payment'[r] = payment[r] /\ tickets'[r] = tickets[r]
  BY <1>1, <1>3
<1>4. ASSUME NEW r \in Payments
      PROVE  /\ tickets'[r] <= 1
             /\ tickets'[r] > 0 => payment'[r] # NoPayment /\ payment'[r].final
             /\ payment'[r] # NoPayment /\ payment'[r].final => bookings[payment'[r].of] > 0
             /\ payment'[r].status = "fulfilled" => payment'[r].final /\ tickets'[r] = 1
  <2>1. CASE r = p
    BY <1>2, <2>1 DEF PayInv
  <2>2. CASE r # p
    BY <1>3, <2>2 DEF PayInv
  <2> QED
    BY <2>1, <2>2
<1>5. ASSUME NEW r \in Payments, payment'[r] # NoPayment, payment'[r].final
      PROVE  payment[r] # NoPayment /\ payment[r].final /\ payment[r].of = payment'[r].of
  BY <1>2, <1>3, <1>5
<1>6. ASSUME NEW r \in Payments, NEW s \in Payments,
             payment'[r] # NoPayment, payment'[r].final,
             payment'[s] # NoPayment, payment'[s].final,
             payment'[r].of = payment'[s].of, ~overwritten[payment'[r].of]
      PROVE  r = s
  BY <1>5, <1>6 DEF PayInv
<1> QED
  BY <1>4, <1>6 DEF PayInv

LEMMA StepPreview ==
    ASSUME IInv, TypeOK', NEW w \in Workers, NEW i \in Intents, Preview(w, i)
    PROVE  IInv'
<1>1. RowInv' /\ JobInv' /\ BookInv' /\ NeverOverbooked'
  BY StepHolds DEF Preview
<1>2. PayInv'
  BY PaysKept DEF Preview, LockForCheckout, IInv, TypeOK
<1> QED
  BY <1>1, <1>2 DEF IInv

LEMMA StepCheckoutStripe ==
    ASSUME IInv, TypeOK', NEW w \in Workers, NEW i \in Intents, NEW p \in Payments,
           CheckoutStripe(w, i, p)
    PROVE  IInv'
<1>1. RowInv' /\ JobInv' /\ BookInv' /\ NeverOverbooked'
  BY StepHolds DEF CheckoutStripe
<1>2. PayInv'
  <2>1. PICK q : q = [status |-> "open", of |-> i, seats |-> job[w].seats, final |-> FALSE]
    OBVIOUS
  <2>2. job[w].seats \in Seated
    BY JobKinds DEF CheckoutStripe, LockForCheckout, IInv, TypeOK
  <2>3. q \in PaymentRows /\ q # NoPayment /\ ~q.final /\ q.status = "open"
    BY <2>1, <2>2 DEF PaymentRows, NoPayment, Seated
  <2>4. payment[p] = NoPayment /\ payment' = [payment EXCEPT ![p] = q]
    BY <2>1 DEF CheckoutStripe, NewPayment, SetPayment
  <2>5. tickets[p] = 0
    BY <2>4 DEF IInv, TypeOK, PayInv
  <2>6. tickets' = [tickets EXCEPT ![p] = 0]
    BY <2>5 DEF CheckoutStripe, IInv, TypeOK
  <2>7. UNCHANGED <<bookings, overwritten>>
    BY DEF CheckoutStripe, LockForCheckout
  <2>8. PICK t : t = 0
    OBVIOUS
  <2>9. tickets' = [tickets EXCEPT ![p] = t] /\ t \in {0, 1} /\ ~(t > 0)
    BY <2>6, <2>8
  <2> QED
    BY <2>3, <2>4, <2>7, <2>9, PayMoved DEF IInv
<1> QED
  BY <1>1, <1>2 DEF IInv

\* A checkout that makes the booking and its payment at once.
LEMMA CheckoutBooks ==
    ASSUME IInv, TypeOK', NEW w \in Workers, NEW i \in Intents, NEW p \in Payments,
           LockForCheckout(w, i), NEW s \in {"offline", "paid"},
           NewPayment(p, i, job[w].seats, s, TRUE),
           MakeBooking(i, Extended(i), job[w].seats),
           NEW t \in {0, 1}, tickets' = [tickets EXCEPT ![p] = t]
    PROVE  IInv'
<1>1. /\ Extended(i) \in Rows /\ Extended(i).status = intent[i].status
      /\ Extended(i).seats = intent[i].seats /\ Extended(i).booked = intent[i].booked
  BY ExtendedRow DEF IInv
<1>2. PICK new : new = [Extended(i) EXCEPT !.booked = TRUE,
                                           !.status = IF @ = "pending" THEN "completed" ELSE @]
  OBVIOUS
<1>3. /\ new \in Rows /\ new.status # "absent" /\ new.seats = intent[i].seats
      /\ intent' = [intent EXCEPT ![i] = new]
  BY <1>1, <1>2 DEF MakeBooking, SetIntent, LockForCheckout, Pending, Rows
<1>4. /\ RowInv' /\ JobInv' /\ UNCHANGED <<raced, overwritten>>
      /\ Pending(i) /\ RoomForBooking(i) /\ job[w].seats \in Seated
  BY <1>3, CheckoutKeeps
<1>5. ~overwritten[i] => ~intent[i].booked
  BY <1>4 DEF IInv, BookInv, TypeOK, Rows
<1>6. /\ BookInv' /\ NeverOverbooked'
      /\ ~overwritten[i] => bookings[i] = 0
      /\ \A k \in Intents : bookings'[k] >= bookings[k]
      /\ bookings'[i] > 0
  BY <1>1, <1>4, <1>5, BookingKeeps
<1>7. PayInv'
  <2>1. PICK q : q = [status |-> s, of |-> i, seats |-> job[w].seats, final |-> TRUE]
    OBVIOUS
  <2>2. q \in PaymentRows /\ q # NoPayment /\ q.final /\ q.status # "fulfilled" /\ q.of = i
    BY <1>4, <2>1 DEF PaymentRows, NoPayment, Seated
  <2>3. payment[p] = NoPayment /\ payment' = [payment EXCEPT ![p] = q]
    BY <2>1 DEF NewPayment, SetPayment
  <2> QED
    BY <1>4, <1>6, <2>2, <2>3, PayBooked DEF IInv
<1> QED
  BY <1>4, <1>6, <1>7 DEF IInv

\* Tickets are made once for a payment.
LEMMA TicketsMade ==
    ASSUME IInv, NEW p \in Payments, MakeTickets(p)
    PROVE  tickets' = [tickets EXCEPT ![p] = 1]
<1>1. tickets[p] \in Nat /\ tickets[p] <= 1
  BY DEF IInv, TypeOK, PayInv
<1>2. (IF tickets[p] = 0 THEN 1 ELSE tickets[p]) = 1
  BY <1>1
<1> QED
  BY <1>2 DEF MakeTickets

LEMMA StepCheckout ==
    ASSUME IInv, TypeOK', NEW w \in Workers, NEW i \in Intents, NEW p \in Payments,
           CheckoutStep(w, i, p)
    PROVE  IInv'
<1>1. CASE CheckoutStripe(w, i, p)
  BY <1>1, StepCheckoutStripe
<1>2. CASE CheckoutTransfer(w, i, p)
  <2>1. payment[p] = NoPayment
    BY <1>2 DEF CheckoutTransfer, NewPayment
  <2>2. tickets[p] = 0
    BY <2>1 DEF IInv, TypeOK, PayInv
  <2>3. tickets' = [tickets EXCEPT ![p] = 0]
    BY <1>2, <2>2 DEF CheckoutTransfer, IInv, TypeOK
  <2> QED
    BY <1>2, <2>3, CheckoutBooks DEF CheckoutTransfer
<1>3. CASE CheckoutPaid(w, i, p)
  BY <1>3, TicketsMade, CheckoutBooks DEF CheckoutPaid
<1> QED
  BY <1>1, <1>2, <1>3 DEF CheckoutStep

\* A payment changes its status; its booking and its intent stay as they are.
LEMMA StepPaymentMoves ==
    ASSUME IInv, TypeOK', NEW p \in Payments, payment[p] # NoPayment,
           NEW s \in {"paid", "void", "review", "fulfilled"},
           SetPayment(p, [payment[p] EXCEPT !.status = s]),
           UNCHANGED <<intent, attendees, requestVars, bookings, raced, overwritten, unreserved>>,
           IF s = "fulfilled" THEN payment[p].final /\ MakeTickets(p) ELSE tickets' = tickets
    PROVE  IInv'
<1>1. PICK q : q = [payment[p] EXCEPT !.status = s]
  OBVIOUS
<1>2. payment[p] \in PaymentRows
  BY DEF IInv, TypeOK
<1>3. /\ q \in PaymentRows /\ q # NoPayment /\ q.of = payment[p].of /\ q.status = s
      /\ q.final = payment[p].final /\ payment' = [payment EXCEPT ![p] = q]
  BY <1>1, <1>2 DEF PaymentRows, NoPayment, SetPayment
<1>4. PayInv'
  <2>1. CASE s = "fulfilled"
    BY <1>3, <2>1, TicketsMade, PayMoved DEF IInv
  <2>2. CASE s # "fulfilled"
    <3>1. PICK t : t = tickets[p]
      OBVIOUS
    <3>2. tickets' = [tickets EXCEPT ![p] = t] /\ t \in {0, 1} /\ (t > 0 => q.final)
      BY <1>3, <2>2, <3>1 DEF IInv, TypeOK, PayInv
    <3> QED
      BY <1>3, <2>2, <3>2, PayMoved DEF IInv
  <2> QED
    BY <2>1, <2>2
<1>5. RowInv'
  BY DEF IInv, RowInv
<1>6. JobInv'
  BY DEF IInv, JobInv, CreateInv, UpdateInv, requestVars
<1>7. BookInv'
  BY DEF IInv, BookInv, Pending
<1>8. NeverOverbooked'
  BY SeatsKept DEF IInv
<1> QED
  BY <1>4, <1>5, <1>6, <1>7, <1>8 DEF IInv

LEMMA StepFulfilDeferred ==
    ASSUME IInv, TypeOK', NEW p \in Payments, FulfilDeferred(p)
    PROVE  IInv'
<1>1. PICK i : i = payment[p].of
  OBVIOUS
<1>2. /\ payment[p] # NoPayment /\ payment[p].status = "paid" /\ ~payment[p].final
      /\ Exists(i) /\ ~intent[i].booked /\ MakeBooking(i, intent[i], payment[p].seats)
      /\ SetPayment(p, [payment[p] EXCEPT !.status = "fulfilled", !.final = TRUE])
      /\ MakeTickets(p) /\ UNCHANGED <<job, requests, raced, overwritten>>
  BY <1>1 DEF FulfilDeferred, NoPayment, requestVars
<1>3. i \in Intents /\ payment[p].seats \in Seated /\ intent[i] \in Rows
  BY <1>1, <1>2, PaymentKinds DEF IInv, TypeOK
<1>4. PICK new : new = [intent[i] EXCEPT !.booked = TRUE,
                                         !.status = IF @ = "pending" THEN "completed" ELSE @]
  OBVIOUS
<1>5. /\ new.status # "absent" /\ new.seats = intent[i].seats
      /\ intent' = [intent EXCEPT ![i] = new]
  BY <1>2, <1>3, <1>4 DEF MakeBooking, SetIntent, Exists, Rows
<1>6. \A k \in Intents : SameSeats(intent[k], intent'[k])
  BY <1>2, <1>3, <1>5 DEF SameSeats, Exists, IInv, TypeOK
<1>7. RowInv'
  BY <1>6, RowsKept DEF IInv
<1>8. JobInv'
  BY <1>2, <1>6, JobsKept
<1>9. /\ BookInv' /\ NeverOverbooked'
      /\ ~overwritten[i] => bookings[i] = 0
      /\ \A k \in Intents : bookings'[k] >= bookings[k]
      /\ bookings'[i] > 0
  BY <1>2, <1>3, BookingKeeps
<1>10. PayInv'
  <2>1. PICK q : q = [payment[p] EXCEPT !.status = "fulfilled", !.final = TRUE]
    OBVIOUS
  <2>2. q \in PaymentRows /\ q # NoPayment /\ q.final /\ q.of = i
    BY <1>1, <1>2, <2>1 DEF PaymentRows, NoPayment, IInv, TypeOK
  <2>3. payment' = [payment EXCEPT ![p] = q]
    BY <1>2, <2>1 DEF SetPayment
  <2> QED
    BY <1>2, <1>9, <2>2, <2>3, TicketsMade, PayBooked DEF IInv
<1> QED
  BY <1>7, <1>8, <1>9, <1>10 DEF IInv

LEMMA StepPayment ==
    ASSUME IInv, TypeOK', NEW p \in Payments, PaymentStep(p)
    PROVE  IInv'
<1>0. payment[p] # NoPayment
  BY DEF PaymentStep, Confirm, Abandon, FulfilFinal, FulfilDeferred, FulfilFails, ClearReview,
         NoPayment
<1>1. CASE Confirm(p) \/ Abandon(p) \/ FulfilFails(p) \/ ClearReview(p)
  <2>1. PICK s \in {"paid", "void", "review"} :
           SetPayment(p, [payment[p] EXCEPT !.status = s])
    BY <1>1 DEF Confirm, Abandon, FulfilFails, ClearReview
  <2>2. UNCHANGED <<intent, attendees, requestVars, history>>
    BY <1>1 DEF Confirm, Abandon, FulfilFails, ClearReview
  <2> QED
    BY <1>0, <2>1, <2>2, StepPaymentMoves DEF history
<1>2. CASE FulfilFinal(p)
  BY <1>0, <1>2, StepPaymentMoves DEF FulfilFinal
<1>3. CASE FulfilDeferred(p)
  BY <1>3, StepFulfilDeferred
<1> QED
  BY <1>1, <1>2, <1>3 DEF PaymentStep

\* A set without two elements.
LEMMA AtMostOne ==
    ASSUME NEW S, \A x, y \in S : x = y
    PROVE  Cardinality(S) <= 1
<1>1. CASE S = {}
  BY <1>1, FS_EmptySet
<1>2. CASE S # {}
  <2>1. PICK x : S = {x}
    BY <1>2
  <2> QED
    BY <2>1, FS_Singleton
<1> QED
  BY <1>1, <1>2

-----------------------------------------------------------------------------
(* The theorems.                                                            *)

LEMMA InitInv == ASSUME Init PROVE IInv
<1>1. TypeOK
  <2>1. intent \in [Intents -> Rows]
    BY CapacityAssumption DEF Init, Rows, Absent
  <2>2. payment \in [Payments -> PaymentRows] /\ job \in [Workers -> Jobs]
    BY DEF Init, PaymentRows, Jobs
  <2>3. attendees \in Nat /\ requests \in 0..MaxRequests
    BY CapacityAssumption DEF Init
  <2>4. bookings \in [Intents -> Nat] /\ tickets \in [Payments -> Nat]
    BY DEF Init
  <2>5. overwritten \in [Intents -> BOOLEAN] /\ raced \in BOOLEAN /\ unreserved \in BOOLEAN
    BY DEF Init
  <2> QED
    BY <2>1, <2>2, <2>3, <2>4, <2>5 DEF TypeOK
<1>2. RowInv /\ JobInv /\ BookInv /\ PayInv
  BY DEF Init, RowInv, JobInv, BookInv, PayInv, Pending, Absent, Idle, NoPayment
<1>3. Held(intent) = {}
  BY DEF Init, Held, Claims, Absent
<1>4. NeverOverbooked
  BY <1>3, TakenIsTotal, SumEmpty, CapacityAssumption DEF NeverOverbooked, Total, Init
<1> QED
  BY <1>1, <1>2, <1>4 DEF IInv

LEMMA StepInv == ASSUME IInv, [Next]_vars PROVE IInv'
<1>0. TypeOK'
  BY StepTypes DEF IInv
<1>1. CASE UNCHANGED vars
  BY <1>0, <1>1, StepLooks DEF vars, history
<1>2. ASSUME NEW w \in Workers, NEW i \in Intents, ReadStep(w, i) PROVE IInv'
  <2>1. CASE ReadForCreate(w, i)
    BY <1>0, <2>1, StepReadForCreate
  <2>2. CASE ReadForUpdate(w, i)
    BY <1>0, <2>2, StepReadForUpdate
  <2>3. CASE ReadForCancel(w, i)
    BY <1>0, <2>3, StepReads DEF ReadForCancel
  <2>4. CASE ReadForDelete(w, i)
    BY <1>0, <2>4, StepReads DEF ReadForDelete
  <2>5. CASE ReadForBooking(w, i)
    BY <1>0, <2>5, StepReads DEF ReadForBooking
  <2>6. CASE ReadForRetire(w, i)
    BY <1>0, <2>6, StepReads DEF ReadForRetire
  <2>7. CASE ReadForCheckout(w, i)
    BY <1>0, <2>7, StepReads DEF ReadForCheckout
  <2>8. CASE ReadForPreview(w, i)
    BY <1>0, <2>8, StepReads DEF ReadForPreview
  <2> QED
    BY <1>2, <2>1, <2>2, <2>3, <2>4, <2>5, <2>6, <2>7, <2>8 DEF ReadStep
<1>3. ASSUME NEW w \in Workers, NEW i \in Intents, WriteStep(w, i) PROVE IInv'
  BY <1>0, <1>3, StepInsert, StepSaveUpdate, StepWriteStatus, StepPreview DEF WriteStep
<1>4. ASSUME NEW w \in Workers, NEW i \in Intents, NEW p \in Payments, CheckoutStep(w, i, p)
      PROVE  IInv'
  BY <1>0, <1>4, StepCheckout
<1>5. ASSUME NEW w \in Workers, ReadForExpire(w) PROVE IInv'
  <2>1. PICK S : Read(w, [op |-> "expire", rows |-> S])
    BY <1>5 DEF ReadForExpire
  <2> QED
    BY <1>0, <2>1, StepReads
<1>6. ASSUME NEW w \in Workers, ExpireRows(w) PROVE IInv'
  BY <1>0, <1>6, StepExpireRows
<1>7. ASSUME NEW w \in Workers, Abort(w) PROVE IInv'
  <2>1. UNCHANGED <<intent, payment, attendees, history>>
    BY <1>7 DEF Abort
  <2>2. \A v \in Workers : job'[v] = job[v] \/ job'[v].op \notin {"create", "update"}
    BY <1>7 DEF Abort, SetJob, Idle, IInv, TypeOK
  <2> QED
    BY <1>0, <2>1, <2>2, StepLooks
<1>8. ASSUME NEW p \in Payments, PaymentStep(p) PROVE IInv'
  BY <1>0, <1>8, StepPayment
<1>9. ASSUME NEW i \in Intents, Lapse(i) PROVE IInv'
  BY <1>0, <1>9, StepLapse
<1> QED
  BY <1>1, <1>2, <1>3, <1>4, <1>5, <1>6, <1>7, <1>8, <1>9 DEF Next

\* The invariant holds in every reachable state.
THEOREM Invariance == Spec => []IInv
<1>1. Init => IInv
  BY InitInv
<1>2. IInv /\ [Next]_vars => IInv'
  BY StepInv
<1> QED
  BY <1>1, <1>2, PTL DEF Spec

\* Every variable keeps its shape.
THEOREM TypesHold == Spec => []TypeOK
<1>1. IInv => TypeOK
  BY DEF IInv
<1> QED
  BY <1>1, Invariance, PTL

\* As long as no count was outdated when its seats were written, no stale row
\* was saved and no booking was made of seats that had been given up, attendees
\* and reserved seats never exceed effective_maximum_attendance.
THEOREM NeverOverbookedHolds == Spec => []NeverOverbooked
<1>1. IInv => NeverOverbooked
  BY DEF IInv
<1> QED
  BY <1>1, Invariance, PTL

\* However many payments an intent has, its checkouts and their fulfilment make
\* one booking, unless a stale row was saved over it.
THEOREM OneBookingHolds == Spec => []OneBooking
<1>1. IInv => OneBooking
  BY DEF IInv, BookInv, OneBooking
<1> QED
  BY <1>1, Invariance, PTL

\* Tickets are made once for a payment, and for one payment of an intent.
THEOREM TicketedOnceHolds == Spec => []TicketedOnce
<1>1. ASSUME IInv PROVE TicketedOnce
  <2>1. \A p \in Payments : tickets[p] <= 1
    BY <1>1 DEF IInv, PayInv
  <2>2. ASSUME NEW i \in Intents, ~overwritten[i] PROVE Cardinality(Ticketed(i)) <= 1
    <3>1. ASSUME NEW p \in Ticketed(i), NEW q \in Ticketed(i) PROVE p = q
      <4>1. /\ p \in Payments /\ payment[p] # NoPayment /\ payment[p].of = i /\ tickets[p] > 0
            /\ q \in Payments /\ payment[q] # NoPayment /\ payment[q].of = i /\ tickets[q] > 0
        BY DEF Ticketed
      <4>2. payment[p].final /\ payment[q].final
        BY <1>1, <4>1 DEF IInv, PayInv
      <4> QED
        BY <1>1, <2>2, <4>1, <4>2 DEF IInv, PayInv
    <3> QED
      BY <3>1, AtMostOne
  <2> QED
    BY <2>1, <2>2 DEF TicketedOnce
<1> QED
  BY <1>1, Invariance, PTL

\* A payment that counts as fulfilled has its booking and its tickets.
THEOREM FulfilledHasTicketsHolds == Spec => []FulfilledHasTickets
<1>1. ASSUME IInv PROVE FulfilledHasTickets
  <2>1. \A p \in Payments : payment[p].status = "fulfilled" => payment[p] # NoPayment
    BY DEF NoPayment
  <2> QED
    BY <1>1, <2>1 DEF IInv, PayInv, FulfilledHasTickets
<1> QED
  BY <1>1, Invariance, PTL

-----------------------------------------------------------------------------
(* The refinement of BookingContract.                                       *)

\* What the contract sees.
Made    == [i \in Intents |-> Makers(i)]
Served  == {p \in Payments : payment[p].status = "fulfilled"}
Excused == {i \in Intents : overwritten[i]}

\* A payment makes its booking.
LEMMA MadeBy ==
    ASSUME TypeOK, NEW p \in Payments, NEW q \in PaymentRows, q # NoPayment, q.final,
           payment' = [payment EXCEPT ![p] = q],
           payment[p] = NoPayment \/ ~payment[p].final
    PROVE  /\ Made' = [Made EXCEPT ![q.of] = @ \cup {p}]
           /\ \A k \in Intents : p \notin Made[k]
<1>1. payment \in [Payments -> PaymentRows] /\ q.of \in Intents
  BY PaymentKinds DEF TypeOK
<1>2. ASSUME NEW k \in Intents
      PROVE  Makers(k)' = IF k = q.of THEN Makers(k) \cup {p} ELSE Makers(k)
  BY <1>1 DEF Makers
<1>3. \A k \in Intents : p \notin Made[k]
  BY DEF Made, Makers
<1> QED
  BY <1>1, <1>2, <1>3 DEF Made

\* A payment is made, or moves on, without a booking.
LEMMA MadeKept ==
    ASSUME TypeOK, NEW p \in Payments, NEW q \in PaymentRows, q # NoPayment,
           payment' = [payment EXCEPT ![p] = q],
           IF payment[p] = NoPayment THEN ~q.final
           ELSE q.of = payment[p].of /\ q.final = payment[p].final
    PROVE  Made' = Made
<1>1. payment \in [Payments -> PaymentRows]
  BY DEF TypeOK
<1>2. \A k \in Intents : Makers(k)' = Makers(k)
  BY <1>1 DEF Makers
<1> QED
  BY <1>2 DEF Made

LEMMA ServedAfter ==
    ASSUME TypeOK, NEW p \in Payments, NEW q \in PaymentRows,
           payment' = [payment EXCEPT ![p] = q], payment[p].status # "fulfilled"
    PROVE  /\ p \notin Served
           /\ Served' = IF q.status = "fulfilled" THEN Served \cup {p} ELSE Served
BY DEF TypeOK, Served

\* No booking without the row remembering it, unless it is excused.
LEMMA MadeMeansBooked ==
    ASSUME IInv, NEW i \in Intents, Made[i] # {}, i \notin Excused
    PROVE  intent[i].booked /\ ~Pending(i)
<1>1. PICK p \in Payments : payment[p] # NoPayment /\ payment[p].of = i /\ payment[p].final
  BY DEF Made, Makers
<1>2. bookings[i] > 0 /\ ~overwritten[i]
  BY <1>1 DEF IInv, PayInv, Excused
<1> QED
  BY <1>2 DEF IInv, BookInv

\* Most steps show nothing.
LEMMA ViewKept ==
    ASSUME UNCHANGED <<payment, bookings, tickets, overwritten>>
    PROVE  UNCHANGED Contract!contractVars
BY DEF Contract!contractVars, Makers

\* A step of a payment that books nothing and serves nobody.
LEMMA ViewOfMove ==
    ASSUME TypeOK, NEW p \in Payments, NEW q \in PaymentRows, q # NoPayment,
           payment' = [payment EXCEPT ![p] = q],
           IF payment[p] = NoPayment THEN ~q.final
           ELSE q.of = payment[p].of /\ q.final = payment[p].final,
           payment[p].status # "fulfilled", q.status # "fulfilled",
           UNCHANGED <<bookings, tickets, overwritten>>
    PROVE  UNCHANGED Contract!contractVars
<1>1. Made' = Made /\ Served' = Served
  BY MadeKept, ServedAfter
<1> QED
  BY <1>1 DEF Contract!contractVars, Made, Served

\* A step that makes the booking of an intent, with the contract's word for it.
LEMMA ViewOfBooking ==
    ASSUME IInv, NEW p \in Payments, NEW q \in PaymentRows, q # NoPayment, q.final,
           payment' = [payment EXCEPT ![p] = q],
           payment[p] = NoPayment \/ ~payment[p].final,
           ~overwritten[q.of] => Pending(q.of) \/ ~intent[q.of].booked,
           bookings' = [bookings EXCEPT ![q.of] = @ + 1], UNCHANGED overwritten
    PROVE  Contract!Makes(q.of, p) /\ Excused' = Excused /\ q.of \in Intents
<1>1. q.of \in Intents
  BY PaymentKinds
<1>2. Made[q.of] = {} \/ q.of \in Excused
  BY <1>1, MadeMeansBooked DEF Excused
<1>3. Made' = [Made EXCEPT ![q.of] = @ \cup {p}] /\ \A k \in Intents : p \notin Made[k]
  BY MadeBy DEF IInv
<1>4. Contract!Makes(q.of, p)
  BY <1>2, <1>3 DEF Contract!Makes, Made, Excused
<1> QED
  BY <1>1, <1>4 DEF Excused

\* The checkouts.
LEMMA CheckoutView ==
    ASSUME IInv, NEW w \in Workers, NEW i \in Intents, NEW p \in Payments,
           CheckoutStep(w, i, p)
    PROVE  Contract!ContractNext \/ UNCHANGED Contract!contractVars
<1>1. payment[p] = NoPayment /\ payment[p].status = "none" /\ job[w].seats \in Seated
  BY JobKinds DEF CheckoutStep, CheckoutStripe, CheckoutTransfer, CheckoutPaid, LockForCheckout,
                  NewPayment, NoPayment, IInv, TypeOK
<1>2. Pending(i) /\ overwritten' = overwritten
  BY DEF CheckoutStep, CheckoutStripe, CheckoutTransfer, CheckoutPaid, LockForCheckout
<1>3. tickets \in [Payments -> Nat] /\ tickets[p] = 0
  BY <1>1 DEF IInv, TypeOK, PayInv
<1>4. CASE CheckoutStripe(w, i, p)
  <2>1. PICK q : q = [status |-> "open", of |-> i, seats |-> job[w].seats, final |-> FALSE]
    OBVIOUS
  <2>2. q \in PaymentRows /\ q # NoPayment /\ ~q.final /\ q.status # "fulfilled"
    BY <1>1, <2>1 DEF PaymentRows, NoPayment, Seated
  <2>3. payment' = [payment EXCEPT ![p] = q] /\ UNCHANGED <<bookings, tickets>>
    BY <1>4, <2>1 DEF CheckoutStripe, NewPayment, SetPayment
  <2> QED
    BY <1>1, <1>2, <2>2, <2>3, ViewOfMove DEF IInv
<1>5. ASSUME NEW s \in {"offline", "paid"}, NewPayment(p, i, job[w].seats, s, TRUE),
             MakeBooking(i, Extended(i), job[w].seats)
      PROVE  Contract!Makes(i, p) /\ Served' = Served /\ Excused' = Excused
  <2>1. PICK q : q = [status |-> s, of |-> i, seats |-> job[w].seats, final |-> TRUE]
    OBVIOUS
  <2>2. q \in PaymentRows /\ q # NoPayment /\ q.final /\ q.status # "fulfilled" /\ q.of = i
    BY <1>1, <1>5, <2>1 DEF PaymentRows, NoPayment, Seated
  <2>3. payment' = [payment EXCEPT ![p] = q]
    BY <1>5, <2>1 DEF NewPayment, SetPayment
  <2>4. bookings' = [bookings EXCEPT ![i] = @ + 1]
    BY <1>5 DEF MakeBooking
  <2>5. Contract!Makes(i, p) /\ Excused' = Excused
    BY <1>1, <1>2, <2>2, <2>3, <2>4, ViewOfBooking
  <2>6. Served' = Served
    BY <1>1, <2>2, <2>3, ServedAfter DEF IInv
  <2> QED
    BY <2>5, <2>6
<1>6. CASE CheckoutTransfer(w, i, p)
  <2>1. Contract!Makes(i, p) /\ Served' = Served /\ Excused' = Excused /\ tickets' = tickets
    BY <1>5, <1>6 DEF CheckoutTransfer
  <2>2. Contract!Book(i, p)
    BY <2>1 DEF Contract!Book, Served, Excused
  <2> QED
    BY <2>2 DEF Contract!ContractNext
<1>7. CASE CheckoutPaid(w, i, p)
  <2>1. Contract!Makes(i, p) /\ Served' = Served /\ Excused' = Excused
    BY <1>5, <1>7 DEF CheckoutPaid
  <2>2. Contract!IsGivenTickets(p)
    BY <1>3, <1>7, TicketsMade DEF CheckoutPaid, Contract!IsGivenTickets
  <2>3. Contract!BookWithTickets(i, p)
    BY <2>1, <2>2 DEF Contract!BookWithTickets, Served, Excused
  <2> QED
    BY <2>3 DEF Contract!ContractNext
<1> QED
  BY <1>4, <1>6, <1>7 DEF CheckoutStep

\* Payments: most of their steps show nothing, a fulfilment serves.
LEMMA PaymentView ==
    ASSUME IInv, NEW p \in Payments, PaymentStep(p)
    PROVE  Contract!ContractNext \/ UNCHANGED Contract!contractVars
<1>1. /\ payment \in [Payments -> PaymentRows] /\ payment[p] # NoPayment
      /\ payment[p].status # "fulfilled" /\ UNCHANGED overwritten
  BY DEF PaymentStep, Confirm, Abandon, FulfilFinal, FulfilDeferred, FulfilFails, ClearReview,
         NoPayment, history, IInv, TypeOK
<1>2. Excused' = Excused
  BY <1>1 DEF Excused
<1>3. CASE Confirm(p) \/ Abandon(p) \/ FulfilFails(p) \/ ClearReview(p)
  <2>1. PICK s \in {"paid", "void", "review"} :
           payment' = [payment EXCEPT ![p] = [payment[p] EXCEPT !.status = s]]
    BY <1>3 DEF Confirm, Abandon, FulfilFails, ClearReview, SetPayment
  <2>2. PICK q : q = [payment[p] EXCEPT !.status = s]
    OBVIOUS
  <2>3. /\ q \in PaymentRows /\ q # NoPayment /\ q.of = payment[p].of
        /\ q.final = payment[p].final /\ q.status # "fulfilled"
    BY <1>1, <2>2 DEF PaymentRows, NoPayment
  <2>4. UNCHANGED <<bookings, tickets>>
    BY <1>3 DEF Confirm, Abandon, FulfilFails, ClearReview, history
  <2> QED
    BY <1>1, <2>1, <2>2, <2>3, <2>4, ViewOfMove DEF IInv
<1>4. CASE FulfilFinal(p)
  <2>1. PICK q : q = [payment[p] EXCEPT !.status = "fulfilled"]
    OBVIOUS
  <2>2. /\ q \in PaymentRows /\ q # NoPayment /\ q.of = payment[p].of /\ q.of \in Intents
        /\ q.final = payment[p].final /\ q.status = "fulfilled"
        /\ payment' = [payment EXCEPT ![p] = q]
    BY <1>1, <1>4, <2>1 DEF FulfilFinal, SetPayment, PaymentRows, NoPayment
  <2>3. Made' = Made /\ Contract!CountsAsServed(p)
    BY <1>1, <2>2, MadeKept, ServedAfter DEF IInv, Contract!CountsAsServed, Served
  <2>4. p \in Made[q.of]
    BY <1>1, <1>4, <2>2 DEF FulfilFinal, Made, Makers
  <2>5. Contract!IsGivenTickets(p) \/ (tickets[p] = 1 /\ UNCHANGED tickets)
    <3>1. tickets \in [Payments -> Nat] /\ tickets[p] \in Nat /\ tickets[p] <= 1
      BY DEF IInv, TypeOK, PayInv
    <3>2. tickets' = [tickets EXCEPT ![p] = 1]
      BY <1>4, TicketsMade DEF FulfilFinal
    <3> QED
      BY <3>1, <3>2 DEF Contract!IsGivenTickets
  <2>6. UNCHANGED bookings
    BY <1>4 DEF FulfilFinal
  <2>7. Contract!Serve(q.of, p)
    BY <1>2, <2>3, <2>4, <2>5, <2>6 DEF Contract!Serve, Made, Excused
  <2> QED
    BY <2>2, <2>7 DEF Contract!ContractNext
<1>5. CASE FulfilDeferred(p)
  <2>1. PICK q : q = [payment[p] EXCEPT !.status = "fulfilled", !.final = TRUE]
    OBVIOUS
  <2>2. /\ q \in PaymentRows /\ q # NoPayment /\ q.of = payment[p].of /\ q.of \in Intents
        /\ q.final /\ q.status = "fulfilled" /\ payment' = [payment EXCEPT ![p] = q]
    BY <1>1, <1>5, <2>1 DEF FulfilDeferred, SetPayment, PaymentRows, NoPayment
  <2>3. /\ ~payment[p].final /\ ~intent[q.of].booked
        /\ bookings' = [bookings EXCEPT ![q.of] = @ + 1]
    BY <1>5, <2>2 DEF FulfilDeferred, MakeBooking
  <2>4. Contract!Makes(q.of, p)
    BY <1>1, <2>2, <2>3, ViewOfBooking
  <2>5. Contract!IsGivenTickets(p)
    <3>1. tickets \in [Payments -> Nat] /\ tickets[p] = 0
      BY <1>1, <2>3 DEF IInv, TypeOK, PayInv
    <3> QED
      BY <1>5, <3>1, TicketsMade DEF FulfilDeferred, Contract!IsGivenTickets
  <2>6. Contract!CountsAsServed(p)
    BY <1>1, <2>2, ServedAfter DEF IInv, Contract!CountsAsServed, Served
  <2>7. Contract!BookAndServe(q.of, p)
    BY <1>2, <2>4, <2>5, <2>6 DEF Contract!BookAndServe, Excused
  <2> QED
    BY <2>2, <2>7 DEF Contract!ContractNext
<1> QED
  BY <1>3, <1>4, <1>5 DEF PaymentStep

\* A stale save excuses its intent, if anything changed since it was read.
LEMMA SaveView ==
    ASSUME IInv, NEW w \in Workers, NEW i \in Intents, SaveUpdate(w, i)
    PROVE  Contract!ContractNext \/ UNCHANGED Contract!contractVars
<1>1. /\ UNCHANGED <<payment, bookings, tickets>> /\ overwritten \in [Intents -> BOOLEAN]
      /\ overwritten' = [overwritten EXCEPT ![i] = @ \/ intent[i] # job[w].snap]
  BY DEF SaveUpdate, Answer, IInv, TypeOK
<1>2. CASE intent[i] = job[w].snap
  BY <1>1, <1>2, ViewKept
<1>3. CASE intent[i] # job[w].snap
  <2>1. Made' = Made /\ Served' = Served
    BY <1>1 DEF Made, Makers, Served
  <2>2. Excused' = Excused \cup {i}
    BY <1>1, <1>3 DEF Excused
  <2>3. Contract!Excuse(i)
    BY <1>1, <2>1, <2>2 DEF Contract!Excuse, Made, Served, Excused
  <2> QED
    BY <2>3 DEF Contract!ContractNext
<1> QED
  BY <1>2, <1>3

\* Every step shows as a step of the contract, or as nothing.
LEMMA ContractStep ==
    ASSUME IInv, [Next]_vars
    PROVE  Contract!ContractNext \/ UNCHANGED Contract!contractVars
<1>1. CASE UNCHANGED vars
  BY <1>1, ViewKept DEF vars
<1>2. ASSUME NEW w \in Workers, NEW i \in Intents, ReadStep(w, i)
      PROVE  UNCHANGED Contract!contractVars
  BY <1>2, ViewKept DEF ReadStep, ReadForCreate, ReadForUpdate, ReadForCancel, ReadForDelete,
                        ReadForBooking, ReadForRetire, ReadForCheckout, ReadForPreview, Read,
                        history
<1>3. ASSUME NEW w \in Workers, NEW i \in Intents, WriteStep(w, i)
      PROVE  Contract!ContractNext \/ UNCHANGED Contract!contractVars
  <2>1. CASE Insert(w, i) \/ WriteStatus(w, i) \/ Preview(w, i)
    BY <2>1, ViewKept DEF Insert, WriteStatus, Preview, Answer, LockForCheckout
  <2>2. CASE SaveUpdate(w, i)
    BY <2>2, SaveView
  <2> QED
    BY <1>3, <2>1, <2>2 DEF WriteStep
<1>4. ASSUME NEW w \in Workers, NEW i \in Intents, NEW p \in Payments, CheckoutStep(w, i, p)
      PROVE  Contract!ContractNext \/ UNCHANGED Contract!contractVars
  BY <1>4, CheckoutView
<1>5. ASSUME NEW w \in Workers, ReadForExpire(w) \/ ExpireRows(w) \/ Abort(w)
      PROVE  UNCHANGED Contract!contractVars
  BY <1>5, ViewKept DEF ReadForExpire, ExpireRows, Abort, Read, Answer, history
<1>6. ASSUME NEW p \in Payments, PaymentStep(p)
      PROVE  Contract!ContractNext \/ UNCHANGED Contract!contractVars
  BY <1>6, PaymentView
<1>7. ASSUME NEW i \in Intents, Lapse(i) PROVE UNCHANGED Contract!contractVars
  BY <1>7, ViewKept DEF Lapse, history
<1> QED
  BY <1>1, <1>2, <1>3, <1>4, <1>5, <1>6, <1>7 DEF Next

\* BookingIntents, its races, lapsed reservations and retried fulfilments
\* included, does what BookingContract promises.
THEOREM Refinement == Spec => KeepsContract
<1>1. Init => Contract!ContractInit
  BY DEF Init, Contract!ContractInit, Makers, NoPayment
<1>2. IInv /\ [Next]_vars => [Contract!ContractNext]_(Contract!contractVars)
  BY ContractStep
<1> QED
  BY <1>1, <1>2, Invariance, PTL DEF Spec, KeepsContract, Contract!ContractSpec

\* The contract keeps its own invariant.
LEMMA ContractInvInit == ASSUME Contract!ContractInit PROVE Contract!ContractInv
BY DEF Contract!ContractInit, Contract!ContractInv, Contract!ContractTypeOK, Contract!MadeOnce,
       Contract!TicketsFollow, Contract!ServedHasBoth

\* A booking is made, with or without tickets, served or not.
LEMMA ContractInvMakes ==
    ASSUME Contract!ContractInv, NEW i \in Intents, NEW p \in Payments, Contract!Makes(i, p),
           Contract!IsGivenTickets(p) \/ UNCHANGED tickets,
           UNCHANGED Served \/ (Served' = Served \cup {p} /\ Contract!IsGivenTickets(p)),
           UNCHANGED Excused
    PROVE  Contract!ContractInv'
<1> USE DEF Contract!ContractInv, Contract!ContractTypeOK
<1>1. /\ Made \in [Intents -> SUBSET Payments] /\ bookings \in [Intents -> Nat]
      /\ tickets \in [Payments -> Nat] /\ Served \subseteq Payments /\ Excused \subseteq Intents
      /\ Made' = [Made EXCEPT ![i] = @ \cup {p}] /\ bookings' = [bookings EXCEPT ![i] = @ + 1]
      /\ Made[i] = {} \/ i \in Excused
  BY DEF Made, Served, Excused, Contract!Makes
<1>2. tickets' \in [Payments -> Nat] /\ (\A r \in Payments : r # p => tickets'[r] = tickets[r])
  BY <1>1 DEF Contract!IsGivenTickets
<1>3. tickets'[p] = 1 \/ tickets' = tickets
  BY <1>1 DEF Contract!IsGivenTickets
<1>4. Contract!ContractTypeOK'
  <2>1. /\ Made' \in [Intents -> SUBSET Payments] /\ bookings' \in [Intents -> Nat]
        /\ Served' \subseteq Payments /\ Excused' \subseteq Intents
    BY <1>1
  <2> QED
    BY <1>2, <2>1 DEF Made, Served, Excused
<1>5. Contract!MadeOnce'
  <2> SUFFICES ASSUME NEW k \in Intents \ Excused
               PROVE  bookings'[k] <= 1 /\ \A r, s \in Made'[k] : r = s
    BY DEF Contract!MadeOnce, Made, Excused
  <2>1. /\ bookings[k] \in Nat /\ bookings[k] <= 1 /\ \A r, s \in Made[k] : r = s
        /\ Made[k] = {} => bookings[k] = 0
    BY <1>1 DEF Contract!MadeOnce, Made, Excused
  <2>2. CASE k = i
    BY <1>1, <2>1, <2>2
  <2>3. CASE k # i
    BY <1>1, <2>1, <2>3
  <2> QED
    BY <2>2, <2>3
<1>6. p \in Made'[i] /\ \A k \in Intents : Made[k] \subseteq Made'[k]
  BY <1>1
<1>7. Contract!TicketsFollow'
  <2> SUFFICES ASSUME NEW r \in Payments
               PROVE  /\ tickets'[r] <= 1
                      /\ tickets'[r] > 0 => \E k \in Intents : r \in Made'[k]
    BY DEF Contract!TicketsFollow, Made
  <2>1. tickets[r] <= 1 /\ (tickets[r] > 0 => \E k \in Intents : r \in Made[k])
    BY DEF Contract!TicketsFollow, Made
  <2> QED
    BY <1>2, <1>3, <1>6, <2>1
<1>8. Contract!ServedHasBoth'
  <2> SUFFICES ASSUME NEW r \in Served'
               PROVE  tickets'[r] = 1 /\ \E k \in Intents : r \in Made'[k]
    BY DEF Contract!ServedHasBoth, Made, Served
  <2>1. ASSUME NEW s \in Served
        PROVE  s \in Payments /\ tickets[s] = 1 /\ \E k \in Intents : s \in Made[k]
    BY <1>1 DEF Contract!ServedHasBoth, Made, Served
  <2>2. CASE r = p
    BY <1>1, <1>6, <2>1, <2>2 DEF Contract!IsGivenTickets
  <2>3. CASE r # p
    BY <1>2, <1>6, <2>1, <2>3
  <2> QED
    BY <2>2, <2>3
<1>9. ASSUME NEW k \in Intents
      PROVE  /\ Made'[k] # {} => bookings'[k] > 0
             /\ bookings'[k] > 0 /\ k \notin Excused' => Made'[k] # {}
  <2>1. /\ bookings[k] \in Nat /\ Made[k] # {} => bookings[k] > 0
        /\ bookings[k] > 0 /\ k \notin Excused => Made[k] # {}
    BY <1>1 DEF Made, Excused
  <2> QED
    BY <1>1, <2>1
<1> QED
  BY <1>4, <1>5, <1>7, <1>8, <1>9 DEF Made, Excused

LEMMA ContractInvStep ==
    ASSUME Contract!ContractInv, [Contract!ContractNext]_(Contract!contractVars)
    PROVE  Contract!ContractInv'
<1>1. CASE UNCHANGED Contract!contractVars
  BY <1>1 DEF Contract!contractVars, Contract!ContractInv, Contract!ContractTypeOK,
      Contract!MadeOnce, Contract!TicketsFollow, Contract!ServedHasBoth
<1>2. ASSUME NEW i \in Intents, NEW p \in Payments,
             \/ Contract!Book(i, p) \/ Contract!BookWithTickets(i, p)
             \/ Contract!BookAndServe(i, p)
      PROVE  Contract!ContractInv'
  <2>1. /\ Contract!Makes(i, p) /\ UNCHANGED Excused
        /\ Contract!IsGivenTickets(p) \/ UNCHANGED tickets
        /\ UNCHANGED Served \/ (Served' = Served \cup {p} /\ Contract!IsGivenTickets(p))
    BY <1>2 DEF Contract!Book, Contract!BookWithTickets, Contract!BookAndServe,
                Contract!CountsAsServed, Served, Excused
  <2> QED
    BY <2>1, ContractInvMakes
<1>3. ASSUME NEW i \in Intents, NEW p \in Payments, Contract!Serve(i, p)
      PROVE  Contract!ContractInv'
  <2> USE DEF Contract!ContractInv, Contract!ContractTypeOK
  <2>1. /\ tickets \in [Payments -> Nat] /\ Served \subseteq Payments
        /\ p \in Made[i] /\ Served' = Served \cup {p}
        /\ UNCHANGED <<Made, bookings, Excused>>
    BY <1>3 DEF Contract!Serve, Contract!CountsAsServed, Made, Served, Excused
  <2>2. /\ tickets' \in [Payments -> Nat] /\ tickets'[p] = 1
        /\ \A r \in Payments : r # p => tickets'[r] = tickets[r]
    BY <1>3, <2>1 DEF Contract!Serve, Contract!IsGivenTickets
  <2>3. Contract!ContractTypeOK' /\ Contract!MadeOnce'
    BY <2>1, <2>2 DEF Contract!MadeOnce, Made, Served, Excused
  <2>4. Contract!TicketsFollow'
    <3>1. \A r \in Payments : /\ tickets[r] <= 1
                              /\ tickets[r] > 0 => \E k \in Intents : r \in Made[k]
      BY DEF Contract!TicketsFollow, Made
    <3>2. \A r \in Payments : /\ tickets'[r] <= 1
                              /\ tickets'[r] > 0 => \E k \in Intents : r \in Made'[k]
      BY <2>1, <2>2, <3>1
    <3> QED
      BY <3>2 DEF Contract!TicketsFollow, Made
  <2>5. Contract!ServedHasBoth'
    <3>1. \A r \in Served : tickets[r] = 1 /\ \E k \in Intents : r \in Made[k]
      BY DEF Contract!ServedHasBoth, Made, Served
    <3>2. \A r \in Served' : tickets'[r] = 1 /\ \E k \in Intents : r \in Made'[k]
      BY <2>1, <2>2, <3>1
    <3> QED
      BY <3>2 DEF Contract!ServedHasBoth, Made, Served
  <2>6. (\A k \in Intents : /\ Made[k] # {} => bookings[k] > 0
                            /\ bookings[k] > 0 /\ k \notin Excused => Made[k] # {})'
    BY <2>1 DEF Made, Excused
  <2> QED
    BY <2>3, <2>4, <2>5, <2>6 DEF Made, Excused
<1>4. ASSUME NEW i \in Intents, Contract!Excuse(i) PROVE Contract!ContractInv'
  <2> USE DEF Contract!ContractInv, Contract!ContractTypeOK
  <2>1. UNCHANGED <<Made, bookings, tickets, Served>> /\ Excused' = Excused \cup {i}
    BY <1>4 DEF Contract!Excuse, Made, Served, Excused
  <2>2. Contract!ContractTypeOK' /\ Contract!MadeOnce'
    BY <2>1 DEF Contract!MadeOnce, Made, Served, Excused
  <2>3. Contract!TicketsFollow' /\ Contract!ServedHasBoth'
    BY <2>1 DEF Contract!TicketsFollow, Contract!ServedHasBoth, Made, Served
  <2>4. (\A k \in Intents : /\ Made[k] # {} => bookings[k] > 0
                            /\ bookings[k] > 0 /\ k \notin Excused => Made[k] # {})'
    BY <2>1 DEF Made, Excused
  <2> QED
    BY <2>2, <2>3, <2>4 DEF Made, Excused
<1> QED
  BY <1>1, <1>2, <1>3, <1>4 DEF Contract!ContractNext

\* The contract is worth what it says of bookings and tickets: it implies
\* OneBooking, TicketedOnce and FulfilledHasTickets.
THEOREM ContractGoods == KeepsContract => [](OneBooking /\ TicketedOnce /\ FulfilledHasTickets)
<1>1. ASSUME Contract!ContractInv PROVE OneBooking /\ TicketedOnce /\ FulfilledHasTickets
  <2> USE <1>1 DEF Contract!ContractInv
  <2>1. OneBooking
    BY DEF Contract!MadeOnce, OneBooking
  <2>2. \A p \in Payments : tickets[p] <= 1 /\ (tickets[p] > 0 => \E k \in Intents : p \in Made[k])
    BY DEF Contract!TicketsFollow, Made
  <2>3. \A i \in Intents \ Excused : \A p, q \in Made[i] : p = q
    BY DEF Contract!MadeOnce, Made, Excused
  <2>4. ASSUME NEW i \in Intents, ~overwritten[i] PROVE Cardinality(Ticketed(i)) <= 1
    <3>1. Ticketed(i) \subseteq Made[i]
      BY <2>2 DEF Ticketed, Made, Makers
    <3>2. \A p, q \in Ticketed(i) : p = q
      BY <2>3, <2>4, <3>1 DEF Excused
    <3> QED
      BY <3>2, AtMostOne
  <2>5. ASSUME NEW p \in Payments, payment[p].status = "fulfilled"
        PROVE  payment[p].final /\ tickets[p] = 1 /\ bookings[payment[p].of] > 0
    <3>1. tickets[p] = 1 /\ \E k \in Intents : p \in Made[k]
      BY <2>5 DEF Contract!ServedHasBoth, Made
    <3>2. PICK k \in Intents : p \in Made[k]
      BY <3>1
    <3>3. bookings[k] > 0
      BY <3>2 DEF Made
    <3> QED
      BY <3>1, <3>2, <3>3 DEF Made, Makers
  <2> QED
    BY <2>1, <2>2, <2>4, <2>5 DEF TicketedOnce, FulfilledHasTickets
<1> QED
  BY <1>1, ContractInvInit, ContractInvStep, PTL DEF KeepsContract, Contract!ContractSpec
=============================================================================
