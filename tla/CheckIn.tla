------------------------------ MODULE CheckIn ------------------------------
(***************************************************************************)
(* Check-in of one attendee at several desks (apps/attendee).  Attendees   *)
(* share no rows, so one stands for all.                                   *)
(*                                                                         *)
(* No endpoint opens a transaction or takes a lock: a scan reads attendee, *)
(* ticket and latest audit record, decides, and writes attendance, status  *)
(* and audit record one after the other; a bulk update writes them in the  *)
(* opposite order.  A desk's job holds what it decided and has yet to do.  *)
(***************************************************************************)
EXTENDS Naturals, Sequences, SequencesExt, FiniteSets, Subsequences

CONSTANTS
    Desks,         \* requests in progress at the same time
    MaxRequests    \* bound: scans, bulk updates and deletions of the attendee's log

ASSUME MaxRequestsAssumption == MaxRequests \in Nat

VARIABLES
    status,        \* Attendee.status
    ticket,        \* the attendee's ticket, if made yet
    attendance,    \* EventAttendance: which of its times is the later one
    log,           \* AttendeeCheckIn records, the latest last
    cancelLogged,  \* an action CANCELLED is on record: Attendee.is_cancelled
    desk,          \* what each desk is in the middle of
    requests,      \* requests counted against MaxRequests so far
    barred,        \* history: cancelled, and not registered anew since
    holes          \* history: what went on that the code has no defence against

checkInVars == <<status, ticket, attendance, log, cancelLogged, desk, requests,
                 barred, holes>>

Statuses == {"PENDING_PAYMENT", "REGISTERED", "CHECKED_IN", "CHECKED_OUT", "CANCELLED"}
Tickets  == {"none", "active", "cancelled"}
Actions  == {"CHECK_IN", "CHECK_OUT"}
Results  == {"SUCCESS", "ALREADY_CHECKED_IN", "ALREADY_CHECKED_OUT",
             "CANCELLED_ATTENDEE", "CANCELLED_TICKET"}

\* Which of check_in_time and check_out_time is the later one, if any is set.
Attendances == Actions \cup {"no row"}

Records == [action : Actions, by : {"scan", "bulk"}, success : BOOLEAN, snapshot : Statuses]

Steps   == {"attend", "status", "record"}
Free    == [todo |-> <<>>]
DeskJobs    == {Free} \cup
    [todo : BoundedSeq(Steps, 3) \ {<<>>}, action : Actions, by : {"scan", "bulk"},
     success : BOOLEAN,
     new : Statuses,               \* the status it writes and records
     again : BOOLEAN,              \* mark_checked_in or _out has yet to save the status
     sawCancelled : BOOLEAN,       \* the attendee was cancelled when it was read
     outdated : BOOLEAN]           \* history: the log changed since

\* What the code has no defence against: the log changed after a scan had read
\* it; the record of an admission was deleted, or hidden by a scan refused
\* later; requests overlapped or died half way; a status was written over a
\* cancellation.
Holes == {"raced", "hidden", "torn", "overtaken"}

-----------------------------------------------------------------------------
CheckInInit ==
    /\ \/ status = "PENDING_PAYMENT" /\ ticket = "none"
       \/ status = "REGISTERED"      /\ ticket = "active"
    /\ attendance = "no row"
    /\ log = <<>>
    /\ cancelLogged = FALSE
    /\ desk = [d \in Desks |-> Free]
    /\ requests = 0
    /\ barred = FALSE
    /\ holes = {}

Busy == {d \in Desks : desk[d] # Free}
Mark(hole, when) == IF when THEN {hole} ELSE {}
StatusAfter(action) == IF action = "CHECK_IN" THEN "CHECKED_IN" ELSE "CHECKED_OUT"

\* Mutation: the earliest record decides.
FirstRecordIn(l) == l # <<>> /\ Head(l).action = "CHECK_IN" /\ Head(l).snapshot = "CHECKED_IN"

\* Attendee.is_checked_in of a log: the latest record decides, refused or not.
IsCheckedIn(l) == l # <<>> /\ Last(l).action = "CHECK_IN" /\ Last(l).snapshot = "CHECKED_IN"

ScanResult(action, byTicket) ==
    CASE status = "CANCELLED"                        -> "CANCELLED_ATTENDEE"
      [] status # "CANCELLED" /\ byTicket /\ ticket = "cancelled" -> "CANCELLED_TICKET"
      [] OTHER ->
           IF (action = "CHECK_IN") # IsCheckedIn(log) THEN "SUCCESS"
           ELSE IF action = "CHECK_IN" THEN "ALREADY_CHECKED_IN" ELSE "ALREADY_CHECKED_OUT"

\* The status a scan leaves: a refused check-in of something cancelled cancels
\* the attendee, a refused check-out counts as one.
StatusFor(action, result) ==
    CASE result = "SUCCESS" -> StatusAfter(action)
      [] result \in {"CANCELLED_ATTENDEE", "CANCELLED_TICKET"} /\ action = "CHECK_IN" -> "CANCELLED"
      [] result = "ALREADY_CHECKED_OUT" -> "CHECKED_OUT"
      [] OTHER -> status

Start(d, todo, action, by, success, new) ==
    /\ desk[d] = Free
    /\ requests < MaxRequests /\ requests' = requests + 1
    /\ desk' = [desk EXCEPT ![d] =
           [todo |-> todo, action |-> action, by |-> by, success |-> success, new |-> new,
            again |-> FALSE, sawCancelled |-> status = "CANCELLED", outdated |-> FALSE]]
    /\ holes' = holes \cup Mark("torn", Busy # {})
    /\ UNCHANGED <<status, ticket, attendance, log, cancelLogged, barred>>

\* CheckInViewSet.create up to the decision, with a ticket code or a display id.
Scan(d, action, byTicket) ==
    LET result == ScanResult(action, byTicket)
        new    == StatusFor(action, result)
        writes == \/ result = "ALREADY_CHECKED_OUT"
                  \/ action = "CHECK_IN" /\ new = "CANCELLED"
        todo   == CASE result = "SUCCESS" -> <<"attend", "status", "record">>
                    [] result # "SUCCESS" /\ writes -> <<"status", "record">>
                    [] OTHER -> <<"record">>
    IN  /\ byTicket => ticket # "none"
        /\ Start(d, todo, action, "scan", result = "SUCCESS", new)

\* Mutation: cancelled attendees are not excluded.
BulkAll(d, action) ==
    Start(d, <<"record", "status", "attend">>, action, "bulk", TRUE, StatusAfter(action))

\* bulk_status_update and attendee_status_update: everybody not cancelled.
Bulk(d, action) ==
    /\ status # "CANCELLED"
    /\ Start(d, <<"record", "status", "attend">>, action, "bulk", TRUE, StatusAfter(action))

Does(d, step) == desk[d] # Free /\ Head(desk[d].todo) = step

Rest(j) == IF Len(j.todo) = 1 THEN Free ELSE [j EXCEPT !.todo = Tail(@)]
Advance(d) == desk' = [desk EXCEPT ![d] = Rest(@)]

\* The jobs of the others, after the log has changed.
Outdate(e) == IF desk[e] = Free THEN Free ELSE [desk[e] EXCEPT !.outdated = TRUE]

\* A status written over a cancellation by a request that had not seen it.
Overtakes(j) == status = "CANCELLED" /\ ~j.sawCancelled /\ j.new # "CANCELLED"

WriteStatus(j) ==
    /\ status' = j.new
    /\ barred' = (barred \/ j.new = "CANCELLED")
    /\ holes' = holes \cup Mark("overtaken", Overtakes(j))

\* Mutation: a second check-in leaves the time of the first.
FirstTime(j) == IF attendance = "no row" \/ j.action = "CHECK_OUT" THEN j.action ELSE attendance

\* The time written is the latest of the row.
NewTime(j) == j.action

\* mark_checked_in and mark_checked_out set a time; a check-out without a row
\* does nothing.  The bulk endpoints set the time, row or not.
Attend(d) ==
    LET j     == desk[d]
        found == j.by = "bulk" \/ j.action = "CHECK_IN" \/ attendance # "no row"
    IN  /\ Does(d, "attend")
        /\ attendance' = IF found THEN NewTime(j) ELSE attendance
        /\ desk' = [desk EXCEPT ![d] =
               IF j.by = "scan" THEN [Rest(j) EXCEPT !.again = found] ELSE Rest(j)]
        /\ UNCHANGED <<status, ticket, log, cancelLogged, requests, barred, holes>>

\* Then they save the status,
MarkStatus(d) ==
    /\ Does(d, "status") /\ desk[d].again
    /\ desk' = [desk EXCEPT ![d].again = FALSE]
    /\ WriteStatus(desk[d])
    /\ UNCHANGED <<ticket, attendance, log, cancelLogged, requests>>

\* which the scan saves once more.
SaveStatus(d) ==
    /\ Does(d, "status") /\ ~desk[d].again
    /\ Advance(d)
    /\ WriteStatus(desk[d])
    /\ UNCHANGED <<ticket, attendance, log, cancelLogged, requests>>

RecordAttempt(d) ==
    LET j == desk[d] IN
    /\ Does(d, "record")
    /\ desk' = [e \in Desks |-> IF e = d THEN Rest(j) ELSE Outdate(e)]
    /\ log' = Append(log, [action |-> j.action, by |-> j.by, success |-> j.success,
                           snapshot |-> j.new])
    /\ holes' = holes
           \cup Mark("raced", j.by = "scan" /\ j.outdated)
           \cup Mark("hidden", ~j.success /\ IsCheckedIn(log) /\ ~IsCheckedIn(log'))
    /\ UNCHANGED <<status, ticket, attendance, cancelLogged, requests, barred>>

\* A request dies or raises: what it wrote stays.
Die(d) ==
    /\ desk[d] # Free
    /\ desk' = [desk EXCEPT ![d] = Free]
    /\ holes' = holes \cup {"torn"}
    /\ UNCHANGED <<status, ticket, attendance, log, cancelLogged, requests, barred>>

\* bulk_delete_logs of a range of days.
DeleteLogs(from, to) ==
    /\ requests < MaxRequests /\ requests' = requests + 1
    /\ log' = SubSeq(log, 1, from - 1) \o SubSeq(log, to + 1, Len(log))
    /\ desk' = [e \in Desks |-> Outdate(e)]
    /\ holes' = holes \cup {"hidden"}
    /\ UNCHANGED <<status, ticket, attendance, cancelLogged, barred>>

\* AttendeeViewSet.cancel.
CancelAttendee ==
    /\ ~cancelLogged /\ cancelLogged' = TRUE
    /\ status' = "CANCELLED"
    /\ barred' = TRUE
    /\ UNCHANGED <<ticket, attendance, log, desk, requests, holes>>

\* A processed refund cancels the ticket and leaves the attendee (module Refunds).
RefundTicket ==
    /\ ticket = "active" /\ ticket' = "cancelled"
    /\ UNCHANGED <<status, attendance, log, cancelLogged, desk, requests, barred, holes>>

\* The fulfilment of the payment makes the ticket: mark_registered, whatever the
\* attendee did meanwhile.
MakeTicket ==
    /\ ticket = "none" /\ ticket' = "active"
    /\ status' = "REGISTERED"
    /\ barred' = FALSE
    /\ UNCHANGED <<attendance, log, cancelLogged, desk, requests, holes>>

-----------------------------------------------------------------------------
DeskStep(d) ==
    \/ \E action \in Actions, byTicket \in BOOLEAN : Scan(d, action, byTicket)
    \/ \E action \in Actions : Bulk(d, action)
    \/ Attend(d) \/ MarkStatus(d) \/ SaveStatus(d) \/ RecordAttempt(d) \/ Die(d)

CheckInNext ==
    \/ \E d \in Desks : DeskStep(d)
    \/ \E from \in DOMAIN log : \E to \in from .. Len(log) : DeleteLogs(from, to)
    \/ CancelAttendee \/ RefundTicket \/ MakeTicket

CheckInSpec == CheckInInit /\ [][CheckInNext]_checkInVars

-----------------------------------------------------------------------------
(* Properties.                                                              *)

\* Type invariant.
CheckInTypeOK ==
    /\ status \in Statuses /\ ticket \in Tickets
    /\ attendance \in Attendances
    /\ log \in Seq(Records)
    /\ desk \in [Desks -> DeskJobs]
    /\ cancelLogged \in BOOLEAN /\ barred \in BOOLEAN
    /\ requests \in 0 .. MaxRequests
    /\ holes \subseteq Holes

Successes == Those(log, {r \in Records : r.success})

\* Nobody is admitted twice without leaving in between (checkin.py:187): of two
\* successful check-ins in a row the second is not a scan.  Unless two desks
\* scanned at the same time, or the record of the admission was deleted or
\* hidden from is_checked_in by a scan refused later.
AdmittedOnce ==
    (\E i \in 1 .. Len(Successes) - 1 :
        /\ Successes[i].action = "CHECK_IN"
        /\ Successes[i + 1].action = "CHECK_IN" /\ Successes[i + 1].by = "scan")
    => holes \cap {"raced", "hidden"} # {}

\* Status, attendance and audit trail are written one by one and tell the same
\* story (models/checkin.py:4): who counts as checked in has an attendance that
\* ends in a check-in and a log whose last success is one; who counts as checked
\* out has no open attendance.  Unless requests overlapped or died half way, or
\* the record of the admission was deleted or hidden.
RecordsAgree ==
    Busy = {} /\ holes \cap {"torn", "hidden"} = {} =>
        /\ status = "CHECKED_IN" =>
               /\ attendance = "CHECK_IN"
               /\ Successes # <<>> /\ Last(Successes).action = "CHECK_IN"
        /\ status = "CHECKED_OUT" => attendance # "CHECK_IN"

\* A cancelled attendee stays cancelled, at every desk and in every bulk update,
\* until a ticket is made: unless a request that had read the attendee before
\* the cancellation writes afterwards (checkin.py:228, 489).
CancelledStaysOut == barred => status = "CANCELLED" \/ "overtaken" \in holes
=============================================================================
