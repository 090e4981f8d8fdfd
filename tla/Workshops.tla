----------------------------- MODULE Workshops -----------------------------
(***************************************************************************)
(* Registrations for the workshops of one event (apps/workshops): first    *)
(* come first served, random draw, allocation by ranked interest, manual   *)
(* confirmation and the waiting list.                                      *)
(*                                                                         *)
(* A request reads a registration or a workshop; its service then opens a  *)
(* transaction, counts the confirmed places and chooses who gets them on   *)
(* what the others have committed, and commits.  Nothing locks the         *)
(* workshop; rows are locked by the draw and once they are written.        *)
(***************************************************************************)
EXTENDS Naturals, FiniteSets, Sequences, SequencesExt, Subsequences

CONSTANTS
    Workshops,     \* the workshops of the event
    Members,       \* its attendees
    Capacity,      \* places in each workshop
    Programmes,    \* possible starts: the allocation mode of each workshop and the
                   \* members registered so far, the interests of each member
    Submitted,     \* the members in the order of submitted_at
    Clerks,        \* requests in progress at the same time
    MaxServices    \* bound: requests

Modes == {"FCFS", "RANDOM", "INTEREST_RANKING", "MANUAL"}

RegStatuses == {"none", "PENDING_ALLOCATION", "CONFIRMED", "WAITLISTED", "CANCELLED"}
Nobody      == "nobody"
Nowhere     == "nowhere"

ASSUME MembersAssumption == IsFiniteSet(Members)
ASSUME NamesAssumption == Nobody \notin Members /\ Nowhere \notin Workshops
ASSUME CapacityAssumption == Capacity \in [Workshops -> Nat]
ASSUME ProgrammesAssumption ==
    Programmes \subseteq [mode  : [Workshops -> Modes],
                          line  : [Workshops -> Seq(Members)],
                          ranks : [Members -> Seq(Workshops)]]
\* One registration for a member and a workshop, one submission for a member.
ASSUME UniqueAssumption ==
    \A p \in Programmes, w \in Workshops : IsInjective(p.line[w])
ASSUME SubmittedAssumption ==
    /\ Submitted \in Seq(Members) /\ \A m \in Members : Contains(Submitted, m)
    /\ IsInjective(Submitted)
ASSUME MaxServicesAssumption == MaxServices \in Nat

VARIABLES
    programme,     \* the start; modes and interests stay
    open,          \* workshops whose status is OPEN
    finalised,     \* members whose submission is locked for allocation
    reg,           \* status of every registration
    line,          \* members registered for each workshop, by registered_at
    clerk,         \* what each request is in the middle of
    services,      \* requests counted against MaxServices so far
    raced,         \* history: workshops written on an outdated reading
    overridden     \* history: workshops where staff went past the waiting list

workshopVars == <<programme, open, finalised, reg, line, clerk, services, raced, overridden>>

AtDesk == [op |-> "none"]
ClerkJobs == {AtDesk}
   \cup [op : {"register", "confirm", "cancel", "cancelling", "promote"},
         of : Workshops, who : Members, to : RegStatuses, next : Members \cup {Nobody},
         outdated : SUBSET Workshops]
   \cup [op : {"draw"}, of : Workshops, pending : SUBSET Members, places : Nat,
         outdated : SUBSET Workshops]
   \cup [op : {"rank"}, plan : [Members -> Workshops \cup {Nowhere}],
         outdated : SUBSET Workshops]

-----------------------------------------------------------------------------
\* What registering one after the other has left the i-th in the line with.
FirstStatus(w, i) ==
    CASE programme.mode[w] # "FCFS" -> "PENDING_ALLOCATION"
      [] programme.mode[w] = "FCFS" /\ i <= Capacity[w] -> "CONFIRMED"
      [] OTHER -> "WAITLISTED"

WorkshopInit ==
    /\ programme \in Programmes
    /\ open = Workshops
    /\ finalised = {m \in Members : programme.ranks[m] # <<>>}
    /\ line = programme.line
    /\ reg = [w \in Workshops |-> [m \in Members |->
                 IF \E i \in DOMAIN line[w] : line[w][i] = m
                 THEN FirstStatus(w, CHOOSE i \in DOMAIN line[w] : line[w][i] = m)
                 ELSE "none"]]
    /\ clerk = [c \in Clerks |-> AtDesk]
    /\ services = 0
    /\ raced = {}
    /\ overridden = {}

HasStatus(w, s) == {m \in Members : reg[w][m] = s}
Confirmed(w)    == Cardinality(HasStatus(w, "CONFIRMED"))

\* Mutation: off by one.
IsOverfull(w) == Confirmed(w) > Capacity[w]

NoPlaceLeft(w) == Confirmed(w) >= Capacity[w]

\* Rows a transaction holds: the pending ones of a draw, one being cancelled.
Locked(c, w, m) == \E o \in Clerks \ {c} :
    \/ clerk[o].op = "draw" /\ clerk[o].of = w /\ m \in clerk[o].pending
    \/ clerk[o].op = "cancelling" /\ clerk[o].of = w /\ clerk[o].who = m

Serve == services < MaxServices /\ services' = services + 1

Begin(c, j) ==
    /\ clerk[c] = AtDesk
    /\ Serve
    /\ clerk' = [clerk EXCEPT ![c] = j]
    /\ UNCHANGED <<programme, open, finalised, reg, line, raced, overridden>>

On(op, w, m, to) ==
    [op |-> op, of |-> w, who |-> m, to |-> to, next |-> Nobody, outdated |-> {}]

\* Registrations of ws are written: what other requests have read is outdated,
\* and so was, perhaps, what this one had read.
Write(c, new, ws) ==
    /\ \A w \in ws, m \in Members : new[w][m] # reg[w][m] => ~Locked(c, w, m)
    /\ reg' = new
    /\ line' = [w \in Workshops |->
           LET there == {m \in Members : new[w][m] # "none"}
               added == {m \in there : reg[w][m] = "none"}
           IN  Those(line[w], there) \o Those(Submitted, added)]
    /\ clerk' = [o \in Clerks |->
           CASE o = c -> AtDesk
             [] o # c /\ clerk[o] = AtDesk -> AtDesk
             [] OTHER -> [clerk[o] EXCEPT !.outdated = @ \cup ws]]

Commit(c, new, ws) ==
    /\ Write(c, new, ws)
    /\ raced' = raced \cup (clerk[c].outdated \cap ws)
    /\ UNCHANGED <<programme, open, finalised, services>>

With(w, m, s) == [reg EXCEPT ![w][m] = s]

-----------------------------------------------------------------------------
(* Registering and the waiting list.                                        *)

\* Mutation: the status of an allocation still to come is misspelt.
StatusMisspelt(w) ==
    CASE programme.mode[w] # "FCFS" -> "PENDING"
      [] programme.mode[w] = "FCFS" /\ NoPlaceLeft(w) -> "WAITLISTED"
      [] OTHER -> "CONFIRMED"

\* perform_create: register_fcfs counts the places; other modes leave it pending.
StatusOnRegistering(w) ==
    CASE programme.mode[w] # "FCFS" -> "PENDING_ALLOCATION"
      [] programme.mode[w] = "FCFS" /\ NoPlaceLeft(w) -> "WAITLISTED"
      [] OTHER -> "CONFIRMED"

Register(c, w, m) ==
    /\ reg[w][m] = "none"
    /\ programme.mode[w] = "FCFS" => w \in open
    /\ Begin(c, On("register", w, m, StatusOnRegistering(w)))

\* get_or_create finds a row made meanwhile and gives it the status; the plain
\* insert of the other modes is refused by unique_together.
Registered(c) ==
    LET j == clerk[c] IN
    /\ j.op = "register"
    /\ programme.mode[j.of] # "FCFS" => reg[j.of][j.who] = "none"
    /\ Commit(c, With(j.of, j.who, j.to), {j.of})
    /\ UNCHANGED overridden

\* Who waits for the workshop, and whether there is a place, once the
\* registration of `leaving` is written as cancelled.
Waiting(w, leaving) ==
    Those(line[w], HasStatus(w, "WAITLISTED") \ {leaving})
HasPlace(w, leaving) ==
    Cardinality(HasStatus(w, "CONFIRMED") \ {leaving}) < Capacity[w]

\* Mutation: the latest in the line.
LastWaiting(w, leaving) ==
    IF HasPlace(w, leaving) /\ Waiting(w, leaving) # <<>>
    THEN Last(Waiting(w, leaving)) ELSE Nobody

\* Mutation: the place counts as taken until the cancellation is committed.
NextAfterCommit(w, leaving) ==
    IF ~NoPlaceLeft(w) /\ Waiting(w, leaving) # <<>>
    THEN Head(Waiting(w, leaving)) ELSE Nobody

\* The one promote_from_waitlist chooses: the earliest in the line.
NextWaiting(w, leaving) ==
    IF HasPlace(w, leaving) /\ Waiting(w, leaving) # <<>>
    THEN Head(Waiting(w, leaving)) ELSE Nobody

\* promote_from_waitlist on its own.
Promote(c, w) ==
    /\ NextWaiting(w, Nobody) # Nobody
    /\ Begin(c, On("promote", w, NextWaiting(w, Nobody), "CONFIRMED"))

\* The status is written whatever became of the row, unless it was deleted.
Promoted(c) ==
    LET j == clerk[c] IN
    /\ j.op = "promote"
    /\ reg[j.of][j.who] # "none"
    /\ Commit(c, With(j.of, j.who, "CONFIRMED"), {j.of})
    /\ UNCHANGED overridden

\* The view and cancel_registration check the status on an unlocked read.
Cancel(c, w, m) ==
    /\ reg[w][m] \notin {"none", "CANCELLED"}
    /\ Begin(c, On("cancel", w, m, "CANCELLED"))

\* The row is written, which locks it, and the next in line chosen.
Cancelling(c) ==
    LET j == clerk[c] IN
    /\ j.op = "cancel"
    /\ reg[j.of][j.who] # "none"
    /\ ~Locked(c, j.of, j.who)
    /\ clerk' = [clerk EXCEPT ![c] = [j EXCEPT !.op = "cancelling", !.outdated = {},
                                               !.next = NextWaiting(j.of, j.who)]]
    /\ UNCHANGED <<programme, open, finalised, reg, line, services, raced, overridden>>

Cancelled(c) ==
    LET j == clerk[c] IN
    /\ j.op = "cancelling"
    /\ Commit(c, [reg EXCEPT ![j.of] = [m \in Members |->
                     CASE m = j.who  -> "CANCELLED"
                       [] m # j.who /\ m = j.next /\ @[m] # "none" -> "CONFIRMED"
                       [] OTHER -> @[m]]], {j.of})
    /\ UNCHANGED overridden

-----------------------------------------------------------------------------
(* Staff.                                                                   *)

\* Does giving m a place pass over the capacity, or over somebody waiting?
PassesOver(w, m) ==
    \/ NoPlaceLeft(w)
    \/ Waiting(w, Nobody) # <<>> /\ Head(Waiting(w, Nobody)) # m

\* confirm: the view checks the status, manual_allocate writes whatever it is now.
Confirm(c, w, m) ==
    /\ reg[w][m] \in {"PENDING_ALLOCATION", "WAITLISTED"}
    /\ Begin(c, On("confirm", w, m, "CONFIRMED"))

ConfirmedByStaff(c) ==
    LET j == clerk[c] IN
    /\ j.op = "confirm"
    /\ Commit(c, With(j.of, j.who, "CONFIRMED"), {j.of})
    /\ overridden' = overridden \cup IF PassesOver(j.of, j.who) THEN {j.of} ELSE {}

\* PATCH writes any status, DELETE removes the row; neither promotes anybody.
Amend(c, w, m, s) ==
    /\ clerk[c] = AtDesk /\ Serve
    /\ reg[w][m] \notin {"none", s}
    /\ Write(c, With(w, m, s), {w})
    /\ overridden' = overridden \cup {w}
    /\ UNCHANGED <<programme, open, finalised, raced>>

\* open_registrations and close_registrations.
SetOpen(ws) ==
    /\ Serve
    /\ open' = ws
    /\ UNCHANGED <<programme, finalised, reg, line, clerk, raced, overridden>>

\* finalise wants a ranked workshop; unfinalize takes it back.
SetFinalised(m) ==
    /\ Serve
    /\ programme.ranks[m] # <<>>
    /\ finalised' = IF m \in finalised THEN finalised \ {m} ELSE finalised \cup {m}
    /\ UNCHANGED <<programme, open, reg, line, clerk, raced, overridden>>

\* A request fails and its transaction rolls back.
RollBack(c) ==
    /\ clerk[c] # AtDesk
    /\ clerk' = [clerk EXCEPT ![c] = AtDesk]
    /\ UNCHANGED <<programme, open, finalised, reg, line, services, raced, overridden>>

-----------------------------------------------------------------------------
(* Allocation.                                                              *)

PlacesLeft(w) == IF NoPlaceLeft(w) THEN 0 ELSE Capacity[w] - Confirmed(w)

\* run_random_allocation locks the pending rows and counts the places left.
Draw(c, w) ==
    /\ programme.mode[w] = "RANDOM"
    /\ \A m \in HasStatus(w, "PENDING_ALLOCATION") : ~Locked(c, w, m)
    /\ Begin(c, [op |-> "draw", of |-> w, pending |-> HasStatus(w, "PENDING_ALLOCATION"),
                 places |-> PlacesLeft(w),
                 outdated |-> {}])

\* Shuffled, as many as there are places are confirmed, the others wait.
Drawn(c) ==
    LET j == clerk[c] IN
    /\ j.op = "draw"
    /\ \E lucky \in SUBSET j.pending :
           /\ \/ Cardinality(lucky) = j.places
              \/ lucky = j.pending /\ Cardinality(lucky) <= j.places
           /\ Commit(c, [reg EXCEPT ![j.of] = [m \in Members |->
                  CASE m \in lucky -> "CONFIRMED"
                    [] m \in j.pending \ lucky -> "WAITLISTED"
                    [] OTHER -> @[m]]], {j.of})
    /\ UNCHANGED overridden

\* One submission of run_interest_ranking_allocation: the first ranked workshop
\* that is open and has a place left; a member registered there already, in any
\* status, counts as placed.
PlaceOne(plan, m) ==
    LET taken(w) == Confirmed(w) + Cardinality({n \in Members : plan[n] = w})
        choices  == Those(programme.ranks[m], {w \in open : taken(w) < Capacity[w]})
    IN  IF choices = <<>> \/ reg[Head(choices)][m] # "none" THEN plan
        ELSE [plan EXCEPT ![m] = Head(choices)]

Finalised == Those(Submitted, finalised)

\* The plan after one submission after the other.
PlanFor(order) ==
    LET after[n \in 0 .. Len(order)] ==
            IF n = 0 THEN [m \in Members |-> Nowhere] ELSE PlaceOne(after[n - 1], order[n])
    IN  after[Len(order)]

\* The submissions in the order of submitted_at.
Plan == PlanFor(Finalised)

\* run_allocation of any workshop in this mode works on the whole event.
Rank(c) ==
    /\ \E w \in Workshops : programme.mode[w] = "INTEREST_RANKING"
    /\ Begin(c, [op |-> "rank", plan |-> Plan, outdated |-> {}])

\* Mutation: everybody else registered has to wait.
RankedEverybody(c) ==
    LET j == clerk[c] IN
    /\ j.op = "rank"
    /\ Commit(c, [w \in Workshops |-> [m \in Members |->
                     CASE j.plan[m] = w -> "CONFIRMED"
                       [] j.plan[m] # w /\ reg[w][m] # "none" -> "WAITLISTED"
                       [] OTHER -> reg[w][m]]], Workshops)
    /\ UNCHANGED overridden

\* Everybody else still pending has to wait, in every workshop of the event.
Ranked(c) ==
    LET j == clerk[c] IN
    /\ j.op = "rank"
    /\ Commit(c, [w \in Workshops |-> [m \in Members |->
                     CASE j.plan[m] = w -> "CONFIRMED"
                       [] j.plan[m] # w /\ reg[w][m] = "PENDING_ALLOCATION" -> "WAITLISTED"
                       [] OTHER -> reg[w][m]]], Workshops)
    /\ UNCHANGED overridden

-----------------------------------------------------------------------------
Reading(c) ==
    \/ \E w \in Workshops, m \in Members :
           \/ Register(c, w, m) \/ Cancel(c, w, m) \/ Confirm(c, w, m)
           \/ \E s \in RegStatuses : Amend(c, w, m, s)
    \/ \E w \in Workshops : Promote(c, w) \/ Draw(c, w)
    \/ Rank(c)

Committing(c) ==
    \/ Registered(c) \/ Promoted(c) \/ Cancelling(c) \/ Cancelled(c)
    \/ ConfirmedByStaff(c) \/ Drawn(c) \/ Ranked(c) \/ RollBack(c)

WorkshopNext ==
    \/ \E c \in Clerks : Reading(c) \/ Committing(c)
    \/ \E w \in Workshops : SetOpen(open \cup {w}) \/ SetOpen(open \ {w})
    \/ \E m \in Members : SetFinalised(m)

WorkshopSpec == WorkshopInit /\ [][WorkshopNext]_workshopVars

-----------------------------------------------------------------------------
(* Properties.                                                              *)

\* Type invariant.
WorkshopTypeOK ==
    /\ programme \in Programmes
    /\ open \subseteq Workshops /\ finalised \subseteq Members
    /\ reg \in [Workshops -> [Members -> RegStatuses]]
    /\ line \in [Workshops -> Seq(Members)]
    /\ clerk \in [Clerks -> ClerkJobs]
    /\ services \in 0 .. MaxServices
    /\ raced \subseteq Workshops /\ overridden \subseteq Workshops

Undisturbed == Workshops \ (raced \cup overridden)

\* No way of allocating gives out more places than there are (workshop.py:101),
\* alone or one after the other: unless two requests counted the same place, or
\* staff confirmed somebody past the capacity.
NeverOverfull == \A w \in Undisturbed : Confirmed(w) <= Capacity[w]

\* Nobody waits for a place that is free: every cancellation passes its place on
\* (allocation.py:144), in a workshop where the places go to whoever comes first.
NoIdlePlace ==
    \A w \in Undisturbed :
        programme.mode[w] = "FCFS" /\ HasStatus(w, "WAITLISTED") # {} => NoPlaceLeft(w)

\* First come, first served: nobody has a place who registered after somebody
\* who still waits (allocation.py:163).
FirstComeFirstServed ==
    \A w \in Undisturbed : programme.mode[w] = "FCFS" =>
        \A i, k \in DOMAIN line[w] : i < k /\ reg[w][line[w][i]] = "WAITLISTED"
            => reg[w][line[w][k]] # "CONFIRMED"

\* Who has a place keeps it until he or she cancels: neither a draw nor an
\* allocation nor what happens to others takes it away (allocation.py:100, 277),
\* unless staff amend the registration or it is written on an outdated reading.
PlacesAreKept ==
    [][\A w \in Workshops \ (raced' \cup overridden') : \A m \in HasStatus(w, "CONFIRMED") :
          \/ reg'[w][m] = "CONFIRMED"
          \/ \E c \in Clerks : /\ clerk[c].op = "cancelling" /\ clerk'[c] = AtDesk
                               /\ clerk[c].of = w /\ clerk[c].who = m]_workshopVars

\* m ranks v at least as high as w.
Prefers(m, v, w) ==
    \E i, k \in DOMAIN programme.ranks[m] :
        i <= k /\ programme.ranks[m][i] = v /\ programme.ranks[m][k] = w

\* The docstring of the allocation by interest: submission by submission, each
\* attendee is placed in the first ranked workshop that is open and still has
\* capacity (allocation.py:216), unless he or she has a spot (allocation.py:276).
\* So when an allocation commits what it would decide on what is there now, who
\* has no place in an open workshop preferred to w leaves none behind in w, and
\* none to somebody who submitted later.
RankingGivesPlaces ==
    [][\A c \in Clerks : Ranked(c) /\ clerk[c].plan = Plan =>
          LET order == Finalised
              placed(m, w) == \E v \in open : Prefers(m, v, w) /\ reg'[v][m] = "CONFIRMED"
          IN  \A i \in DOMAIN order, w \in open :
                  Contains(programme.ranks[order[i]], w) /\ ~placed(order[i], w) =>
                      /\ Confirmed(w)' >= Capacity[w]
                      /\ \A k \in i + 1 .. Len(order) : clerk[c].plan[order[k]] # w
      ]_workshopVars
=============================================================================
