---------------------------- MODULE Invitations ----------------------------
(***************************************************************************)
(* Invitations of one person to the staff of an event or to the leaders of *)
(* a location, and what they give (apps/events and apps/organisations).    *)
(* Accepting reads the invitation without a lock and saves what follows    *)
(* from it row by row, each row in a transaction of its own; the managers  *)
(* change and delete the same rows meanwhile.                              *)
(***************************************************************************)
EXTENDS Naturals, FiniteSets

CONSTANTS
    Hosts,         \* web processes
    InviteKinds,   \* what the person is invited to: subset of {"staff", "leader"}
    MaxInvites,    \* bound: invitations sent
    MaxActs,       \* bound: requests of the managers
    MaxDeaths      \* bound: requests that die half way

ASSUME InviteKindsAssumption == InviteKinds \subseteq {"staff", "leader"}
ASSUME InviteBoundsAssumption == {MaxInvites, MaxActs, MaxDeaths} \subseteq Nat

Invites == 1 .. MaxInvites

VARIABLES
    inviteKind,    \* what these invitations are to
    template,      \* they carry a permission template
    sent,          \* invitations sent so far
    row,           \* the invitations as stored
    badge,         \* the EventStaff or Leader row there is, 0 without
    badges,        \* such rows made so far
    permitted,     \* the permissions of the template are assigned
    host,          \* what each process is in the middle of
    acts,          \* requests counted against MaxActs so far
    deaths,        \* deaths counted against MaxDeaths so far
    entries,       \* history: times each let the person in since it was last opened
    loose,         \* history: invitations a crash, a removal or a lost update left open
    marked,        \* history: invitations that a manager wrote as accepted
    left           \* history: the person was removed, perhaps during an acceptance

inviteLabels == <<inviteKind, template>>
access       == <<badge, badges, permitted>>
inviteBounds == <<acts, deaths>>
inviteTrace  == <<entries, loose, marked, left>>
inviteVars   == <<inviteLabels, sent, row, access, host, inviteBounds, inviteTrace>>

Blank == [there |-> FALSE, accepted |-> FALSE, open |-> FALSE, expired |-> FALSE]
InviteRows == [there : BOOLEAN, accepted : BOOLEAN, open : BOOLEAN, expired : BOOLEAN]

\* Mutation: an invitation counts as long as it is active.
ValidIfActive(r) == r.there /\ r.open /\ ~r.expired

\* is_valid of an invitation that was read.
Valid(r) == r.there /\ r.open /\ ~r.accepted /\ ~r.expired

Pending(r) == r.there /\ r.open /\ ~r.accepted

\* "of" is the invitation, or the row of the person, that the request is about.
Resting == [at |-> "idle", of |-> 0, new |-> Blank]
Accepting(h) == host[h].at \in {"look", "enrol", "permit", "close"}
HostJobs ==
    [at : {"idle", "look", "enrol", "permit", "close", "save", "reopen", "strip", "remove"},
     of : Nat, new : InviteRows]

InviteInit ==
    /\ inviteKind \in InviteKinds
    /\ template \in BOOLEAN /\ (template => inviteKind = "staff")
    /\ sent = 0
    /\ row = [i \in Invites |-> Blank]
    /\ badge = 0 /\ badges = 0 /\ permitted = FALSE
    /\ host = [h \in Hosts |-> Resting]
    /\ acts = 0 /\ deaths = 0
    /\ entries = [i \in Invites |-> 0]
    /\ loose = {} /\ marked = {}
    /\ left = "no"

HostAt(h, place)   == host[h].at = place
HostGoes(h, place) == host' = [host EXCEPT ![h].at = place]
HostDone(h)        == host' = [host EXCEPT ![h] = Resting]
Acts == acts < MaxActs /\ acts' = acts + 1 /\ UNCHANGED deaths

IssueBadge == badge = 0 /\ badges' = badges + 1 /\ badge' = badges + 1

-----------------------------------------------------------------------------
(* Accepting.                                                               *)

\* The invitation is read and must be valid.
Accept(h, i) ==
    /\ HostAt(h, "idle") /\ Valid(row[i])
    /\ host' = [host EXCEPT ![h] =
           [at |-> IF inviteKind = "staff" THEN "enrol" ELSE "look", of |-> i, new |-> row[i]]]
    /\ UNCHANGED <<inviteLabels, sent, row, access, inviteBounds, inviteTrace>>

\* A leader is looked for and not made twice.
Look(h) ==
    /\ HostAt(h, "look")
    /\ HostGoes(h, IF badge > 0 THEN "close" ELSE "enrol")
    /\ UNCHANGED <<inviteLabels, sent, row, access, inviteBounds, inviteTrace>>

\* Mutation: the template is not applied.
PermitsNothing == "close"

\* What follows once the person is in.
NextStep == IF template THEN "permit" ELSE "close"

\* The row that lets the person in.  There can be one: a second is refused.
Enrol(h) ==
    /\ HostAt(h, "enrol")
    /\ \/ IssueBadge
          /\ entries' = [entries EXCEPT ![host[h].of] = @ + 1]
          /\ HostGoes(h, NextStep)
       \/ badge > 0
          /\ UNCHANGED <<badge, badges, entries>>
          /\ HostDone(h)
    /\ UNCHANGED <<inviteLabels, sent, row, permitted, inviteBounds, loose, marked, left>>

\* apply_permission_template, in a transaction of its own.
Permit(h) ==
    /\ HostAt(h, "permit")
    /\ HostGoes(h, "close")
    /\ permitted' = TRUE
    /\ UNCHANGED <<inviteLabels, sent, row, badge, badges, inviteBounds, inviteTrace>>

\* Saving the whole row inserts it again if it was deleted.  The database refuses
\* that when a constraint leaves no room for it: one invitation to the staff, or
\* one to the leaders that is pending.
Fits(i, r) ==
    \A j \in Invites \ {i} :
        IF inviteKind = "staff" THEN ~row[j].there
                                ELSE ~(Pending(row[j]) /\ Pending(r))

\* The invitation is saved as accepted: to the staff, as a whole; to the leaders,
\* these fields of a row that must be there.
Close(h) ==
    LET i == host[h].of
        r == [(IF inviteKind = "staff" THEN host[h].new ELSE row[i]) EXCEPT
                 !.accepted = TRUE, !.open = FALSE, !.expired = row[i].expired]
    IN
    /\ HostAt(h, "close")
    /\ HostDone(h)
    /\ row' = [row EXCEPT ![i] =
           IF IF inviteKind = "staff" THEN Fits(i, r) ELSE @.there THEN r ELSE @]
    /\ UNCHANGED <<inviteLabels, sent, access, inviteBounds, inviteTrace>>

-----------------------------------------------------------------------------
(* Managing invitations.                                                    *)

\* Somebody who is in is not invited, nor somebody with a pending invitation; to
\* the staff there is one invitation, whatever became of it.
SendInvitation ==
    LET r == [Blank EXCEPT !.there = TRUE, !.open = TRUE] IN
    /\ Acts
    /\ badge = 0 /\ sent < MaxInvites /\ Fits(sent + 1, r)
    /\ sent' = sent + 1
    /\ row' = [row EXCEPT ![sent + 1] = r]
    /\ UNCHANGED <<inviteLabels, access, host, inviteTrace>>

\* PATCH reads the row and changes is_active, accepted of a staff invitation, or
\* nothing that is modelled.  A leader's invitation is not changed once the person
\* leads there, or beside a pending one.
Change(h, i) ==
    /\ HostAt(h, "idle") /\ row[i].there
    /\ Acts
    /\ inviteKind = "leader" => badge = 0 /\ \A j \in Invites \ {i} : ~Pending(row[j])
    /\ \E r \in InviteRows :
           /\ \/ \E b \in BOOLEAN : r = [row[i] EXCEPT !.open = b]
              \/ inviteKind = "staff" /\ \E b \in BOOLEAN : r = [row[i] EXCEPT !.accepted = b]
           /\ host' = [host EXCEPT ![h] =
                  [at  |-> IF Pending(r) /\ ~Pending(row[i]) THEN "reopen" ELSE "save",
                   of  |-> i,
                   new |-> r]]
    /\ UNCHANGED <<inviteLabels, sent, row, access, inviteTrace>>

\* serializer.save() of the whole row as it was read, over whatever was saved
\* since.
SaveInvitation(h) ==
    LET i == host[h].of
        r == [host[h].new EXCEPT !.expired = row[i].expired]
    IN
    /\ host[h].at \in {"save", "reopen"}
    /\ HostDone(h)
    /\ IF Fits(i, r)
       THEN /\ row' = [row EXCEPT ![i] = r]
            /\ entries' = IF HostAt(h, "reopen") THEN [entries EXCEPT ![i] = 0] ELSE entries
            /\ marked' = IF r.accepted THEN marked \cup {i} ELSE marked
            /\ loose' = IF HostAt(h, "save") /\ Pending(r) /\ ~Pending(row[i])
                        THEN loose \cup {i} ELSE loose
       ELSE UNCHANGED <<row, entries, loose, marked>>
    /\ UNCHANGED <<inviteLabels, sent, access, inviteBounds, left>>

Withdraw(i) ==
    /\ row[i].there
    /\ Acts
    /\ row' = [row EXCEPT ![i].there = FALSE]
    /\ UNCHANGED <<inviteLabels, sent, access, host, inviteTrace>>

\* expires_at goes by.
Expire(i) ==
    /\ row[i].there /\ ~row[i].expired
    /\ Acts
    /\ row' = [row EXCEPT ![i].expired = TRUE]
    /\ UNCHANGED <<inviteLabels, sent, access, host, inviteTrace>>

-----------------------------------------------------------------------------
(* Managing people.                                                         *)

\* Staff and leaders are also added without an invitation.
AddDirectly ==
    /\ Acts
    /\ IssueBadge
    /\ UNCHANGED <<inviteLabels, sent, row, permitted, host, inviteTrace>>

OnTheWay == {host[h].of : h \in {x \in Hosts : Accepting(x)}}

\* What is remembered of a removal.
Leaves ==
    /\ left' = IF OnTheWay # {} \/ left = "crossed" THEN "crossed" ELSE "left"
    /\ loose' = loose \cup OnTheWay
    /\ UNCHANGED <<entries, marked>>

\* DELETE of a staff member reads the row, and removes what it does in order.
RemoveStaff(h) ==
    /\ inviteKind = "staff" /\ HostAt(h, "idle") /\ badge > 0
    /\ Acts
    /\ host' = [host EXCEPT ![h] = [at |-> "strip", of |-> badge, new |-> Blank]]
    /\ UNCHANGED <<inviteLabels, sent, row, access, inviteTrace>>

\* Mutation: the permissions stay.
StripsNothing == permitted

Stripped == FALSE

\* All permissions of the person on the event.
Strip(h) ==
    /\ HostAt(h, "strip")
    /\ HostGoes(h, "remove")
    /\ permitted' = Stripped
    /\ Leaves
    /\ UNCHANGED <<inviteLabels, sent, row, badge, badges, inviteBounds>>

\* The row that was read, if it is still there.
RemoveRow(h) ==
    /\ HostAt(h, "remove")
    /\ HostDone(h)
    /\ badge' = IF badge = host[h].of THEN 0 ELSE badge
    /\ Leaves
    /\ UNCHANGED <<inviteLabels, sent, row, badges, permitted, inviteBounds>>

\* DELETE of a leader.
RemoveLeader ==
    /\ inviteKind = "leader" /\ badge > 0
    /\ Acts
    /\ badge' = 0
    /\ Leaves
    /\ UNCHANGED <<inviteLabels, sent, row, badges, permitted, host>>

\* A process dies in the middle of a request.
HostDies(h) ==
    /\ host[h].at # "idle"
    /\ deaths < MaxDeaths /\ deaths' = deaths + 1
    /\ HostDone(h)
    /\ loose' = IF host[h].at \in {"permit", "close"} THEN loose \cup {host[h].of} ELSE loose
    /\ UNCHANGED <<inviteLabels, sent, row, access, acts, entries, marked, left>>

-----------------------------------------------------------------------------
InviteNext ==
    \/ \E h \in Hosts, i \in Invites : Accept(h, i) \/ Change(h, i)
    \/ \E h \in Hosts :
          \/ Look(h) \/ Enrol(h) \/ Permit(h) \/ Close(h)
          \/ SaveInvitation(h) \/ RemoveStaff(h) \/ Strip(h) \/ RemoveRow(h) \/ HostDies(h)
    \/ \E i \in Invites : Withdraw(i) \/ Expire(i)
    \/ SendInvitation \/ AddDirectly \/ RemoveLeader

InviteSpec == InviteInit /\ [][InviteNext]_inviteVars

-----------------------------------------------------------------------------
(* Properties.                                                              *)

\* Type invariant.
InviteTypeOK ==
    /\ inviteKind \in InviteKinds /\ template \in BOOLEAN
    /\ sent \in 0 .. MaxInvites
    /\ row \in [Invites -> InviteRows]
    /\ badges \in Nat /\ badge \in {0, badges} /\ permitted \in BOOLEAN
    /\ host \in [Hosts -> HostJobs]
    /\ acts \in 0 .. MaxActs /\ deaths \in 0 .. MaxDeaths
    /\ entries \in [Invites -> Nat]
    /\ loose \subseteq Invites /\ marked \subseteq Invites
    /\ left \in {"no", "left", "crossed"}

\* An invitation lets the person in once: who was removed does not come back by
\* the one that was accepted, unless a manager opens it again.  But an acceptance
\* that died before the last save leaves it open (staff_invite.py:105), and one
\* that was on its way during the removal goes on.
AdmitsOnce == \A i \in Invites \ loose : entries[i] <= 1

\* Who is not on the staff has no permissions, though they are rows of their own
\* and enough to be let through (permissions.py:478).  Unless an acceptance was
\* on its way when the person was removed.
NoStrayPermissions == badge = 0 /\ left # "crossed" => ~permitted

\* Who accepted and was never removed is in, with what the template gives:
\* whatever died or overlapped.  Unless a manager only wrote that they accepted.
AcceptedIsIn ==
    \A i \in Invites \ marked :
        row[i].there /\ row[i].accepted /\ left = "no" =>
            badge > 0 /\ (template => permitted)
=============================================================================
