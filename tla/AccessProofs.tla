---------------------------- MODULE AccessProofs ----------------------------
(***************************************************************************)
(* Proofs about Invitations and Memberships, the two ways of giving people *)
(* access, and about Presence, which of them the dashboard shows: for any  *)
(* number of processes, people, invitations, uses of the code, requests,   *)
(* connections and events, the safety properties of the run after_sale     *)
(* that are about them.                                                    *)
(***************************************************************************)
EXTENDS Invitations, Memberships, Presence, Integers, FiniteSetTheorems,
        SequenceTheorems, TLAPS

-----------------------------------------------------------------------------
(* Invitations: the inductive invariant.                                    *)

Enrolled(h) == host[h].at \in {"permit", "close"}
OfInvite(h) == Accepting(h) \/ host[h].at \in {"save", "reopen"}

\* Requests are about invitations that were sent, or rows of the person that
\* there are or were; only the template gives permissions, to staff.
HostInv ==
    /\ template => inviteKind = "staff"
    /\ permitted => template
    /\ \A h \in Hosts :
          /\ OfInvite(h) => host[h].of \in 1 .. sent
          /\ host[h].at \in {"strip", "remove"} => host[h].of \in 1 .. badges
          /\ host[h].at \in {"strip", "remove"} => inviteKind = "staff"
          /\ host[h].at = "permit" => template
          /\ host[h].at = "look" => inviteKind = "leader"

\* What was not sent is not there, and there is one invitation to the staff.
SentInv ==
    /\ \A i \in Invites : i > sent => ~row[i].there /\ entries[i] = 0
    /\ inviteKind = "staff" =>
          \A i, j \in Invites : row[i].there /\ row[j].there => i = j

\* An invitation that let the person in is closed or about to be, and when the
\* person is out again nobody is accepting it.
EntryInv ==
    \A i \in Invites \ loose : entries[i] > 0 =>
        /\ entries[i] = 1
        /\ badge = 0 => /\ ~Pending(row[i])
                        /\ \A h \in Hosts : Accepting(h) => host[h].of # i
        /\ Pending(row[i]) => \E h \in Hosts : Enrolled(h) /\ host[h].of = i

\* Permissions are given to who is in, and not between the two steps of a
\* removal of the row there is.
PermitInv ==
    left # "crossed" =>
        /\ permitted => badge > 0
        /\ \A h \in Hosts : host[h].at = "permit" => badge > 0
        /\ \A h \in Hosts : host[h].at = "remove" /\ host[h].of = badge =>
              ~permitted /\ \A x \in Hosts : host[x].at # "permit"

\* Before the first removal, who is about to be marked as accepted has it all.
ClosingInv ==
    left = "no" => \A h \in Hosts : host[h].at = "close" => badge > 0 /\ (template => permitted)

InviteInv ==
    /\ InviteTypeOK /\ HostInv /\ SentInv /\ EntryInv /\ PermitInv /\ ClosingInv
    /\ AcceptedIsIn

-----------------------------------------------------------------------------
(* Memberships: the inductive invariant.                                    *)

\* Users verified by the code, and those that are about to be.
Verifying == {g \in Agents : agent[g].at = "verify" /\ agent[g].by = "code"}

UseInv ==
    /\ IsFiniteSet(admitted) /\ IsFiniteSet(Verifying)
    /\ ~overspent =>
          /\ Cardinality(admitted) + Cardinality(Verifying) <= code.uses
          /\ code.uses <= code.limit
    /\ \A g \in Agents : agent[g].at = "spend" => agent[g].read.uses < agent[g].read.limit

\* Somebody who accepted is verified or about to be.
Settled(u) ==
    \/ u \in parted
    \/ member[u].verified
    \/ \E g \in Agents : agent[g].at = "verify" /\ agent[g].who = u /\ agent[g].by = "invite"

\* What a request knows of a membership is true as long as nobody is removed.
MemberInv ==
    /\ \A u \in People : member[u].id = 0 => member[u] = Stranger
    /\ \A g \in Agents :
          /\ agent[g].at \in {"spend", "verify", "mark"} =>
                /\ agent[g].id > 0
                /\ agent[g].who \in parted \/ member[agent[g].who].id = agent[g].id
          /\ agent[g].at = "mark" /\ agent[g].verified =>
                agent[g].who \in parted \/ member[agent[g].who].verified

\* What is, or is about to be, saved as accepted was settled.
SettledInv ==
    /\ \A u \in People : invited[u].row = "there" /\ invited[u].accepted => Settled(u)
    /\ \A g \in Agents :
          agent[g].at = "reinvite" /\ agent[g].read.accepted => Settled(agent[g].who)

MembershipInv == MembershipTypeOK /\ UseInv /\ MemberInv /\ SettledInv

-----------------------------------------------------------------------------
(* Invitations: types.                                                      *)

LEMMA InviteRowTypes ==
    ASSUME NEW r \in InviteRows
    PROVE  /\ Blank \in InviteRows
           /\ \A b \in BOOLEAN :
                 /\ [r EXCEPT !.open = b] \in InviteRows
                 /\ [r EXCEPT !.accepted = b] \in InviteRows
                 /\ [r EXCEPT !.there = b] \in InviteRows
                 /\ [r EXCEPT !.expired = b] \in InviteRows
                 /\ [r EXCEPT !.accepted = TRUE, !.open = FALSE, !.expired = b] \in InviteRows
                 /\ [Blank EXCEPT !.there = TRUE, !.open = TRUE] \in InviteRows
BY DEF Blank, InviteRows

LEMMA HostTypes ==
    ASSUME InviteTypeOK, NEW h \in Hosts
    PROVE  /\ Resting \in HostJobs /\ host[h] \in HostJobs /\ host[h].new \in InviteRows
           /\ \A at \in {"look", "enrol", "permit", "close", "save", "reopen", "strip", "remove"} :
                 /\ [host[h] EXCEPT !.at = at] \in HostJobs
                 /\ \A n \in Nat, r \in InviteRows :
                       [at |-> at, of |-> n, new |-> r] \in HostJobs
BY DEF InviteTypeOK, Resting, HostJobs, Blank, InviteRows

LEMMA OnTheWayType ==
    ASSUME HostInv, InviteTypeOK
    PROVE  OnTheWay \subseteq Invites
<1>1. sent \in 0 .. MaxInvites /\ MaxInvites \in Nat
  BY InviteBoundsAssumption DEF InviteTypeOK
<1> QED
  BY <1>1 DEF OnTheWay, HostInv, OfInvite, Invites

LEMMA InviteStepTypes ==
    ASSUME InviteTypeOK, HostInv, InviteNext
    PROVE  InviteTypeOK'
<1> USE DEF inviteLabels, access, inviteBounds, inviteTrace
<1>0. /\ MaxInvites \in Nat /\ MaxActs \in Nat /\ MaxDeaths \in Nat
      /\ sent \in 0 .. MaxInvites /\ row \in [Invites -> InviteRows]
      /\ host \in [Hosts -> HostJobs] /\ entries \in [Invites -> Nat]
  BY InviteBoundsAssumption DEF InviteTypeOK
<1>1. ASSUME Acts PROVE acts' \in 0 .. MaxActs /\ deaths' \in 0 .. MaxDeaths
  BY <1>0, <1>1 DEF Acts, InviteTypeOK
<1>2. ASSUME NEW h \in Hosts, HostDone(h) PROVE host' \in [Hosts -> HostJobs]
  BY <1>0, <1>2, HostTypes DEF HostDone
<1>3. ASSUME NEW h \in Hosts, NEW at \in {"enrol", "permit", "close", "remove"}, HostGoes(h, at)
      PROVE  host' \in [Hosts -> HostJobs]
  BY <1>0, <1>3, HostTypes DEF HostGoes
<1>4. ASSUME NEW h \in Hosts, OfInvite(h) PROVE host[h].of \in Invites
  BY <1>0, <1>4 DEF HostInv, Invites
<1>5. ASSUME NEW h \in Hosts, NEW i \in Invites, Accept(h, i) PROVE InviteTypeOK'
  <2>1. PICK at \in {"enrol", "look"} :
           host' = [host EXCEPT ![h] = [at |-> at, of |-> i, new |-> row[i]]]
    BY <1>5 DEF Accept
  <2>2. [at |-> at, of |-> i, new |-> row[i]] \in HostJobs
    BY <1>0 DEF HostJobs, Invites
  <2>3. host' \in [Hosts -> HostJobs]
    BY <1>0, <2>1, <2>2
  <2> QED
    BY <1>5, <2>3 DEF Accept, InviteTypeOK
<1>6. ASSUME NEW h \in Hosts, NEW i \in Invites, Change(h, i) PROVE InviteTypeOK'
  <2>1. PICK r \in InviteRows, at \in {"reopen", "save"} :
           host' = [host EXCEPT ![h] = [at |-> at, of |-> i, new |-> r]]
    BY <1>6 DEF Change
  <2>2. [at |-> at, of |-> i, new |-> r] \in HostJobs
    BY <1>0 DEF HostJobs, Invites
  <2>3. host' \in [Hosts -> HostJobs]
    BY <1>0, <2>1, <2>2
  <2> QED
    BY <1>1, <1>6, <2>3 DEF Change, InviteTypeOK
<1>7. ASSUME NEW h \in Hosts, Look(h) PROVE InviteTypeOK'
  BY <1>3, <1>7 DEF Look, InviteTypeOK
<1>8. ASSUME NEW h \in Hosts, Enrol(h) PROVE InviteTypeOK'
  <2>1. host' \in [Hosts -> HostJobs]
    BY <1>2, <1>3, <1>8 DEF Enrol, NextStep
  <2>2. badges' \in Nat /\ badge' \in {0, badges'}
    BY <1>8 DEF Enrol, IssueBadge, InviteTypeOK
  <2>3. entries' \in [Invites -> Nat]
    BY <1>0, <1>4, <1>8 DEF Enrol, HostAt, OfInvite, Accepting
  <2> QED
    BY <1>8, <2>1, <2>2, <2>3 DEF Enrol, InviteTypeOK
<1>9. ASSUME NEW h \in Hosts, Permit(h) PROVE InviteTypeOK'
  BY <1>3, <1>9 DEF Permit, InviteTypeOK
<1>10. ASSUME NEW h \in Hosts, Close(h) PROVE InviteTypeOK'
  <2>1. host[h].of \in Invites /\ host[h].new \in InviteRows
    BY <1>0, <1>4, <1>10, HostTypes DEF Close, HostAt, OfInvite, Accepting
  <2>2. PICK old \in InviteRows :
           row' = row \/ row' = [row EXCEPT ![host[h].of] =
                            [old EXCEPT !.accepted = TRUE, !.open = FALSE,
                                        !.expired = row[host[h].of].expired]]
    <3>1. CASE inviteKind = "staff"
      BY <1>0, <1>10, <2>1, <3>1 DEF Close
    <3>2. CASE inviteKind # "staff"
      BY <1>0, <1>10, <2>1, <3>2 DEF Close
    <3> QED
      BY <3>1, <3>2
  <2>3. row[host[h].of].expired \in BOOLEAN
    BY <1>0, <2>1 DEF InviteRows
  <2>4. row' \in [Invites -> InviteRows]
    BY <1>0, <2>1, <2>2, <2>3, InviteRowTypes
  <2> QED
    BY <1>2, <1>10, <2>4 DEF Close, InviteTypeOK
<1>11. ASSUME NEW h \in Hosts, SaveInvitation(h) PROVE InviteTypeOK'
  <2>1. host[h].of \in Invites /\ host[h].new \in InviteRows
    BY <1>0, <1>4, <1>11, HostTypes DEF SaveInvitation, OfInvite
  <2>2. row[host[h].of].expired \in BOOLEAN
    BY <1>0, <2>1 DEF InviteRows
  <2>3. row' \in [Invites -> InviteRows]
    <3>1. [host[h].new EXCEPT !.expired = row[host[h].of].expired] \in InviteRows
      BY <2>1, <2>2, InviteRowTypes
    <3> QED
      BY <1>0, <1>11, <3>1 DEF SaveInvitation
  <2>4. entries' \in [Invites -> Nat]
    BY <1>0, <1>11 DEF SaveInvitation
  <2>5. loose' \subseteq Invites /\ marked' \subseteq Invites
    BY <1>11, <2>1 DEF SaveInvitation, InviteTypeOK
  <2> QED
    BY <1>2, <1>11, <2>3, <2>4, <2>5 DEF SaveInvitation, InviteTypeOK
<1>12. ASSUME NEW h \in Hosts, RemoveStaff(h) PROVE InviteTypeOK'
  <2>1. badge \in Nat
    BY DEF InviteTypeOK
  <2>2. host' \in [Hosts -> HostJobs]
    BY <1>0, <1>12, <2>1, HostTypes, InviteRowTypes DEF RemoveStaff, Resting, HostJobs
  <2> QED
    BY <1>1, <1>12, <2>2 DEF RemoveStaff, InviteTypeOK
<1>13. ASSUME Leaves PROVE /\ entries' \in [Invites -> Nat]
                           /\ loose' \subseteq Invites /\ marked' \subseteq Invites
                           /\ left' \in {"no", "left", "crossed"}
  BY <1>13, OnTheWayType DEF Leaves, InviteTypeOK
<1>14. ASSUME NEW h \in Hosts, Strip(h) PROVE InviteTypeOK'
  BY <1>3, <1>13, <1>14 DEF Strip, Stripped, InviteTypeOK
<1>15. ASSUME NEW h \in Hosts, RemoveRow(h) PROVE InviteTypeOK'
  BY <1>2, <1>13, <1>15 DEF RemoveRow, InviteTypeOK
<1>16. ASSUME NEW h \in Hosts, HostDies(h) PROVE InviteTypeOK'
  <2>1. loose' \subseteq Invites
    BY <1>4, <1>16 DEF HostDies, OfInvite, Accepting, InviteTypeOK
  <2>2. deaths' \in 0 .. MaxDeaths
    BY <1>0, <1>16 DEF HostDies, InviteTypeOK
  <2> QED
    BY <1>2, <1>16, <2>1, <2>2 DEF HostDies, InviteTypeOK
<1>17. ASSUME NEW i \in Invites, Withdraw(i) PROVE InviteTypeOK'
  <2>1. row' \in [Invites -> InviteRows]
    BY <1>0, <1>17, InviteRowTypes DEF Withdraw
  <2> QED
    BY <1>1, <1>17, <2>1 DEF Withdraw, InviteTypeOK
<1>18. ASSUME NEW i \in Invites, Expire(i) PROVE InviteTypeOK'
  <2>1. row' \in [Invites -> InviteRows]
    BY <1>0, <1>18, InviteRowTypes DEF Expire
  <2> QED
    BY <1>1, <1>18, <2>1 DEF Expire, InviteTypeOK
<1>19. ASSUME SendInvitation PROVE InviteTypeOK'
  <2>1. [Blank EXCEPT !.there = TRUE, !.open = TRUE] \in InviteRows
    BY DEF Blank, InviteRows
  <2>2. row' \in [Invites -> InviteRows]
    BY <1>0, <1>19, <2>1 DEF SendInvitation
  <2>3. sent' \in 0 .. MaxInvites
    BY <1>0, <1>19 DEF SendInvitation
  <2> QED
    BY <1>1, <1>19, <2>2, <2>3 DEF SendInvitation, InviteTypeOK
<1>20. ASSUME AddDirectly PROVE InviteTypeOK'
  BY <1>1, <1>20 DEF AddDirectly, IssueBadge, InviteTypeOK
<1>21. ASSUME RemoveLeader PROVE InviteTypeOK'
  BY <1>1, <1>13, <1>21 DEF RemoveLeader, InviteTypeOK
<1> QED
  BY <1>5, <1>6, <1>7, <1>8, <1>9, <1>10, <1>11, <1>12, <1>14, <1>15, <1>16, <1>17, <1>18,
     <1>19, <1>20, <1>21 DEF InviteNext

LEMMA StepAccept ==
    ASSUME InviteInv, NEW h \in Hosts, NEW i \in Invites, Accept(h, i)
    PROVE  InviteInv'
<1> USE DEF inviteLabels, access, inviteBounds, inviteTrace
<1>1. InviteTypeOK'
  BY InviteStepTypes DEF InviteInv, InviteNext
<1>2. HostInv'
  <2>1. i \in 1 .. sent
    <3>1. row[i].there /\ sent \in Nat /\ i \in Nat /\ i >= 1
      BY InviteBoundsAssumption DEF InviteInv, InviteTypeOK, Accept, Valid, Invites
    <3> QED
      BY <3>1 DEF InviteInv, SentInv
  <2>2. \A x \in Hosts \ {h} : host'[x] = host[x]
    BY DEF Accept, InviteInv, InviteTypeOK
  <2>3. /\ host'[h].of = i
        /\ host'[h].at \in {"enrol", "look"}
        /\ host'[h].at = "look" => inviteKind = "leader"
    BY InviteKindsAssumption DEF Accept, InviteInv, InviteTypeOK
  <2>4. UNCHANGED <<inviteKind, template, sent, badges, permitted>>
    BY DEF Accept
  <2> QED
    BY <2>1, <2>2, <2>3, <2>4 DEF InviteInv, HostInv, OfInvite, Accepting
<1>3. SentInv'
  BY DEF InviteInv, SentInv, HostInv, InviteTypeOK, OfInvite, Accepting, InviteRows, HostJobs, Invites, Accept, HostAt, Valid, Pending
<1>4. EntryInv'
  BY DEF InviteInv, EntryInv, SentInv, HostInv, InviteTypeOK, OfInvite, Accepting, Enrolled, InviteRows, HostJobs, Invites, Accept, HostAt, Valid, Pending
<1>5. PermitInv'
  BY DEF InviteInv, PermitInv, HostInv, InviteTypeOK, OfInvite, Accepting, HostJobs, Accept, HostAt, Valid, Pending
<1>6. ClosingInv'
  BY DEF InviteInv, ClosingInv, PermitInv, HostInv, InviteTypeOK, HostJobs, Accept, HostAt, Valid, Pending
<1>7. AcceptedIsIn'
  BY DEF InviteInv, AcceptedIsIn, ClosingInv, HostInv, SentInv, InviteTypeOK, HostJobs, InviteRows, Invites, Accept, HostAt, Valid, Pending
<1> QED
  BY <1>1, <1>2, <1>3, <1>4, <1>5, <1>6, <1>7 DEF InviteInv

LEMMA StepLook ==
    ASSUME InviteInv, NEW h \in Hosts, Look(h)
    PROVE  InviteInv'
<1> USE DEF inviteLabels, access, inviteBounds, inviteTrace
<1>1. InviteTypeOK'
  BY InviteStepTypes DEF InviteInv, InviteNext
<1>2. HostInv'
  BY DEF InviteInv, HostInv, InviteTypeOK, HostJobs, OfInvite, Accepting, Invites, Look, HostAt, HostGoes
<1>3. SentInv'
  BY DEF InviteInv, SentInv, HostInv, InviteTypeOK, OfInvite, Accepting, InviteRows, HostJobs, Invites, Look, HostAt, HostGoes
<1>4. EntryInv'
  BY DEF InviteInv, EntryInv, SentInv, HostInv, InviteTypeOK, OfInvite, Accepting, Enrolled, InviteRows, HostJobs, Invites, Look, HostAt, HostGoes
<1>5. PermitInv'
  BY DEF InviteInv, PermitInv, HostInv, InviteTypeOK, OfInvite, Accepting, HostJobs, Look, HostAt, HostGoes
<1>6. ClosingInv'
  BY DEF InviteInv, ClosingInv, PermitInv, HostInv, InviteTypeOK, HostJobs, Look, HostAt, HostGoes
<1>7. AcceptedIsIn'
  BY DEF InviteInv, AcceptedIsIn, ClosingInv, HostInv, SentInv, InviteTypeOK, HostJobs, InviteRows, Invites, Look, HostAt, HostGoes
<1> QED
  BY <1>1, <1>2, <1>3, <1>4, <1>5, <1>6, <1>7 DEF InviteInv

LEMMA StepEnrol ==
    ASSUME InviteInv, NEW h \in Hosts, Enrol(h)
    PROVE  InviteInv'
<1> USE DEF inviteLabels, access, inviteBounds, inviteTrace
<1>1. InviteTypeOK'
  BY InviteStepTypes DEF InviteInv, InviteNext
<1>2. HostInv'
  BY DEF InviteInv, HostInv, InviteTypeOK, HostJobs, OfInvite, Accepting, Invites, Enrol, HostAt, HostGoes, HostDone, IssueBadge, NextStep, Resting
<1>3. SentInv'
  <2>1. host[h].of \in 1 .. sent /\ sent \in Nat /\ UNCHANGED <<row, inviteKind, sent>>
    BY DEF InviteInv, HostInv, InviteTypeOK, OfInvite, Accepting, Enrol, HostAt
  <2>2. \A i \in Invites : i > sent => entries'[i] = entries[i]
    BY <2>1 DEF InviteInv, InviteTypeOK, Enrol
  <2> QED
    BY <2>1, <2>2 DEF InviteInv, SentInv
<1>4. EntryInv'
  <2>0. /\ host \in [Hosts -> HostJobs] /\ entries \in [Invites -> Nat] /\ badges \in Nat
        /\ host[h].at = "enrol" /\ UNCHANGED <<row, loose>>
    BY DEF InviteInv, InviteTypeOK, Enrol, HostAt
  <2>1. CASE badge > 0 /\ UNCHANGED <<badge, entries>> /\ host' = [host EXCEPT ![h] = Resting]
    <3>1. \A x \in Hosts : host'[x] = (IF x = h THEN Resting ELSE host[x])
      BY <2>0, <2>1
    <3>2. \A x \in Hosts : Enrolled(x) => Enrolled(x)' /\ host'[x].of = host[x].of
      BY <2>0, <3>1 DEF Enrolled
    <3>3. \A x \in Hosts : Accepting(x)' => Accepting(x) /\ host'[x].of = host[x].of
      BY <3>1 DEF Accepting, Resting
    <3> QED
      BY <2>0, <2>1, <3>2, <3>3 DEF InviteInv, EntryInv
  <2>2. CASE /\ badge = 0 /\ badge' = badges + 1
             /\ entries' = [entries EXCEPT ![host[h].of] = @ + 1]
             /\ host' = [host EXCEPT ![h].at = NextStep]
    <3>1. /\ \A x \in Hosts : x # h => host'[x] = host[x]
          /\ Enrolled(h)' /\ host'[h].of = host[h].of
      BY <2>0, <2>2 DEF HostJobs, Enrolled, NextStep
    <3>2. badge' > 0
      BY <2>0, <2>2
    <3> SUFFICES ASSUME NEW i \in Invites \ loose, entries'[i] > 0
                 PROVE  /\ entries'[i] = 1
                        /\ Pending(row[i]) => \E x \in Hosts : Enrolled(x)' /\ host'[x].of = i
      BY <2>0, <3>2 DEF EntryInv
    <3>3. CASE i = host[h].of
      <4>1. entries[i] = 0
        BY <2>0, <2>2, <3>3 DEF InviteInv, EntryInv, Accepting
      <4> QED
        BY <2>0, <2>2, <3>1, <3>3, <4>1
    <3>4. CASE i # host[h].of
      BY <2>0, <2>2, <3>4 DEF InviteInv, EntryInv
    <3> QED
      BY <3>3, <3>4
  <2> QED
    BY <2>1, <2>2 DEF Enrol, IssueBadge, HostGoes, HostDone
<1>5. PermitInv'
  BY DEF InviteInv, PermitInv, HostInv, InviteTypeOK, OfInvite, Accepting, HostJobs, Enrol, HostAt, HostGoes, HostDone, IssueBadge, NextStep, Resting
<1>6. ClosingInv'
  BY DEF InviteInv, ClosingInv, PermitInv, HostInv, InviteTypeOK, HostJobs, Enrol, HostAt, HostGoes, HostDone, IssueBadge, NextStep, Resting
<1>7. AcceptedIsIn'
  BY DEF InviteInv, AcceptedIsIn, ClosingInv, HostInv, SentInv, InviteTypeOK, HostJobs, InviteRows, Invites, Enrol, HostAt, HostGoes, HostDone, IssueBadge, NextStep, Resting
<1> QED
  BY <1>1, <1>2, <1>3, <1>4, <1>5, <1>6, <1>7 DEF InviteInv

LEMMA StepPermit ==
    ASSUME InviteInv, NEW h \in Hosts, Permit(h)
    PROVE  InviteInv'
<1> USE DEF inviteLabels, access, inviteBounds, inviteTrace
<1>1. InviteTypeOK'
  BY InviteStepTypes DEF InviteInv, InviteNext
<1>2. HostInv'
  BY DEF InviteInv, HostInv, InviteTypeOK, HostJobs, OfInvite, Accepting, Invites, Permit, HostAt, HostGoes
<1>3. SentInv'
  BY DEF InviteInv, SentInv, HostInv, InviteTypeOK, OfInvite, Accepting, InviteRows, HostJobs, Invites, Permit, HostAt, HostGoes
<1>4. EntryInv'
  BY DEF InviteInv, EntryInv, SentInv, HostInv, InviteTypeOK, OfInvite, Accepting, Enrolled, InviteRows, HostJobs, Invites, Permit, HostAt, HostGoes
<1>5. PermitInv'
  BY DEF InviteInv, PermitInv, HostInv, InviteTypeOK, OfInvite, Accepting, HostJobs, Permit, HostAt, HostGoes
<1>6. ClosingInv'
  BY DEF InviteInv, ClosingInv, PermitInv, HostInv, InviteTypeOK, HostJobs, Permit, HostAt, HostGoes
<1>7. AcceptedIsIn'
  BY DEF InviteInv, AcceptedIsIn, ClosingInv, HostInv, SentInv, InviteTypeOK, HostJobs, InviteRows, Invites, Permit, HostAt, HostGoes
<1> QED
  BY <1>1, <1>2, <1>3, <1>4, <1>5, <1>6, <1>7 DEF InviteInv

LEMMA StepClose ==
    ASSUME InviteInv, NEW h \in Hosts, Close(h)
    PROVE  InviteInv'
<1> USE DEF inviteLabels, access, inviteBounds, inviteTrace
<1>1. InviteTypeOK'
  BY InviteStepTypes DEF InviteInv, InviteNext
<1>2. HostInv'
  BY DEF InviteInv, HostInv, InviteTypeOK, HostJobs, OfInvite, Accepting, Invites, Close, HostAt, HostDone, Resting, Fits, Pending
<1>3. SentInv'
  BY DEF InviteInv, SentInv, HostInv, InviteTypeOK, OfInvite, Accepting, InviteRows, HostJobs, Invites, Close, HostAt, HostDone, Resting, Fits, Pending
<1>4. EntryInv'
  BY DEF InviteInv, EntryInv, SentInv, HostInv, InviteTypeOK, OfInvite, Accepting, Enrolled, InviteRows, HostJobs, Invites, Close, HostAt, HostDone, Resting, Fits, Pending
<1>5. PermitInv'
  BY DEF InviteInv, PermitInv, HostInv, InviteTypeOK, OfInvite, Accepting, HostJobs, Close, HostAt, HostDone, Resting, Fits, Pending
<1>6. ClosingInv'
  BY DEF InviteInv, ClosingInv, PermitInv, HostInv, InviteTypeOK, HostJobs, Close, HostAt, HostDone, Resting, Fits, Pending
<1>7. AcceptedIsIn'
  BY DEF InviteInv, AcceptedIsIn, ClosingInv, HostInv, SentInv, InviteTypeOK, HostJobs, InviteRows, Invites, Close, HostAt, HostDone, Resting, Fits, Pending
<1> QED
  BY <1>1, <1>2, <1>3, <1>4, <1>5, <1>6, <1>7 DEF InviteInv

LEMMA StepSendInvitation ==
    ASSUME InviteInv, SendInvitation
    PROVE  InviteInv'
<1> USE DEF inviteLabels, access, inviteBounds, inviteTrace
<1>1. InviteTypeOK'
  BY InviteStepTypes DEF InviteInv, InviteNext
<1>2. HostInv'
  BY DEF InviteInv, HostInv, InviteTypeOK, HostJobs, OfInvite, Accepting, Invites, SendInvitation, Acts, Blank, Fits, Pending
<1>3. SentInv'
  BY DEF InviteInv, SentInv, HostInv, InviteTypeOK, OfInvite, Accepting, InviteRows, HostJobs, Invites, SendInvitation, Acts, Blank, Fits, Pending
<1>4. EntryInv'
  BY DEF InviteInv, EntryInv, SentInv, HostInv, InviteTypeOK, OfInvite, Accepting, Enrolled, InviteRows, HostJobs, Invites, SendInvitation, Acts, Blank, Fits, Pending
<1>5. PermitInv'
  BY DEF InviteInv, PermitInv, HostInv, InviteTypeOK, OfInvite, Accepting, HostJobs, SendInvitation, Acts, Blank, Fits, Pending
<1>6. ClosingInv'
  BY DEF InviteInv, ClosingInv, PermitInv, HostInv, InviteTypeOK, HostJobs, SendInvitation, Acts, Blank, Fits, Pending
<1>7. AcceptedIsIn'
  BY DEF InviteInv, AcceptedIsIn, ClosingInv, HostInv, SentInv, InviteTypeOK, HostJobs, InviteRows, Invites, SendInvitation, Acts, Blank, Fits, Pending
<1> QED
  BY <1>1, <1>2, <1>3, <1>4, <1>5, <1>6, <1>7 DEF InviteInv

LEMMA StepChange ==
    ASSUME InviteInv, NEW h \in Hosts, NEW i \in Invites, Change(h, i)
    PROVE  InviteInv'
<1> USE DEF inviteLabels, access, inviteBounds, inviteTrace
<1>1. InviteTypeOK'
  BY InviteStepTypes DEF InviteInv, InviteNext
<1>2. HostInv'
  BY DEF InviteInv, SentInv, HostInv, InviteTypeOK, HostJobs, OfInvite, Accepting, Invites, Change, HostAt, Acts, Pending
<1>3. SentInv'
  BY DEF InviteInv, SentInv, HostInv, InviteTypeOK, OfInvite, Accepting, InviteRows, HostJobs, Invites, Change, HostAt, Acts, Pending
<1>4. EntryInv'
  BY DEF InviteInv, EntryInv, SentInv, HostInv, InviteTypeOK, OfInvite, Accepting, Enrolled, InviteRows, HostJobs, Invites, Change, HostAt, Acts, Pending
<1>5. PermitInv'
  BY DEF InviteInv, PermitInv, HostInv, InviteTypeOK, OfInvite, Accepting, HostJobs, Change, HostAt, Acts, Pending
<1>6. ClosingInv'
  BY DEF InviteInv, ClosingInv, PermitInv, HostInv, InviteTypeOK, HostJobs, Change, HostAt, Acts, Pending
<1>7. AcceptedIsIn'
  BY DEF InviteInv, AcceptedIsIn, ClosingInv, HostInv, SentInv, InviteTypeOK, HostJobs, InviteRows, Invites, Change, HostAt, Acts, Pending
<1> QED
  BY <1>1, <1>2, <1>3, <1>4, <1>5, <1>6, <1>7 DEF InviteInv

LEMMA StepSaveInvitation ==
    ASSUME InviteInv, NEW h \in Hosts, SaveInvitation(h)
    PROVE  InviteInv'
<1> USE DEF inviteLabels, access, inviteBounds, inviteTrace
<1>1. InviteTypeOK'
  BY InviteStepTypes DEF InviteInv, InviteNext
<1>2. HostInv'
  BY DEF InviteInv, HostInv, InviteTypeOK, HostJobs, OfInvite, Accepting, Invites, SaveInvitation, HostAt, HostDone, Resting, Fits, Pending
<1>3. SentInv'
  <2>1. /\ host[h].of \in 1 .. sent /\ sent \in Nat /\ host[h].of \in Invites
        /\ UNCHANGED <<inviteKind, sent>>
        /\ entries \in [Invites -> Nat] /\ row \in [Invites -> InviteRows]
    BY InviteBoundsAssumption
    DEF InviteInv, HostInv, InviteTypeOK, OfInvite, SaveInvitation, Invites
  <2>2. CASE UNCHANGED <<row, entries>>
    BY <2>1, <2>2 DEF InviteInv, SentInv
  <2>3. CASE \E r : /\ Fits(host[h].of, r) /\ row' = [row EXCEPT ![host[h].of] = r]
                    /\ entries' \in {entries, [entries EXCEPT ![host[h].of] = 0]}
    BY <2>1, <2>3 DEF InviteInv, SentInv, Fits
  <2> QED
    BY <2>2, <2>3 DEF SaveInvitation
<1>4. EntryInv'
  <2>0. /\ host \in [Hosts -> HostJobs] /\ entries \in [Invites -> Nat] /\ badge' = badge
        /\ row \in [Invites -> InviteRows] /\ host[h].of \in Invites
        /\ host[h].at \in {"save", "reopen"} /\ host' = [host EXCEPT ![h] = Resting]
    BY InviteBoundsAssumption
    DEF InviteInv, HostInv, InviteTypeOK, OfInvite, SaveInvitation, Invites, HostDone
  <2>1. \A x \in Hosts : host'[x] = (IF x = h THEN Resting ELSE host[x])
    BY <2>0
  <2>2. \A x \in Hosts : Enrolled(x) => Enrolled(x)' /\ host'[x].of = host[x].of
    BY <2>0, <2>1 DEF Enrolled
  <2>3. \A x \in Hosts : Accepting(x)' => Accepting(x) /\ host'[x].of = host[x].of
    BY <2>1 DEF Accepting, Resting
  <2>4. ASSUME NEW i \in Invites \ loose', entries'[i] > 0
        PROVE  /\ entries[i] = entries'[i] /\ i \notin loose
               /\ Pending(row'[i]) => Pending(row[i])
    <3>1. CASE UNCHANGED <<row, entries, loose>>
      BY <2>4, <3>1
    <3>2. CASE ~UNCHANGED <<row, entries, loose>>
      <4>1. PICK r :
               /\ row' = [row EXCEPT ![host[h].of] = r]
               /\ entries' = IF host[h].at = "reopen" THEN [entries EXCEPT ![host[h].of] = 0]
                                                       ELSE entries
               /\ loose' = IF host[h].at = "save" /\ Pending(r) /\ ~Pending(row[host[h].of])
                            THEN loose \cup {host[h].of} ELSE loose
        BY <3>2 DEF SaveInvitation, HostAt
      <4>2. CASE i # host[h].of
        BY <2>0, <2>4, <4>1, <4>2
      <4>3. CASE i = host[h].of
        BY <2>0, <2>4, <4>1, <4>3
      <4> QED
        BY <4>2, <4>3
    <3> QED
      BY <3>1, <3>2
  <2> QED
    BY <2>0, <2>2, <2>3, <2>4 DEF InviteInv, EntryInv
<1>5. PermitInv'
  BY DEF InviteInv, PermitInv, HostInv, InviteTypeOK, OfInvite, Accepting, HostJobs, SaveInvitation, HostAt, HostDone, Resting, Fits, Pending
<1>6. ClosingInv'
  BY DEF InviteInv, ClosingInv, PermitInv, HostInv, InviteTypeOK, HostJobs, SaveInvitation, HostAt, HostDone, Resting, Fits, Pending
<1>7. AcceptedIsIn'
  BY DEF InviteInv, AcceptedIsIn, ClosingInv, HostInv, SentInv, InviteTypeOK, HostJobs, InviteRows, Invites, SaveInvitation, HostAt, HostDone, Resting, Fits, Pending
<1> QED
  BY <1>1, <1>2, <1>3, <1>4, <1>5, <1>6, <1>7 DEF InviteInv

LEMMA StepWithdraw ==
    ASSUME InviteInv, NEW i \in Invites, Withdraw(i)
    PROVE  InviteInv'
<1> USE DEF inviteLabels, access, inviteBounds, inviteTrace
<1>1. InviteTypeOK'
  BY InviteStepTypes DEF InviteInv, InviteNext
<1>2. HostInv'
  BY DEF InviteInv, HostInv, InviteTypeOK, HostJobs, OfInvite, Accepting, Invites, Withdraw, Acts, Pending
<1>3. SentInv'
  BY DEF InviteInv, SentInv, HostInv, InviteTypeOK, OfInvite, Accepting, InviteRows, HostJobs, Invites, Withdraw, Acts, Pending
<1>4. EntryInv'
  BY DEF InviteInv, EntryInv, SentInv, HostInv, InviteTypeOK, OfInvite, Accepting, Enrolled, InviteRows, HostJobs, Invites, Withdraw, Acts, Pending
<1>5. PermitInv'
  BY DEF InviteInv, PermitInv, HostInv, InviteTypeOK, OfInvite, Accepting, HostJobs, Withdraw, Acts, Pending
<1>6. ClosingInv'
  BY DEF InviteInv, ClosingInv, PermitInv, HostInv, InviteTypeOK, HostJobs, Withdraw, Acts, Pending
<1>7. AcceptedIsIn'
  BY DEF InviteInv, AcceptedIsIn, ClosingInv, HostInv, SentInv, InviteTypeOK, HostJobs, InviteRows, Invites, Withdraw, Acts, Pending
<1> QED
  BY <1>1, <1>2, <1>3, <1>4, <1>5, <1>6, <1>7 DEF InviteInv

LEMMA StepExpire ==
    ASSUME InviteInv, NEW i \in Invites, Expire(i)
    PROVE  InviteInv'
<1> USE DEF inviteLabels, access, inviteBounds, inviteTrace
<1>1. InviteTypeOK'
  BY InviteStepTypes DEF InviteInv, InviteNext
<1>2. HostInv'
  BY DEF InviteInv, HostInv, InviteTypeOK, HostJobs, OfInvite, Accepting, Invites, Expire, Acts, Pending
<1>3. SentInv'
  BY DEF InviteInv, SentInv, HostInv, InviteTypeOK, OfInvite, Accepting, InviteRows, HostJobs, Invites, Expire, Acts, Pending
<1>4. EntryInv'
  BY DEF InviteInv, EntryInv, SentInv, HostInv, InviteTypeOK, OfInvite, Accepting, Enrolled, InviteRows, HostJobs, Invites, Expire, Acts, Pending
<1>5. PermitInv'
  BY DEF InviteInv, PermitInv, HostInv, InviteTypeOK, OfInvite, Accepting, HostJobs, Expire, Acts, Pending
<1>6. ClosingInv'
  BY DEF InviteInv, ClosingInv, PermitInv, HostInv, InviteTypeOK, HostJobs, Expire, Acts, Pending
<1>7. AcceptedIsIn'
  BY DEF InviteInv, AcceptedIsIn, ClosingInv, HostInv, SentInv, InviteTypeOK, HostJobs, InviteRows, Invites, Expire, Acts, Pending
<1> QED
  BY <1>1, <1>2, <1>3, <1>4, <1>5, <1>6, <1>7 DEF InviteInv

LEMMA StepAddDirectly ==
    ASSUME InviteInv, AddDirectly
    PROVE  InviteInv'
<1> USE DEF inviteLabels, access, inviteBounds, inviteTrace
<1>1. InviteTypeOK'
  BY InviteStepTypes DEF InviteInv, InviteNext
<1>2. HostInv'
  BY DEF InviteInv, HostInv, InviteTypeOK, HostJobs, OfInvite, Accepting, Invites, AddDirectly, Acts, IssueBadge
<1>3. SentInv'
  BY DEF InviteInv, SentInv, HostInv, InviteTypeOK, OfInvite, Accepting, InviteRows, HostJobs, Invites, AddDirectly, Acts, IssueBadge
<1>4. EntryInv'
  BY DEF InviteInv, EntryInv, SentInv, HostInv, InviteTypeOK, OfInvite, Accepting, Enrolled, InviteRows, HostJobs, Invites, AddDirectly, Acts, IssueBadge
<1>5. PermitInv'
  BY DEF InviteInv, PermitInv, HostInv, InviteTypeOK, OfInvite, Accepting, HostJobs, AddDirectly, Acts, IssueBadge
<1>6. ClosingInv'
  BY DEF InviteInv, ClosingInv, PermitInv, HostInv, InviteTypeOK, HostJobs, AddDirectly, Acts, IssueBadge
<1>7. AcceptedIsIn'
  BY DEF InviteInv, AcceptedIsIn, ClosingInv, HostInv, SentInv, InviteTypeOK, HostJobs, InviteRows, Invites, AddDirectly, Acts, IssueBadge
<1> QED
  BY <1>1, <1>2, <1>3, <1>4, <1>5, <1>6, <1>7 DEF InviteInv

LEMMA StepRemoveStaff ==
    ASSUME InviteInv, NEW h \in Hosts, RemoveStaff(h)
    PROVE  InviteInv'
<1> USE DEF inviteLabels, access, inviteBounds, inviteTrace
<1>1. InviteTypeOK'
  BY InviteStepTypes DEF InviteInv, InviteNext
<1>2. HostInv'
  BY DEF InviteInv, HostInv, InviteTypeOK, HostJobs, OfInvite, Accepting, Invites, RemoveStaff, HostAt, Acts
<1>3. SentInv'
  BY DEF InviteInv, SentInv, HostInv, InviteTypeOK, OfInvite, Accepting, InviteRows, HostJobs, Invites, RemoveStaff, HostAt, Acts
<1>4. EntryInv'
  BY DEF InviteInv, EntryInv, SentInv, HostInv, InviteTypeOK, OfInvite, Accepting, Enrolled, InviteRows, HostJobs, Invites, RemoveStaff, HostAt, Acts
<1>5. PermitInv'
  BY DEF InviteInv, PermitInv, HostInv, InviteTypeOK, OfInvite, Accepting, HostJobs, RemoveStaff, HostAt, Acts
<1>6. ClosingInv'
  BY DEF InviteInv, ClosingInv, PermitInv, HostInv, InviteTypeOK, HostJobs, RemoveStaff, HostAt, Acts
<1>7. AcceptedIsIn'
  BY DEF InviteInv, AcceptedIsIn, ClosingInv, HostInv, SentInv, InviteTypeOK, HostJobs, InviteRows, Invites, RemoveStaff, HostAt, Acts
<1> QED
  BY <1>1, <1>2, <1>3, <1>4, <1>5, <1>6, <1>7 DEF InviteInv

LEMMA StepStrip ==
    ASSUME InviteInv, NEW h \in Hosts, Strip(h)
    PROVE  InviteInv'
<1> USE DEF inviteLabels, access, inviteBounds, inviteTrace
<1>1. InviteTypeOK'
  BY InviteStepTypes DEF InviteInv, InviteNext
<1>2. HostInv'
  BY DEF InviteInv, HostInv, InviteTypeOK, HostJobs, OfInvite, Accepting, Invites, Strip, HostAt, HostGoes, Stripped, Leaves, OnTheWay
<1>3. SentInv'
  BY DEF InviteInv, SentInv, HostInv, InviteTypeOK, OfInvite, Accepting, InviteRows, HostJobs, Invites, Strip, HostAt, HostGoes, Stripped, Leaves, OnTheWay
<1>4. EntryInv'
  BY DEF InviteInv, EntryInv, SentInv, HostInv, InviteTypeOK, OfInvite, Accepting, Enrolled, InviteRows, HostJobs, Invites, Strip, HostAt, HostGoes, Stripped, Leaves, OnTheWay
<1>5. PermitInv'
  <2> SUFFICES ASSUME left' # "crossed" PROVE PermitInv'
    BY DEF PermitInv
  <2>1. /\ OnTheWay = {} /\ left # "crossed" /\ permitted' = FALSE /\ badge' = badge
        /\ host' = [host EXCEPT ![h].at = "remove"] /\ host \in [Hosts -> HostJobs]
    BY DEF InviteInv, InviteTypeOK, Strip, HostGoes, Stripped, Leaves
  <2>2. \A x \in Hosts : host[x].at # "permit"
    BY <2>1 DEF OnTheWay, Accepting
  <2>3. \A x \in Hosts : host'[x].at # "permit"
    BY <2>1, <2>2 DEF HostJobs
  <2> QED
    BY <2>1, <2>3 DEF PermitInv
<1>6. ClosingInv'
  BY DEF InviteInv, ClosingInv, PermitInv, HostInv, InviteTypeOK, HostJobs, Strip, HostAt, HostGoes, Stripped, Leaves, OnTheWay
<1>7. AcceptedIsIn'
  BY DEF InviteInv, AcceptedIsIn, ClosingInv, HostInv, SentInv, InviteTypeOK, HostJobs, InviteRows, Invites, Strip, HostAt, HostGoes, Stripped, Leaves, OnTheWay
<1> QED
  BY <1>1, <1>2, <1>3, <1>4, <1>5, <1>6, <1>7 DEF InviteInv

LEMMA StepRemoveRow ==
    ASSUME InviteInv, NEW h \in Hosts, RemoveRow(h)
    PROVE  InviteInv'
<1> USE DEF inviteLabels, access, inviteBounds, inviteTrace
<1>1. InviteTypeOK'
  BY InviteStepTypes DEF InviteInv, InviteNext
<1>2. HostInv'
  BY DEF InviteInv, HostInv, InviteTypeOK, HostJobs, OfInvite, Accepting, Invites, RemoveRow, HostAt, HostDone, Resting, Leaves, OnTheWay
<1>3. SentInv'
  BY DEF InviteInv, SentInv, HostInv, InviteTypeOK, OfInvite, Accepting, InviteRows, HostJobs, Invites, RemoveRow, HostAt, HostDone, Resting, Leaves, OnTheWay
<1>4. EntryInv'
  BY DEF InviteInv, EntryInv, SentInv, HostInv, InviteTypeOK, OfInvite, Accepting, Enrolled, InviteRows, HostJobs, Invites, RemoveRow, HostAt, HostDone, Resting, Leaves, OnTheWay
<1>5. PermitInv'
  BY DEF InviteInv, PermitInv, HostInv, InviteTypeOK, OfInvite, Accepting, HostJobs, RemoveRow, HostAt, HostDone, Resting, Leaves, OnTheWay
<1>6. ClosingInv'
  BY DEF InviteInv, ClosingInv, PermitInv, HostInv, InviteTypeOK, HostJobs, RemoveRow, HostAt, HostDone, Resting, Leaves, OnTheWay
<1>7. AcceptedIsIn'
  BY DEF InviteInv, AcceptedIsIn, ClosingInv, HostInv, SentInv, InviteTypeOK, HostJobs, InviteRows, Invites, RemoveRow, HostAt, HostDone, Resting, Leaves, OnTheWay
<1> QED
  BY <1>1, <1>2, <1>3, <1>4, <1>5, <1>6, <1>7 DEF InviteInv

LEMMA StepRemoveLeader ==
    ASSUME InviteInv, RemoveLeader
    PROVE  InviteInv'
<1> USE DEF inviteLabels, access, inviteBounds, inviteTrace
<1>1. InviteTypeOK'
  BY InviteStepTypes DEF InviteInv, InviteNext
<1>2. HostInv'
  BY DEF InviteInv, HostInv, InviteTypeOK, HostJobs, OfInvite, Accepting, Invites, RemoveLeader, Acts, Leaves, OnTheWay
<1>3. SentInv'
  BY DEF InviteInv, SentInv, HostInv, InviteTypeOK, OfInvite, Accepting, InviteRows, HostJobs, Invites, RemoveLeader, Acts, Leaves, OnTheWay
<1>4. EntryInv'
  BY DEF InviteInv, EntryInv, SentInv, HostInv, InviteTypeOK, OfInvite, Accepting, Enrolled, InviteRows, HostJobs, Invites, RemoveLeader, Acts, Leaves, OnTheWay
<1>5. PermitInv'
  BY DEF InviteInv, PermitInv, HostInv, InviteTypeOK, OfInvite, Accepting, HostJobs, RemoveLeader, Acts, Leaves, OnTheWay
<1>6. ClosingInv'
  BY DEF InviteInv, ClosingInv, PermitInv, HostInv, InviteTypeOK, HostJobs, RemoveLeader, Acts, Leaves, OnTheWay
<1>7. AcceptedIsIn'
  BY DEF InviteInv, AcceptedIsIn, ClosingInv, HostInv, SentInv, InviteTypeOK, HostJobs, InviteRows, Invites, RemoveLeader, Acts, Leaves, OnTheWay
<1> QED
  BY <1>1, <1>2, <1>3, <1>4, <1>5, <1>6, <1>7 DEF InviteInv

LEMMA StepHostDies ==
    ASSUME InviteInv, NEW h \in Hosts, HostDies(h)
    PROVE  InviteInv'
<1> USE DEF inviteLabels, access, inviteBounds, inviteTrace
<1>1. InviteTypeOK'
  BY InviteStepTypes DEF InviteInv, InviteNext
<1>2. HostInv'
  BY DEF InviteInv, HostInv, InviteTypeOK, HostJobs, OfInvite, Accepting, Invites, HostDies, HostDone, Resting
<1>3. SentInv'
  BY DEF InviteInv, SentInv, HostInv, InviteTypeOK, OfInvite, Accepting, InviteRows, HostJobs, Invites, HostDies, HostDone, Resting
<1>4. EntryInv'
  BY DEF InviteInv, EntryInv, SentInv, HostInv, InviteTypeOK, OfInvite, Accepting, Enrolled, InviteRows, HostJobs, Invites, HostDies, HostDone, Resting
<1>5. PermitInv'
  BY DEF InviteInv, PermitInv, HostInv, InviteTypeOK, OfInvite, Accepting, HostJobs, HostDies, HostDone, Resting
<1>6. ClosingInv'
  BY DEF InviteInv, ClosingInv, PermitInv, HostInv, InviteTypeOK, HostJobs, HostDies, HostDone, Resting
<1>7. AcceptedIsIn'
  BY DEF InviteInv, AcceptedIsIn, ClosingInv, HostInv, SentInv, InviteTypeOK, HostJobs, InviteRows, Invites, HostDies, HostDone, Resting
<1> QED
  BY <1>1, <1>2, <1>3, <1>4, <1>5, <1>6, <1>7 DEF InviteInv

LEMMA InviteInit_Inv == ASSUME InviteInit PROVE InviteInv
<1> USE DEF inviteLabels, access, inviteBounds, inviteTrace
<1>1. InviteTypeOK
  <2>1. Blank \in InviteRows
    BY DEF Blank, InviteRows
  <2>2. Resting \in HostJobs
    BY <2>1 DEF Resting, HostJobs
  <2>3. 0 \in 0 .. MaxInvites /\ 0 \in 0 .. MaxActs /\ 0 \in 0 .. MaxDeaths
    BY InviteBoundsAssumption
  <2>4. /\ row \in [Invites -> InviteRows] /\ host \in [Hosts -> HostJobs]
        /\ entries \in [Invites -> Nat]
    BY <2>1, <2>2 DEF InviteInit
  <2> QED
    BY <2>3, <2>4 DEF InviteInit, InviteTypeOK
<1>2. HostInv /\ SentInv
  BY DEF InviteInit, HostInv, SentInv, OfInvite, Accepting, Resting, Blank
<1>3. EntryInv /\ PermitInv /\ ClosingInv /\ AcceptedIsIn
  BY DEF InviteInit, EntryInv, PermitInv, ClosingInv, AcceptedIsIn, Resting, Blank
<1> QED
  BY <1>1, <1>2, <1>3 DEF InviteInv

LEMMA InviteStep_Inv == ASSUME InviteInv, [InviteNext]_inviteVars PROVE InviteInv'
<1>1. CASE UNCHANGED inviteVars
  BY <1>1
  DEF InviteInv, InviteTypeOK, HostInv, SentInv, EntryInv, PermitInv, ClosingInv, AcceptedIsIn,
      Accepting, Enrolled, OfInvite, inviteVars, inviteLabels, access, inviteBounds, inviteTrace
<1>2. CASE InviteNext
  BY <1>2, StepAccept, StepLook, StepEnrol, StepPermit, StepClose, StepSendInvitation, StepChange,
     StepSaveInvitation, StepWithdraw, StepExpire, StepAddDirectly, StepRemoveStaff, StepStrip,
     StepRemoveRow, StepRemoveLeader, StepHostDies
  DEF InviteNext
<1> QED
  BY <1>1, <1>2

\* The inductive invariant of Invitations holds in every state.
THEOREM InviteInvariance == InviteSpec => []InviteInv
<1>1. InviteInit => InviteInv
  BY InviteInit_Inv
<1>2. InviteInv /\ [InviteNext]_inviteVars => InviteInv'
  BY InviteStep_Inv
<1> QED
  BY <1>1, <1>2, PTL DEF InviteSpec

\* Every variable of Invitations keeps its shape.
THEOREM InviteTypesHold == InviteSpec => []InviteTypeOK
<1>1. InviteInv => InviteTypeOK
  BY DEF InviteInv
<1> QED
  BY <1>1, InviteInvariance, PTL

\* An invitation lets the person in once, unless an acceptance of it died, or
\* was on its way during a removal, or a lost update opened it again.
THEOREM AdmitsOnceHolds == InviteSpec => []AdmitsOnce
<1>1. InviteInv => AdmitsOnce
  BY DEF InviteInv, InviteTypeOK, EntryInv, AdmitsOnce
<1> QED
  BY <1>1, InviteInvariance, PTL

\* Who is not in has no permissions, unless an acceptance crossed the removal.
THEOREM NoStrayPermissionsHolds == InviteSpec => []NoStrayPermissions
<1>1. InviteInv => NoStrayPermissions
  BY DEF InviteInv, PermitInv, NoStrayPermissions
<1> QED
  BY <1>1, InviteInvariance, PTL

\* Who accepted and was never removed is in, with what the template gives.
THEOREM AcceptedIsInHolds == InviteSpec => []AcceptedIsIn
<1>1. InviteInv => AcceptedIsIn
  BY DEF InviteInv
<1> QED
  BY <1>1, InviteInvariance, PTL

-----------------------------------------------------------------------------
(* Memberships: types.                                                      *)

\* What a job of each kind carries.
LEMMA AgentFields ==
    ASSUME NEW job \in AgentJobs
    PROVE  /\ job.at \in {"idle", "insert", "settle", "verify", "spend", "mark", "recode", "reinvite"}
           /\ job.at \in {"insert", "settle", "verify", "spend", "mark", "reinvite"} => job.who \in People
           /\ job.at \in {"verify", "spend", "mark"} => job.id \in Nat
           /\ job.at \in {"spend", "recode"} => job.read \in Codes
           /\ job.at = "verify" => job.by \in {"code", "invite", "controller"}
           /\ job.at = "mark" => job.verified \in BOOLEAN
           /\ job.at = "reinvite" => job.read \in Invitation
BY DEF AgentJobs, Available

LEMMA AgentMakes ==
    ASSUME NEW u \in People, NEW n \in Nat
    PROVE  /\ Available \in AgentJobs
           /\ [at |-> "insert", who |-> u] \in AgentJobs
           /\ [at |-> "settle", who |-> u] \in AgentJobs
           /\ \A by \in {"code", "invite", "controller"} :
                 [at |-> "verify", who |-> u, id |-> n, by |-> by] \in AgentJobs
           /\ \A c \in Codes : [at |-> "spend", who |-> u, id |-> n, read |-> c] \in AgentJobs
           /\ \A b \in BOOLEAN :
                 [at |-> "mark", who |-> u, id |-> n, verified |-> b] \in AgentJobs
           /\ \A r \in Invitation : [at |-> "reinvite", who |-> u, read |-> r] \in AgentJobs
BY DEF AgentJobs, Available

LEMMA CodeJobMakes ==
    Available \in AgentJobs /\ \A c \in Codes : [at |-> "recode", read |-> c] \in AgentJobs
BY DEF AgentJobs, Available

\* What the steps make of the code and of the invitations.
LEMMA CodeMakes ==
    ASSUME NEW c \in Codes, NEW b \in BOOLEAN, NEW e \in BOOLEAN, NEW n \in Nat \ {0}
    PROVE  /\ c.uses \in Nat /\ c.limit \in Nat \ {0} /\ c.open \in BOOLEAN /\ c.expired \in BOOLEAN
           /\ [Used(c) EXCEPT !.expired = e] \in Codes
           /\ [c EXCEPT !.limit = n, !.open = b] \in Codes
           /\ [c EXCEPT !.open = @ /\ b, !.expired = e] \in Codes
           /\ [c EXCEPT !.expired = e] \in Codes
<1>1. /\ c.uses \in Nat /\ c.limit \in Nat \ {0} /\ c.open \in BOOLEAN /\ c.expired \in BOOLEAN
  BY DEF Codes
<1>2. [Used(c) EXCEPT !.expired = e] \in Codes
  <2>1. PICK o \in BOOLEAN : o = (c.open /\ c.uses + 1 < c.limit)
    OBVIOUS
  <2>2. PICK m \in Nat : m = c.uses + 1
    BY <1>1
  <2>3. Used(c) = [c EXCEPT !.uses = m, !.open = o]
    BY <2>1, <2>2 DEF Used
  <2>4. [c EXCEPT !.uses = m, !.open = o] \in Codes
    BY DEF Codes
  <2> QED
    BY <2>3, <2>4 DEF Codes
<1>3. [c EXCEPT !.limit = n, !.open = b] \in Codes /\ [c EXCEPT !.expired = e] \in Codes
  BY DEF Codes
<1>4. [c EXCEPT !.open = @ /\ b, !.expired = e] \in Codes
  <2>1. PICK o \in BOOLEAN : o = (c.open /\ b)
    OBVIOUS
  <2>2. [c EXCEPT !.open = @ /\ b, !.expired = e] = [c EXCEPT !.open = o, !.expired = e]
    BY <2>1
  <2> QED
    BY <2>2 DEF Codes
<1> QED
  BY <1>1, <1>2, <1>3, <1>4

LEMMA InvitationMakes ==
    ASSUME NEW r \in Invitation, NEW b \in BOOLEAN
    PROVE  /\ [r EXCEPT !.open = b] \in Invitation
           /\ [r EXCEPT !.row = "deleted"] \in Invitation
           /\ [row |-> "there", accepted |-> b, open |-> ~b] \in Invitation
BY DEF Invitation

LEMMA OrdersTypes ==
    ASSUME MembershipTypeOK, Orders
    PROVE  orders' \in 0 .. MaxOrders /\ crashes' \in 0 .. MaxCrashes
BY MembershipBoundsAssumption DEF MembershipTypeOK, Orders

LEMMA TurnsTypes ==
    ASSUME MembershipTypeOK, NEW g \in Agents, NEW job \in AgentJobs, Turns(g, job)
    PROVE  agent' \in [Agents -> AgentJobs]
BY DEF MembershipTypeOK, Turns

LEMMA JoinsTypes ==
    ASSUME MembershipTypeOK, NEW u \in People, NEW b \in BOOLEAN,
           IF member[u] = Stranger THEN Joins(u, b) ELSE UNCHANGED <<member, rows>>
    PROVE  /\ member' \in [People -> [id : Nat, verified : BOOLEAN]] /\ rows' \in Nat
           /\ member'[u].id \in Nat
BY DEF MembershipTypeOK, Joins, Stranger

-----------------------------------------------------------------------------
(* Memberships: the uses of the code.                                       *)

\* A turn of a process that neither begins nor ends a verification by the code
\* leaves the uses as they are.
LEMMA UsesStay ==
    ASSUME MembershipInv, NEW g \in Agents, NEW job, Turns(g, job),
           agent[g].at # "verify" \/ agent[g].by # "code",
           job.at # "verify" \/ job.by # "code",
           job.at = "spend" => job.read.uses < job.read.limit,
           UNCHANGED <<admitted, code, overspent>>
    PROVE  UseInv'
<1>1. \A x \in Agents : agent'[x] = (IF x = g THEN job ELSE agent[x])
  BY DEF MembershipInv, MembershipTypeOK, Turns
<1>2. Verifying' = Verifying
  BY <1>1 DEF Verifying
<1> QED
  BY <1>1, <1>2 DEF MembershipInv, UseInv

LEMMA NoTurnNoUse ==
    ASSUME MembershipInv, UNCHANGED <<agent, admitted, overspent>>,
           code'.uses = code.uses, code'.limit = code.limit
    PROVE  UseInv'
<1>1. Verifying' = Verifying
  BY DEF Verifying
<1> QED
  BY <1>1 DEF MembershipInv, UseInv

LEMMA StepJoin ==
    ASSUME MembershipInv, NEW g \in Agents, NEW u \in People, Join(g, u)
    PROVE  MembershipInv'
<1> USE DEF membershipTrace
<1>1. MembershipTypeOK'
  BY AgentFields, AgentMakes, MembershipBoundsAssumption
  DEF MembershipInv, MembershipTypeOK, Join, Takes, Turns, Available, Codes, Stranger, NotInvited, Invitation
<1>2. UseInv'
  BY UsesStay DEF MembershipInv, MembershipTypeOK, Join, Takes, Available, Codes
<1>3. MemberInv'
  BY AgentFields DEF MembershipInv, MembershipTypeOK, MemberInv, Join, Takes, Turns, Available, Stranger
<1>4. SettledInv'
  BY AgentFields
  DEF MembershipInv, MembershipTypeOK, SettledInv, MemberInv, Settled, Join, Takes, Turns, Available, Stranger,
      NotInvited, Invitation
<1> QED
  BY <1>1, <1>2, <1>3, <1>4 DEF MembershipInv

LEMMA StepVerifyWithCode ==
    ASSUME MembershipInv, NEW g \in Agents, NEW u \in People, VerifyWithCode(g, u)
    PROVE  MembershipInv'
<1> USE DEF membershipTrace
<1>1. MembershipTypeOK'
  BY AgentFields, AgentMakes, MembershipBoundsAssumption
  DEF MembershipInv, MembershipTypeOK, VerifyWithCode, CodeIsValid, Takes, Turns, Available, Codes, Stranger, NotInvited, Invitation
<1>2. UseInv'
  BY UsesStay DEF MembershipInv, MembershipTypeOK, VerifyWithCode, CodeIsValid, Takes, Available, Codes
<1>3. MemberInv'
  BY AgentFields DEF MembershipInv, MembershipTypeOK, MemberInv, VerifyWithCode, CodeIsValid, Takes, Turns, Available, Stranger
<1>4. SettledInv'
  BY AgentFields
  DEF MembershipInv, MembershipTypeOK, SettledInv, MemberInv, Settled, VerifyWithCode, CodeIsValid, Takes, Turns, Available, Stranger,
      NotInvited, Invitation
<1> QED
  BY <1>1, <1>2, <1>3, <1>4 DEF MembershipInv

LEMMA StepVerifyManually ==
    ASSUME MembershipInv, NEW g \in Agents, NEW u \in People, VerifyManually(g, u)
    PROVE  MembershipInv'
<1> USE DEF membershipTrace
<1>1. MembershipTypeOK'
  <2>1. [at |-> "verify", who |-> u, id |-> member[u].id, by |-> "controller"] \in AgentJobs
    BY AgentMakes DEF MembershipInv, MembershipTypeOK
  <2> QED
    BY <2>1, TurnsTypes, OrdersTypes DEF MembershipInv, MembershipTypeOK, VerifyManually, Takes
<1>2. UseInv'
  BY UsesStay DEF MembershipInv, MembershipTypeOK, VerifyManually, Takes, Available, Codes
<1>3. MemberInv'
  BY AgentFields DEF MembershipInv, MembershipTypeOK, MemberInv, VerifyManually, Takes, Turns, Orders, Available, Stranger
<1>4. SettledInv'
  BY AgentFields
  DEF MembershipInv, MembershipTypeOK, SettledInv, MemberInv, Settled, VerifyManually, Takes, Turns, Orders, Available, Stranger,
      NotInvited, Invitation
<1> QED
  BY <1>1, <1>2, <1>3, <1>4 DEF MembershipInv

LEMMA StepAcceptInvite ==
    ASSUME MembershipInv, NEW g \in Agents, NEW u \in People, AcceptInvite(g, u)
    PROVE  MembershipInv'
<1> USE DEF membershipTrace
<1>1. MembershipTypeOK'
  BY AgentFields, AgentMakes, MembershipBoundsAssumption
  DEF MembershipInv, MembershipTypeOK, AcceptInvite, InviteIsValid, Takes, Turns, Available, Codes, Stranger, NotInvited, Invitation
<1>2. UseInv'
  BY UsesStay DEF MembershipInv, MembershipTypeOK, AcceptInvite, InviteIsValid, Takes, Available, Codes
<1>3. MemberInv'
  BY AgentFields DEF MembershipInv, MembershipTypeOK, MemberInv, AcceptInvite, InviteIsValid, Takes, Turns, Available, Stranger
<1>4. SettledInv'
  BY AgentFields
  DEF MembershipInv, MembershipTypeOK, SettledInv, MemberInv, Settled, AcceptInvite, InviteIsValid, Takes, Turns, Available, Stranger,
      NotInvited, Invitation
<1> QED
  BY <1>1, <1>2, <1>3, <1>4 DEF MembershipInv

LEMMA StepReadInvite ==
    ASSUME MembershipInv, NEW g \in Agents, NEW u \in People, ReadInvite(g, u)
    PROVE  MembershipInv'
<1> USE DEF membershipTrace
<1>1. MembershipTypeOK'
  <2>1. \A b \in BOOLEAN :
            [at |-> "reinvite", who |-> u, read |-> [invited[u] EXCEPT !.open = b]] \in AgentJobs
    BY AgentMakes, InvitationMakes DEF MembershipInv, MembershipTypeOK
  <2>2. agent' \in [Agents -> AgentJobs]
    BY <2>1, TurnsTypes DEF MembershipInv, ReadInvite, Takes
  <2> QED
    BY <2>2, OrdersTypes DEF MembershipInv, MembershipTypeOK, ReadInvite
<1>2. UseInv'
  BY UsesStay DEF MembershipInv, MembershipTypeOK, ReadInvite, Takes, Available, Codes
<1>3. MemberInv'
  BY AgentFields DEF MembershipInv, MembershipTypeOK, MemberInv, ReadInvite, Takes, Turns, Orders, Available, Stranger
<1>4. SettledInv'
  BY AgentFields
  DEF MembershipInv, MembershipTypeOK, SettledInv, MemberInv, Settled, ReadInvite, Takes, Turns, Orders, Available, Stranger,
      NotInvited, Invitation
<1> QED
  BY <1>1, <1>2, <1>3, <1>4 DEF MembershipInv

LEMMA StepInsert ==
    ASSUME MembershipInv, NEW g \in Agents, Insert(g)
    PROVE  MembershipInv'
<1> USE DEF membershipTrace
<1>1. MembershipTypeOK'
  <2>1. agent[g] \in AgentJobs /\ agent[g].at = "insert"
    BY DEF MembershipInv, MembershipTypeOK, Insert
  <2>2. agent[g].who \in People
    BY <2>1, AgentFields
  <2>3. agent' \in [Agents -> AgentJobs]
    BY CodeJobMakes, TurnsTypes DEF MembershipInv, Insert
  <2>4. member' \in [People -> [id : Nat, verified : BOOLEAN]] /\ rows' \in Nat
    <3>1. ("code" \in rules) \in BOOLEAN
      OBVIOUS
    <3> QED
      BY <2>2, <3>1, JoinsTypes DEF MembershipInv, Insert
  <2> QED
    BY <2>3, <2>4 DEF MembershipInv, MembershipTypeOK, Insert
<1>2. UseInv'
  BY UsesStay DEF MembershipInv, MembershipTypeOK, Insert, Available, Codes
<1>3. MemberInv'
  <2>0. /\ agent \in [Agents -> AgentJobs] /\ agent[g].at = "insert" /\ agent[g].who \in People
        /\ rows \in Nat /\ member \in [People -> [id : Nat, verified : BOOLEAN]]
        /\ UNCHANGED parted
    BY AgentFields DEF MembershipInv, MembershipTypeOK, Insert
  <2>1. \A x \in Agents : agent'[x] = IF x = g THEN Available ELSE agent[x]
    BY <2>0 DEF Insert, Turns
  <2>2. CASE member[agent[g].who] # Stranger
    BY <2>0, <2>1, <2>2 DEF MembershipInv, MemberInv, Insert, Available
  <2>3. CASE member[agent[g].who] = Stranger
    <3>1. /\ \A u \in People \ {agent[g].who} : member'[u] = member[u]
          /\ member'[agent[g].who].id = rows + 1
          /\ member[agent[g].who].id = 0 /\ ~member[agent[g].who].verified
      BY <2>0, <2>3 DEF Insert, Joins, Stranger
    <3>2. \A x \in Agents : agent[x].at \in {"spend", "verify", "mark"} => agent[x].who \in People
      BY <2>0, AgentFields
    <3> QED
      BY <2>0, <2>1, <3>1, <3>2 DEF MembershipInv, MemberInv, Available
  <2> QED
    BY <2>2, <2>3
<1>4. SettledInv'
  <2>0. /\ agent \in [Agents -> AgentJobs] /\ agent[g].at = "insert" /\ agent[g].who \in People
        /\ member \in [People -> [id : Nat, verified : BOOLEAN]] /\ UNCHANGED <<parted, invited>>
    BY AgentFields DEF MembershipInv, MembershipTypeOK, Insert
  <2>1. \A x \in Agents : agent'[x] = IF x = g THEN Available ELSE agent[x]
    BY <2>0 DEF Insert, Turns
  <2>2. \A u \in People : member[u].verified => member'[u].verified
    BY <2>0 DEF MembershipInv, MembershipTypeOK, Insert, Joins, Stranger
  <2>3. \A x \in Agents : agent[x].at = "reinvite" => agent[x].who \in People
    BY <2>0, AgentFields
  <2>4. \A u \in People : Settled(u) => Settled(u)'
    BY <2>0, <2>1, <2>2 DEF Settled
  <2> QED
    BY <2>0, <2>1, <2>3, <2>4 DEF MembershipInv, SettledInv, Available
<1> QED
  BY <1>1, <1>2, <1>3, <1>4 DEF MembershipInv

LEMMA StepSpend ==
    ASSUME MembershipInv, NEW g \in Agents, Spend(g)
    PROVE  MembershipInv'
<1> USE DEF membershipTrace
<1>1. MembershipTypeOK'
  <2>1. agent[g] \in AgentJobs /\ agent[g].at = "spend"
    BY DEF MembershipInv, MembershipTypeOK, Spend
  <2>2. agent[g].who \in People /\ agent[g].id \in Nat /\ agent[g].read \in Codes
    BY <2>1, AgentFields
  <2>3. agent' \in [Agents -> AgentJobs]
    BY <2>2, AgentMakes, TurnsTypes DEF MembershipInv, Spend
  <2>4. code' \in Codes
    <3>1. code.expired \in BOOLEAN
      BY DEF MembershipInv, MembershipTypeOK, Codes
    <3>2. [Used(agent[g].read) EXCEPT !.expired = code.expired] \in Codes
      <4>1. 1 \in Nat \ {0} /\ TRUE \in BOOLEAN
        OBVIOUS
      <4>2. \A c \in Codes, e \in BOOLEAN : [Used(c) EXCEPT !.expired = e] \in Codes
        BY <4>1, CodeMakes
      <4> QED
        BY <2>2, <3>1, <4>2
    <3> QED
      BY <3>2 DEF Spend
  <2>5. overspent' \in BOOLEAN
    BY DEF Spend
  <2> QED
    BY <2>3, <2>4, <2>5 DEF MembershipInv, MembershipTypeOK, Spend
<1>2. UseInv'
  <2>0. /\ agent \in [Agents -> AgentJobs] /\ agent[g].at = "spend" /\ agent[g].read \in Codes
        /\ agent[g].read.uses < agent[g].read.limit /\ code \in Codes
    BY AgentFields DEF MembershipInv, MembershipTypeOK, UseInv, Spend
  <2>1. \A x \in Agents :
            agent'[x] = IF x = g
                        THEN [at |-> "verify", who |-> agent[g].who, id |-> agent[g].id, by |-> "code"]
                        ELSE agent[x]
    BY <2>0 DEF Spend, Turns
  <2>2. Verifying' = Verifying \cup {g} /\ g \notin Verifying
    BY <2>0, <2>1 DEF Verifying
  <2>3. IsFiniteSet(Verifying') /\ Cardinality(Verifying') = Cardinality(Verifying) + 1
    BY <2>2, FS_AddElement DEF MembershipInv, UseInv
  <2>4. Cardinality(Verifying) \in Nat /\ Cardinality(admitted) \in Nat
    BY FS_CardinalityType DEF MembershipInv, UseInv
  <2>5. /\ code'.uses = agent[g].read.uses + 1 /\ code'.limit = agent[g].read.limit
        /\ agent[g].read.uses \in Nat /\ agent[g].read.limit \in Nat
        /\ ~overspent' => ~overspent /\ agent[g].read.uses = code.uses
                                     /\ agent[g].read.limit = code.limit
    BY <2>0 DEF Spend, Used, Codes
  <2>6. \A x \in Agents : agent'[x].at = "spend" => agent'[x] = agent[x]
    BY <2>1
  <2>7. admitted' = admitted
    BY DEF Spend
  <2> QED
    BY <2>0, <2>3, <2>4, <2>5, <2>6, <2>7 DEF MembershipInv, UseInv
<1>3. MemberInv'
  BY AgentFields DEF MembershipInv, MembershipTypeOK, MemberInv, Spend, Used, Turns, Available, Stranger
<1>4. SettledInv'
  BY AgentFields
  DEF MembershipInv, MembershipTypeOK, SettledInv, MemberInv, Settled, Spend, Used, Turns, Available, Stranger,
      NotInvited, Invitation
<1> QED
  BY <1>1, <1>2, <1>3, <1>4 DEF MembershipInv

LEMMA StepSaveMember ==
    ASSUME MembershipInv, NEW g \in Agents, SaveMember(g)
    PROVE  MembershipInv'
<1> USE DEF membershipTrace
<1>1. MembershipTypeOK'
  <2>1. agent[g] \in AgentJobs /\ agent[g].at = "verify"
    BY DEF MembershipInv, MembershipTypeOK, SaveMember
  <2>2. agent[g].who \in People /\ agent[g].id \in Nat
    BY <2>1, AgentFields
  <2>3. agent' \in [Agents -> AgentJobs]
    BY CodeJobMakes, TurnsTypes DEF MembershipInv, SaveMember
  <2>4. member' \in [People -> [id : Nat, verified : BOOLEAN]]
    BY <2>2 DEF MembershipInv, MembershipTypeOK, SaveMember
  <2>5. admitted' \subseteq People
    BY <2>2 DEF MembershipInv, MembershipTypeOK, SaveMember
  <2> QED
    BY <2>3, <2>4, <2>5 DEF MembershipInv, MembershipTypeOK, SaveMember
<1>2. UseInv'
  <2>0. agent \in [Agents -> AgentJobs] /\ agent[g].at = "verify" /\ UNCHANGED <<code, overspent>>
    BY DEF MembershipInv, MembershipTypeOK, SaveMember
  <2>1. \A x \in Agents : agent'[x] = IF x = g THEN Available ELSE agent[x]
    BY <2>0 DEF SaveMember, Turns
  <2>2. \A x \in Agents : agent'[x].at = "spend" => agent'[x] = agent[x]
    BY <2>1 DEF Available
  <2>3. IsFiniteSet(admitted) /\ IsFiniteSet(Verifying)
        /\ Cardinality(Verifying) \in Nat /\ Cardinality(admitted) \in Nat /\ code.uses \in Nat
    BY FS_CardinalityType DEF MembershipInv, MembershipTypeOK, UseInv, Codes
  <2>4. CASE agent[g].by = "code"
    <3>1. Verifying' = Verifying \ {g} /\ g \in Verifying
      BY <2>0, <2>1, <2>4 DEF Verifying, Available
    <3>2. IsFiniteSet(Verifying') /\ Cardinality(Verifying') = Cardinality(Verifying) - 1
      BY <2>3, <3>1, FS_RemoveElement
    <3>3. /\ IsFiniteSet(admitted') /\ Cardinality(admitted') \in Nat
          /\ Cardinality(admitted') <= Cardinality(admitted) + 1
      <4>1. admitted' = admitted \/ admitted' = admitted \cup {agent[g].who}
        BY DEF SaveMember
      <4> QED
        BY <2>3, <4>1, FS_AddElement
    <3> QED
      BY <2>0, <2>2, <2>3, <3>2, <3>3 DEF MembershipInv, UseInv
  <2>5. CASE agent[g].by # "code"
    <3>1. Turns(g, Available) /\ admitted' = admitted
      BY <2>5 DEF SaveMember
    <3>2. Available.at = "idle"
      BY DEF Available
    <3> QED
      BY <2>0, <2>5, <3>1, <3>2, UsesStay
  <2> QED
    BY <2>4, <2>5
<1>3. MemberInv'
  <2>0. /\ agent \in [Agents -> AgentJobs] /\ agent[g].at = "verify" /\ agent[g].who \in People
        /\ agent[g].id \in Nat /\ agent[g].id > 0
        /\ member \in [People -> [id : Nat, verified : BOOLEAN]] /\ UNCHANGED parted
    BY AgentFields DEF MembershipInv, MembershipTypeOK, MemberInv, SaveMember
  <2>1. \A x \in Agents : agent'[x] = IF x = g THEN Available ELSE agent[x]
    BY <2>0 DEF SaveMember, Turns
  <2>2. \A x \in Agents : agent[x].at \in {"spend", "verify", "mark"} => agent[x].who \in People
    BY <2>0, AgentFields
  <2>3. CASE member[agent[g].who].id \notin {0, agent[g].id}
    <3>1. member' = member
      BY <2>0, <2>3 DEF SaveMember
    <3> QED
      BY <2>0, <2>1, <3>1 DEF MembershipInv, MemberInv, Available
  <2>4. CASE member[agent[g].who].id \in {0, agent[g].id}
    <3>1. /\ \A u \in People \ {agent[g].who} : member'[u] = member[u]
          /\ member'[agent[g].who].id = agent[g].id /\ member'[agent[g].who].verified
      BY <2>0, <2>4 DEF SaveMember
    <3>2. \A x \in Agents : agent[x].at \in {"spend", "verify", "mark"} /\ agent[x].who = agent[g].who =>
              agent[x].who \in parted \/ agent[x].id = agent[g].id
      BY <2>0, <2>4 DEF MembershipInv, MemberInv
    <3> QED
      BY <2>0, <2>1, <2>2, <3>1, <3>2 DEF MembershipInv, MemberInv, Available
  <2> QED
    BY <2>3, <2>4
<1>4. SettledInv'
  BY AgentFields
  DEF MembershipInv, MembershipTypeOK, SettledInv, MemberInv, Settled, SaveMember, Turns, Available, Stranger,
      NotInvited, Invitation
<1> QED
  BY <1>1, <1>2, <1>3, <1>4 DEF MembershipInv

LEMMA StepSettle ==
    ASSUME MembershipInv, NEW g \in Agents, Settle(g)
    PROVE  MembershipInv'
<1> USE DEF membershipTrace
<1>1. MembershipTypeOK'
  <2>1. agent[g] \in AgentJobs /\ agent[g].at = "settle"
    BY DEF MembershipInv, MembershipTypeOK, Settle
  <2>2. agent[g].who \in People
    BY <2>1, AgentFields
  <2>3. /\ member' \in [People -> [id : Nat, verified : BOOLEAN]] /\ rows' \in Nat
        /\ member'[agent[g].who].id \in Nat
    BY <2>2, JoinsTypes DEF MembershipInv, Settle
  <2>4. NeedsNothing(agent[g].who) \in BOOLEAN
    BY <2>2 DEF MembershipInv, MembershipTypeOK, NeedsNothing
  <2>5. agent' \in [Agents -> AgentJobs]
    BY <2>2, <2>3, <2>4, AgentMakes, TurnsTypes DEF MembershipInv, Settle
  <2> QED
    BY <2>3, <2>5 DEF MembershipInv, MembershipTypeOK, Settle
<1>2. UseInv'
  BY UsesStay DEF MembershipInv, MembershipTypeOK, Settle, Available, Codes
<1>3. MemberInv'
  <2>0. /\ agent \in [Agents -> AgentJobs] /\ agent[g].at = "settle" /\ agent[g].who \in People
        /\ rows \in Nat /\ member \in [People -> [id : Nat, verified : BOOLEAN]]
        /\ UNCHANGED parted
    BY AgentFields DEF MembershipInv, MembershipTypeOK, Settle
  <2>1. \A x \in Agents \ {g} : agent'[x] = agent[x]
    BY <2>0 DEF Settle, Turns
  <2>2. /\ agent'[g].at = "mark" /\ agent'[g].who = agent[g].who
        /\ agent'[g].id = member'[agent[g].who].id
        /\ agent'[g].verified = member[agent[g].who].verified
    BY <2>0 DEF Settle, Turns, NeedsNothing
  <2>3. CASE member[agent[g].who] # Stranger
    <3>1. member' = member /\ member[agent[g].who].id > 0
      BY <2>0, <2>3 DEF Settle, MembershipInv, MemberInv
    <3> QED
      BY <2>0, <2>1, <2>2, <3>1 DEF MembershipInv, MemberInv
  <2>4. CASE member[agent[g].who] = Stranger
    <3>1. /\ \A u \in People \ {agent[g].who} : member'[u] = member[u]
          /\ member'[agent[g].who].id = rows + 1
          /\ member[agent[g].who].id = 0 /\ ~member[agent[g].who].verified
      BY <2>0, <2>4 DEF Settle, Joins, Stranger
    <3>2. \A x \in Agents : agent[x].at \in {"spend", "verify", "mark"} => agent[x].who \in People
      BY <2>0, AgentFields
    <3> QED
      BY <2>0, <2>1, <2>2, <3>1, <3>2 DEF MembershipInv, MemberInv
  <2> QED
    BY <2>3, <2>4
<1>4. SettledInv'
  BY AgentFields
  DEF MembershipInv, MembershipTypeOK, SettledInv, MemberInv, Settled, Settle, Joins, NeedsNothing, Turns, Available, Stranger,
      NotInvited, Invitation
<1> QED
  BY <1>1, <1>2, <1>3, <1>4 DEF MembershipInv

LEMMA StepMarkAccepted ==
    ASSUME MembershipInv, NEW g \in Agents, MarkAccepted(g)
    PROVE  MembershipInv'
<1> USE DEF membershipTrace
<1>1. MembershipTypeOK'
  <2>1. agent[g] \in AgentJobs /\ agent[g].at = "mark"
    BY DEF MembershipInv, MembershipTypeOK, MarkAccepted
  <2>2. agent[g].who \in People /\ agent[g].id \in Nat
    BY <2>1, AgentFields
  <2>3. agent' \in [Agents -> AgentJobs]
    <3>1. [at |-> "verify", who |-> agent[g].who, id |-> agent[g].id, by |-> "invite"] \in AgentJobs
      BY <2>2, AgentMakes
    <3> QED
      BY <3>1, CodeJobMakes, TurnsTypes DEF MembershipInv, MarkAccepted
  <2>4. [row |-> "there", accepted |-> TRUE, open |-> FALSE] \in Invitation
    BY DEF Invitation
  <2>5. invited' \in [People -> Invitation]
    BY <2>2, <2>4 DEF MembershipInv, MembershipTypeOK, MarkAccepted
  <2> QED
    BY <2>3, <2>5 DEF MembershipInv, MembershipTypeOK, MarkAccepted
<1>2. UseInv'
  <2>1. PICK job \in {Available,
                       [at |-> "verify", who |-> agent[g].who, id |-> agent[g].id, by |-> "invite"]} :
                Turns(g, job)
    BY DEF MarkAccepted
  <2>2. (job.at # "verify" \/ job.by # "code") /\ job.at # "spend"
    BY DEF Available
  <2> QED
    BY <2>1, <2>2, UsesStay DEF MarkAccepted
<1>3. MemberInv'
  BY AgentFields DEF MembershipInv, MembershipTypeOK, MemberInv, MarkAccepted, Turns, Available, Stranger
<1>4. SettledInv'
  <2>0. /\ agent \in [Agents -> AgentJobs] /\ agent[g].at = "mark" /\ agent[g].who \in People
        /\ invited \in [People -> Invitation] /\ UNCHANGED <<parted, member>>
        /\ agent[g].verified \in BOOLEAN
    BY AgentFields DEF MembershipInv, MembershipTypeOK, MarkAccepted
  <2>1. /\ \A x \in Agents \ {g} : agent'[x] = agent[x]
        /\ agent'[g].at # "reinvite"
        /\ ~agent[g].verified =>
              agent'[g] = [at |-> "verify", who |-> agent[g].who, id |-> agent[g].id, by |-> "invite"]
    BY <2>0 DEF MarkAccepted, Turns, Available
  <2>2. \A x \in Agents : agent[x].at = "reinvite" => agent[x].who \in People
    BY <2>0, AgentFields
  <2>3. \A u \in People : Settled(u) => Settled(u)'
    BY <2>0, <2>1 DEF Settled
  <2>4. \A u \in People : u = agent[g].who => Settled(u)'
    <3>1. CASE agent[g].verified
      <4>1. agent[g].who \in parted \/ member[agent[g].who].verified
        BY <2>0, <3>1 DEF MembershipInv, MemberInv
      <4> QED
        BY <2>0, <4>1 DEF Settled
    <3>2. CASE ~agent[g].verified
      BY <2>0, <2>1, <3>2 DEF Settled
    <3> QED
      BY <3>1, <3>2
  <2>5. \A u \in People \ {agent[g].who} : invited'[u] = invited[u]
    BY <2>0 DEF MarkAccepted
  <2> QED
    <3>1. ASSUME NEW u \in People, invited'[u].row = "there", invited'[u].accepted
          PROVE  Settled(u)'
      <4>1. CASE u = agent[g].who
        BY <2>4, <4>1
      <4>2. CASE u # agent[g].who
        BY <2>3, <2>5, <3>1, <4>2 DEF MembershipInv, SettledInv
      <4> QED
        BY <4>1, <4>2
    <3>2. ASSUME NEW x \in Agents, agent'[x].at = "reinvite", agent'[x].read.accepted
          PROVE  Settled(agent[x].who)'
      <4>1. agent'[x] = agent[x] /\ agent[x].who \in People
        BY <2>1, <2>2, <3>2
      <4>2. Settled(agent[x].who)
        BY <3>2, <4>1 DEF MembershipInv, SettledInv
      <4>3. PICK u \in People : u = agent[x].who
        BY <4>1
      <4>4. Settled(u)'
        BY <2>3, <4>2, <4>3
      <4>5. u = agent'[x].who
        BY <4>1, <4>3
      <4> QED
        BY <4>4, <4>5 DEF Settled
    <3> QED
      BY <3>1, <3>2 DEF SettledInv
<1> QED
  BY <1>1, <1>2, <1>3, <1>4 DEF MembershipInv

LEMMA StepReadCode ==
    ASSUME MembershipInv, NEW g \in Agents, ReadCode(g)
    PROVE  MembershipInv'
<1> USE DEF membershipTrace
<1>1. MembershipTypeOK'
  <2>1. ASSUME NEW n \in 1 .. MaxUses + 1, NEW b \in BOOLEAN
        PROVE  [at |-> "recode", read |-> [code EXCEPT !.limit = n, !.open = b]] \in AgentJobs
    <3>1. n \in Nat \ {0}
      BY MembershipBoundsAssumption
    <3> QED
      BY <3>1, CodeMakes, CodeJobMakes DEF MembershipInv, MembershipTypeOK
  <2>2. agent' \in [Agents -> AgentJobs]
    BY <2>1, TurnsTypes DEF MembershipInv, ReadCode, Takes
  <2> QED
    BY <2>2, OrdersTypes DEF MembershipInv, MembershipTypeOK, ReadCode
<1>2. UseInv'
  BY UsesStay DEF MembershipInv, MembershipTypeOK, ReadCode, Takes, Available, Codes
<1>3. MemberInv'
  BY AgentFields DEF MembershipInv, MembershipTypeOK, MemberInv, ReadCode, Takes, Turns, Orders, Available, Stranger
<1>4. SettledInv'
  BY AgentFields
  DEF MembershipInv, MembershipTypeOK, SettledInv, MemberInv, Settled, ReadCode, Takes, Turns, Orders, Available, Stranger,
      NotInvited, Invitation
<1> QED
  BY <1>1, <1>2, <1>3, <1>4 DEF MembershipInv

LEMMA StepSaveCode ==
    ASSUME MembershipInv, NEW g \in Agents, SaveCode(g)
    PROVE  MembershipInv'
<1> USE DEF membershipTrace
<1>1. MembershipTypeOK'
  <2>1. agent[g] \in AgentJobs /\ agent[g].at = "recode"
    BY DEF MembershipInv, MembershipTypeOK, SaveCode
  <2>2. agent[g].read \in Codes
    BY <2>1, AgentFields
  <2>3. agent' \in [Agents -> AgentJobs]
    BY CodeJobMakes, TurnsTypes DEF MembershipInv, SaveCode
  <2>4. code' \in Codes
    BY <2>2 DEF MembershipInv, MembershipTypeOK, SaveCode, Codes
  <2>5. overspent' \in BOOLEAN
    BY DEF SaveCode
  <2> QED
    BY <2>3, <2>4, <2>5 DEF MembershipInv, MembershipTypeOK, SaveCode
<1>2. UseInv'
  <2>0. /\ agent \in [Agents -> AgentJobs] /\ agent[g].at = "recode" /\ agent[g].read \in Codes
        /\ code \in Codes
    BY AgentFields DEF MembershipInv, MembershipTypeOK, SaveCode
  <2>1. \A x \in Agents : agent'[x] = IF x = g THEN Available ELSE agent[x]
    BY <2>0 DEF SaveCode, Turns
  <2>2. Verifying' = Verifying /\ \A x \in Agents : agent'[x].at = "spend" => agent'[x] = agent[x]
    BY <2>0, <2>1 DEF Verifying, Available
  <2>3. /\ code'.uses = agent[g].read.uses /\ code'.limit = agent[g].read.limit
        /\ code'.limit \in Nat /\ code.limit \in Nat
        /\ ~overspent' => ~overspent /\ agent[g].read.uses = code.uses
                                     /\ ~(agent[g].read.limit < code.limit)
        /\ code.uses \in Nat /\ UNCHANGED admitted
    BY <2>0 DEF SaveCode, Codes
  <2> QED
    BY <2>2, <2>3 DEF MembershipInv, UseInv
<1>3. MemberInv'
  BY AgentFields DEF MembershipInv, MembershipTypeOK, MemberInv, SaveCode, Turns, Available, Stranger
<1>4. SettledInv'
  BY AgentFields
  DEF MembershipInv, MembershipTypeOK, SettledInv, MemberInv, Settled, SaveCode, Turns, Available, Stranger,
      NotInvited, Invitation
<1> QED
  BY <1>1, <1>2, <1>3, <1>4 DEF MembershipInv

LEMMA StepSaveInvite ==
    ASSUME MembershipInv, NEW g \in Agents, SaveInvite(g)
    PROVE  MembershipInv'
<1> USE DEF membershipTrace
<1>1. MembershipTypeOK'
  <2>1. agent[g] \in AgentJobs /\ agent[g].at = "reinvite"
    BY DEF MembershipInv, MembershipTypeOK, SaveInvite
  <2>2. agent[g].who \in People /\ agent[g].read \in Invitation
    BY <2>1, AgentFields
  <2>3. agent' \in [Agents -> AgentJobs]
    BY CodeJobMakes, TurnsTypes DEF MembershipInv, SaveInvite
  <2>4. invited' \in [People -> Invitation]
    BY <2>2 DEF MembershipInv, MembershipTypeOK, SaveInvite
  <2> QED
    BY <2>3, <2>4 DEF MembershipInv, MembershipTypeOK, SaveInvite
<1>2. UseInv'
  BY UsesStay DEF MembershipInv, MembershipTypeOK, SaveInvite, Available, Codes
<1>3. MemberInv'
  BY AgentFields DEF MembershipInv, MembershipTypeOK, MemberInv, SaveInvite, Turns, Available, Stranger
<1>4. SettledInv'
  BY AgentFields
  DEF MembershipInv, MembershipTypeOK, SettledInv, MemberInv, Settled, SaveInvite, Turns, Available, Stranger,
      NotInvited, Invitation
<1> QED
  BY <1>1, <1>2, <1>3, <1>4 DEF MembershipInv

LEMMA StepCrash ==
    ASSUME MembershipInv, NEW g \in Agents, Crash(g)
    PROVE  MembershipInv'
<1> USE DEF membershipTrace
<1>1. MembershipTypeOK'
  <2>1. agent[g] \in AgentJobs
    BY DEF MembershipInv, MembershipTypeOK
  <2>2. agent[g].at = "verify" => agent[g].who \in People
    BY <2>1, AgentFields
  <2>3. agent' \in [Agents -> AgentJobs]
    BY CodeJobMakes, TurnsTypes DEF MembershipInv, Crash
  <2>4. parted' \subseteq People
    BY <2>2 DEF MembershipInv, MembershipTypeOK, Crash
  <2>5. crashes' \in 0 .. MaxCrashes
    BY MembershipBoundsAssumption DEF MembershipInv, MembershipTypeOK, Crash
  <2> QED
    BY <2>3, <2>4, <2>5 DEF MembershipInv, MembershipTypeOK, Crash
<1>2. UseInv'
  <2>0. agent \in [Agents -> AgentJobs] /\ UNCHANGED <<admitted, code, overspent>>
    BY DEF MembershipInv, MembershipTypeOK, Crash
  <2>1. \A x \in Agents : agent'[x] = IF x = g THEN Available ELSE agent[x]
    BY <2>0 DEF Crash, Turns
  <2>2. Verifying' \subseteq Verifying /\ \A x \in Agents : agent'[x].at = "spend" => agent'[x] = agent[x]
    BY <2>0, <2>1 DEF Verifying, Available
  <2>3. IsFiniteSet(Verifying) /\ Cardinality(Verifying) \in Nat /\ Cardinality(admitted) \in Nat
        /\ code.uses \in Nat
    BY FS_CardinalityType DEF MembershipInv, MembershipTypeOK, UseInv, Codes
  <2>4. IsFiniteSet(Verifying') /\ Cardinality(Verifying') <= Cardinality(Verifying)
        /\ Cardinality(Verifying') \in Nat
    BY <2>2, <2>3, FS_Subset, FS_CardinalityType
  <2> QED
    BY <2>0, <2>2, <2>3, <2>4 DEF MembershipInv, UseInv
<1>3. MemberInv'
  BY AgentFields DEF MembershipInv, MembershipTypeOK, MemberInv, Crash, Turns, Available, Stranger
<1>4. SettledInv'
  BY AgentFields
  DEF MembershipInv, MembershipTypeOK, SettledInv, MemberInv, Settled, Crash, Turns, Available, Stranger,
      NotInvited, Invitation
<1> QED
  BY <1>1, <1>2, <1>3, <1>4 DEF MembershipInv

LEMMA StepInvite ==
    ASSUME MembershipInv, NEW u \in People, Invite(u)
    PROVE  MembershipInv'
<1> USE DEF membershipTrace
<1>1. MembershipTypeOK'
  BY AgentFields, AgentMakes, MembershipBoundsAssumption
  DEF MembershipInv, MembershipTypeOK, Invite, Orders, Available, Codes, Stranger, NotInvited, Invitation
<1>2. UseInv'
  BY NoTurnNoUse DEF MembershipInv, MembershipTypeOK, Invite, Orders, Codes
<1>3. MemberInv'
  BY AgentFields DEF MembershipInv, MembershipTypeOK, MemberInv, Invite, Orders, Available, Stranger
<1>4. SettledInv'
  BY AgentFields
  DEF MembershipInv, MembershipTypeOK, SettledInv, MemberInv, Settled, Invite, Orders, Available, Stranger,
      NotInvited, Invitation
<1> QED
  BY <1>1, <1>2, <1>3, <1>4 DEF MembershipInv

LEMMA StepWithdrawInvite ==
    ASSUME MembershipInv, NEW u \in People, WithdrawInvite(u)
    PROVE  MembershipInv'
<1> USE DEF membershipTrace
<1>1. MembershipTypeOK'
  <2>1. [invited[u] EXCEPT !.row = "deleted"] \in Invitation
    BY InvitationMakes DEF MembershipInv, MembershipTypeOK
  <2>2. invited' \in [People -> Invitation]
    BY <2>1 DEF MembershipInv, MembershipTypeOK, WithdrawInvite
  <2> QED
    BY <2>2, OrdersTypes DEF MembershipInv, MembershipTypeOK, WithdrawInvite
<1>2. UseInv'
  BY NoTurnNoUse DEF MembershipInv, MembershipTypeOK, WithdrawInvite, Orders, Codes
<1>3. MemberInv'
  BY AgentFields DEF MembershipInv, MembershipTypeOK, MemberInv, WithdrawInvite, Orders, Available, Stranger
<1>4. SettledInv'
  BY AgentFields
  DEF MembershipInv, MembershipTypeOK, SettledInv, MemberInv, Settled, WithdrawInvite, Orders, Available, Stranger,
      NotInvited, Invitation
<1> QED
  BY <1>1, <1>2, <1>3, <1>4 DEF MembershipInv

LEMMA StepRemoveMember ==
    ASSUME MembershipInv, NEW u \in People, RemoveMember(u)
    PROVE  MembershipInv'
<1> USE DEF membershipTrace
<1>1. MembershipTypeOK'
  BY AgentFields, AgentMakes, MembershipBoundsAssumption
  DEF MembershipInv, MembershipTypeOK, RemoveMember, Orders, Available, Codes, Stranger, NotInvited, Invitation
<1>2. UseInv'
  BY NoTurnNoUse DEF MembershipInv, MembershipTypeOK, RemoveMember, Orders, Codes
<1>3. MemberInv'
  BY AgentFields DEF MembershipInv, MembershipTypeOK, MemberInv, RemoveMember, Orders, Available, Stranger
<1>4. SettledInv'
  BY AgentFields
  DEF MembershipInv, MembershipTypeOK, SettledInv, MemberInv, Settled, RemoveMember, Orders, Available, Stranger,
      NotInvited, Invitation
<1> QED
  BY <1>1, <1>2, <1>3, <1>4 DEF MembershipInv

LEMMA StepExpireCode ==
    ASSUME MembershipInv, ExpireCode
    PROVE  MembershipInv'
<1> USE DEF membershipTrace
<1>1. MembershipTypeOK'
  <2>1. [code EXCEPT !.expired = TRUE] \in Codes
    BY MembershipBoundsAssumption, CodeMakes DEF MembershipInv, MembershipTypeOK
  <2> QED
    BY <2>1, OrdersTypes DEF MembershipInv, MembershipTypeOK, ExpireCode
<1>2. UseInv'
  BY NoTurnNoUse DEF MembershipInv, MembershipTypeOK, ExpireCode, Orders, Codes
<1>3. MemberInv'
  BY AgentFields DEF MembershipInv, MembershipTypeOK, MemberInv, ExpireCode, Orders, Available, Stranger
<1>4. SettledInv'
  BY AgentFields
  DEF MembershipInv, MembershipTypeOK, SettledInv, MemberInv, Settled, ExpireCode, Orders, Available, Stranger,
      NotInvited, Invitation
<1> QED
  BY <1>1, <1>2, <1>3, <1>4 DEF MembershipInv

-----------------------------------------------------------------------------
(* Memberships: the theorems.                                               *)

LEMMA MembershipInit_Inv == ASSUME MembershipInit PROVE MembershipInv
<1> USE DEF membershipTrace
<1>1. MembershipTypeOK
  <2>1. code \in Codes
    BY MembershipBoundsAssumption DEF MembershipInit, Codes
  <2>2. Stranger \in [id : Nat, verified : BOOLEAN] /\ NotInvited \in Invitation
    BY DEF Stranger, NotInvited, Invitation
  <2>3. Available \in AgentJobs
    BY CodeJobMakes
  <2>4. 0 \in 0 .. MaxOrders /\ 0 \in 0 .. MaxCrashes
    BY MembershipBoundsAssumption
  <2> QED
    BY <2>1, <2>2, <2>3, <2>4 DEF MembershipInit, MembershipTypeOK
<1>2. UseInv
  <2>1. Verifying = {}
    BY DEF MembershipInit, Verifying, Available
  <2>2. IsFiniteSet({}) /\ Cardinality({}) = 0
    BY FS_EmptySet
  <2> QED
    BY <2>1, <2>2, MembershipBoundsAssumption DEF MembershipInit, UseInv, Available
<1>3. MemberInv /\ SettledInv
  BY DEF MembershipInit, MemberInv, SettledInv, Available, NotInvited
<1> QED
  BY <1>1, <1>2, <1>3 DEF MembershipInv

LEMMA MembershipStep_Inv == ASSUME MembershipInv, [MembershipNext]_membershipVars PROVE MembershipInv'
<1>1. CASE UNCHANGED membershipVars
  BY <1>1
  DEF MembershipInv, MembershipTypeOK, UseInv, Verifying, MemberInv, SettledInv, Settled,
      membershipVars, membershipTrace
<1>2. CASE MembershipNext
  BY <1>2, StepJoin, StepVerifyWithCode, StepVerifyManually, StepAcceptInvite, StepReadInvite, StepInsert, StepSpend, StepSaveMember, StepSettle, StepMarkAccepted, StepReadCode, StepSaveCode, StepSaveInvite, StepCrash, StepInvite, StepWithdrawInvite, StepRemoveMember, StepExpireCode
  DEF MembershipNext
<1> QED
  BY <1>1, <1>2

\* The inductive invariant of Memberships holds in every state.
THEOREM MembershipInvariance == MembershipSpec => []MembershipInv
<1>1. MembershipInit => MembershipInv
  BY MembershipInit_Inv
<1>2. MembershipInv /\ [MembershipNext]_membershipVars => MembershipInv'
  BY MembershipStep_Inv
<1> QED
  BY <1>1, <1>2, PTL DEF MembershipSpec

\* Every variable of Memberships keeps its shape.
THEOREM MembershipTypesHold == MembershipSpec => []MembershipTypeOK
<1>1. MembershipInv => MembershipTypeOK
  BY DEF MembershipInv
<1> QED
  BY <1>1, MembershipInvariance, PTL

\* The code verifies no more members than it has uses, unless two saves of it
\* overlapped or its limit was lowered.
THEOREM CodeWithinLimitHolds == MembershipSpec => []CodeWithinLimit
<1>1. ASSUME MembershipInv PROVE CodeWithinLimit
  <2>1. /\ Cardinality(admitted) \in Nat /\ Cardinality(Verifying) \in Nat
        /\ code.uses \in Nat /\ code.limit \in Nat
    BY <1>1, FS_CardinalityType DEF MembershipInv, MembershipTypeOK, UseInv, Codes
  <2> QED
    BY <1>1, <2>1 DEF MembershipInv, UseInv, CodeWithinLimit
<1> QED
  BY <1>1, MembershipInvariance, PTL

\* Who accepted an invitation is a verified member, until they are removed and
\* unless the acceptance died between its two saves.
THEOREM InvitedIsVerifiedHolds == MembershipSpec => []InvitedIsVerified
<1>1. MembershipInv => InvitedIsVerified
  BY DEF MembershipInv, SettledInv, Settled, InvitedIsVerified
<1> QED
  BY <1>1, MembershipInvariance, PTL

-----------------------------------------------------------------------------
(* Presence: the commands of a handler.                                     *)

\* The order in which the commands of a handler come.
TurnOf(e) ==
    CASE e = "unlist" -> 1 [] e = "count" -> 2 [] e = "clear" -> 3 [] e = "stamp" -> 4
      [] e = "record" -> 5 [] e = "find" -> 6 [] e = "forget" -> 7 [] e = "drop" -> 8
      [] e = "probe" -> 9 [] e = "scan" -> 10 [] e = "fetch" -> 11 [] e = "send" -> 12
      [] e = "show" -> 13 [] OTHER -> 14

InSequence(td) == \A i, j \in 1 .. Len(td) : i < j => TurnOf(td[i]) < TurnOf(td[j])

\* What a handler that has one command still to do has to do as well, or not.
Follows(td) ==
    /\ Contains(td, "unlist") => Contains(td, "part")
    /\ Contains(td, "stamp") => Contains(td, "record")
    /\ Contains(td, "find") => Contains(td, "forget")
    /\ Contains(td, "forget") => Contains(td, "drop")
    /\ Contains(td, "drop") => Contains(td, "probe") \/ Contains(td, "scan")
    /\ Contains(td, "scan") => Contains(td, "fetch")
    /\ Contains(td, "fetch") => Contains(td, "send") \/ Contains(td, "show")
    /\ Contains(td, "probe") => \A e \in Commands : Contains(td, e) => TurnOf(e) \in 6 .. 9
    /\ Contains(td, "show") =>
          \A e \in Commands : Contains(td, e) => TurnOf(e) \in 6 .. 13 /\ e # "send"
    /\ Contains(td, "send") \/ Contains(td, "show") =>
          \A e \in Commands : Contains(td, e) /\ TurnOf(e) < 10 => Contains(td, "scan")
    /\ Contains(td, "clear") => \A e \in Commands : Contains(td, e) => TurnOf(e) >= 3
    /\ Contains(td, "part") => ~Contains(td, "record")

Shape(td) == td \in Seq(Commands) /\ InSequence(td) /\ Follows(td)

LEMMA NothingToDo == Shape(<<>>) /\ \A e : ~Contains(<<>>, e)
BY DEF Shape, InSequence, Follows, Contains

LEMMA Ranks == \A e \in Commands : TurnOf(e) \in 1 .. 14
BY DEF TurnOf, Commands

\* The commands that are left when the first one is done.
LEMMA Behead ==
    ASSUME NEW td, Shape(td), td # <<>>
    PROVE  /\ Head(td) \in Commands /\ Contains(td, Head(td)) /\ Shape(Tail(td))
           /\ \A e : Contains(td, e) => e \in Commands
           /\ \A e : Contains(Tail(td), e) <=> Contains(td, e) /\ e # Head(td)
           /\ \A e : Contains(td, e) => TurnOf(Head(td)) <= TurnOf(e)
<1>1. /\ td \in Seq(Commands) /\ Len(td) \in Nat /\ Len(td) > 0
      /\ Tail(td) \in Seq(Commands) /\ Len(Tail(td)) = Len(td) - 1
      /\ \A i \in 1 .. Len(td) - 1 : Tail(td)[i] = td[i + 1]
      /\ Head(td) = td[1] /\ \A i \in 1 .. Len(td) : td[i] \in Commands
  BY HeadTailProperties, EmptySeq, LenProperties, ElementOfSeq DEF Shape
<1>2. \A i \in 2 .. Len(td) : TurnOf(td[1]) < TurnOf(td[i])
  BY <1>1 DEF Shape, InSequence
<1>3. \A i \in 1 .. Len(td) : TurnOf(td[1]) <= TurnOf(td[i])
  BY <1>1, <1>2, Ranks
<1>4. \A i \in 2 .. Len(td) : td[i] # td[1]
  BY <1>1, <1>2, Ranks
<1>5. \A e : Contains(Tail(td), e) <=> Contains(td, e) /\ e # Head(td)
  <2>1. ASSUME NEW i \in 2 .. Len(td) PROVE i - 1 \in 1 .. Len(td) - 1 /\ Tail(td)[i - 1] = td[i]
    BY <1>1
  <2>2. ASSUME NEW e, Contains(Tail(td), e) PROVE Contains(td, e) /\ e # Head(td)
    <3>1. PICK i \in 1 .. Len(td) - 1 : Tail(td)[i] = e
      BY <1>1, <2>2 DEF Contains
    <3>2. i + 1 \in 2 .. Len(td) /\ td[i + 1] = e
      BY <1>1, <3>1
    <3> QED
      BY <1>1, <1>4, <3>2 DEF Contains
  <2>3. ASSUME NEW e, Contains(td, e), e # Head(td) PROVE Contains(Tail(td), e)
    <3>1. PICK i \in 1 .. Len(td) : td[i] = e
      BY <2>3 DEF Contains
    <3>2. i \in 2 .. Len(td)
      BY <1>1, <2>3, <3>1
    <3> QED
      BY <1>1, <2>1, <3>1, <3>2 DEF Contains
  <2> QED
    BY <2>2, <2>3
<1>6. \A e : Contains(td, e) => e \in Commands /\ TurnOf(Head(td)) <= TurnOf(e)
  BY <1>1, <1>3 DEF Contains
<1>7. InSequence(Tail(td))
  BY <1>1 DEF Shape, InSequence
<1>8. Contains(td, Head(td))
  BY <1>1 DEF Contains
<1>9. Follows(Tail(td))
  BY <1>1, <1>5, <1>6 DEF Shape, Follows, TurnOf, Commands
<1> QED
  BY <1>1, <1>5, <1>6, <1>7, <1>8, <1>9 DEF Shape


LEMMA Joined ==
    ASSUME NEW s \in Seq(Commands), NEW t \in Seq(Commands), InSequence(s), InSequence(t),
           \A i \in 1 .. Len(s), j \in 1 .. Len(t) : TurnOf(s[i]) < TurnOf(t[j])
    PROVE  /\ s \o t \in Seq(Commands) /\ InSequence(s \o t)
           /\ \A e : Contains(s \o t, e) <=> Contains(s, e) \/ Contains(t, e)
<1>1. /\ s \o t \in Seq(Commands) /\ Len(s) \in Nat /\ Len(t) \in Nat
      /\ Len(s \o t) = Len(s) + Len(t)
      /\ \A i \in 1 .. Len(s) + Len(t) :
            (s \o t)[i] = IF i <= Len(s) THEN s[i] ELSE t[i - Len(s)]
  BY ConcatProperties, LenProperties
<1>2. InSequence(s \o t)
  <2> SUFFICES ASSUME NEW i \in 1 .. Len(s \o t), NEW j \in 1 .. Len(s \o t), i < j
               PROVE  TurnOf((s \o t)[i]) < TurnOf((s \o t)[j])
    BY DEF InSequence
  <2>1. CASE j <= Len(s)
    BY <1>1, <2>1 DEF InSequence
  <2>2. CASE i <= Len(s) /\ ~(j <= Len(s))
    <3>1. i \in 1 .. Len(s) /\ j - Len(s) \in 1 .. Len(t)
      BY <1>1, <2>2
    <3> QED
      BY <1>1, <2>2, <3>1
  <2>3. CASE ~(i <= Len(s))
    <3>1. i - Len(s) \in 1 .. Len(t) /\ j - Len(s) \in 1 .. Len(t) /\ i - Len(s) < j - Len(s)
      BY <1>1, <2>3
    <3> QED
      BY <1>1, <2>3, <3>1 DEF InSequence
  <2> QED
    BY <2>1, <2>2, <2>3
<1>3. ASSUME NEW e, Contains(s, e) PROVE Contains(s \o t, e)
  BY <1>1, <1>3 DEF Contains
<1>4. ASSUME NEW e, Contains(t, e) PROVE Contains(s \o t, e)
  <2>1. PICK j \in 1 .. Len(t) : t[j] = e
    BY <1>4 DEF Contains
  <2>2. Len(s) + j \in 1 .. Len(s \o t) /\ ~(Len(s) + j <= Len(s)) /\ (Len(s) + j) - Len(s) = j
    BY <1>1
  <2> QED
    BY <1>1, <2>1, <2>2 DEF Contains
<1>5. ASSUME NEW e, Contains(s \o t, e) PROVE Contains(s, e) \/ Contains(t, e)
  <2>1. PICK i \in 1 .. Len(s) + Len(t) : (s \o t)[i] = e
    BY <1>1, <1>5 DEF Contains
  <2>2. CASE i <= Len(s)
    BY <1>1, <2>1, <2>2 DEF Contains
  <2>3. CASE ~(i <= Len(s))
    <3>1. i - Len(s) \in 1 .. Len(t)
      BY <1>1, <2>3
    <3> QED
      BY <1>1, <2>1, <2>3, <3>1 DEF Contains
  <2> QED
    BY <2>2, <2>3
<1> QED
  BY <1>1, <1>2, <1>3, <1>4, <1>5

Performs(td, cs) == Shape(td) /\ \A e : Contains(td, e) <=> e \in cs

LEMMA StoreLists == Performs(Store, {"stamp", "record"})
BY DEF Performs, Shape, InSequence, Follows, Store, Contains, TurnOf, Commands
LEMMA RefreshLists == Performs(Refresh, {"find", "forget", "drop", "probe"})
BY DEF Performs, Shape, InSequence, Follows, Refresh, Contains, TurnOf, Commands
LEMMA EnterLists == Performs(Enter, {"find", "forget", "drop", "scan", "fetch", "show"})
BY DEF Performs, Shape, InSequence, Follows, Enter, Read, Contains, TurnOf, Commands
LEMMA TellLists == Performs(Tell, {"find", "forget", "drop", "scan", "fetch", "send"})
BY DEF Performs, Shape, InSequence, Follows, Tell, Read, Contains, TurnOf, Commands

LEMMA StoreTellLists ==
    Performs(Store \o Tell, {"stamp", "record", "find", "forget", "drop", "scan", "fetch", "send"})
<1>1. \A i \in 1 .. Len(Store), j \in 1 .. Len(Tell) : TurnOf(Store[i]) < TurnOf(Tell[j])
  BY DEF Store, Tell, Read, TurnOf
<1>2. /\ Store \o Tell \in Seq(Commands) /\ InSequence(Store \o Tell)
      /\ \A e : Contains(Store \o Tell, e) <=> Contains(Store, e) \/ Contains(Tell, e)
  BY <1>1, StoreLists, TellLists, Joined DEF Performs, Shape
<1>3. \A e : Contains(Store \o Tell, e) <=>
          e \in {"stamp", "record", "find", "forget", "drop", "scan", "fetch", "send"}
  BY <1>2, StoreLists, TellLists DEF Performs
<1>4. Follows(Store \o Tell)
  BY <1>3 DEF Follows, TurnOf, Commands
<1> QED
  BY <1>2, <1>3, <1>4 DEF Performs, Shape

\* Leaving without telling, and telling the others.
LEMMA LeaveLists ==
    /\ Performs(TakeOut \o <<>> \o <<"part">>, {"unlist", "count", "part"})
    /\ Performs(TakeOut \o Tell \o <<"part">>,
             {"unlist", "count", "find", "forget", "drop", "scan", "fetch", "send", "part"})
<1> DEFINE P == <<"part">>
<1>1. /\ TakeOut \in Seq(Commands) /\ InSequence(TakeOut)
      /\ \A e : Contains(TakeOut, e) <=> e \in {"unlist", "count"}
  BY DEF TakeOut, InSequence, Contains, TurnOf, Commands
<1>2. /\ P \in Seq(Commands) /\ InSequence(P)
      /\ \A e : Contains(P, e) <=> e = "part"
  BY DEF InSequence, Contains, Commands
<1>3. \A i \in 1 .. Len(TakeOut), j \in 1 .. Len(P) : TurnOf(TakeOut[i]) < TurnOf(P[j])
  BY DEF TakeOut, TurnOf
<1>4. \A i \in 1 .. Len(TakeOut), j \in 1 .. Len(Tell) : TurnOf(TakeOut[i]) < TurnOf(Tell[j])
  BY DEF TakeOut, Tell, Read, TurnOf
<1>5. TakeOut \o <<>> = TakeOut
  BY <1>1, ConcatEmptySeq
<1>6. /\ TakeOut \o P \in Seq(Commands) /\ InSequence(TakeOut \o P)
      /\ \A e : Contains(TakeOut \o P, e) <=> e \in {"unlist", "count", "part"}
  <2> HIDE DEF P
  <2>1. /\ TakeOut \o P \in Seq(Commands) /\ InSequence(TakeOut \o P)
        /\ \A e : Contains(TakeOut \o P, e) <=> Contains(TakeOut, e) \/ Contains(P, e)
    BY <1>1, <1>2, <1>3, Joined
  <2> QED
    BY <1>1, <1>2, <2>1
<1>7. /\ TakeOut \o Tell \in Seq(Commands) /\ InSequence(TakeOut \o Tell)
      /\ \A e : Contains(TakeOut \o Tell, e) <=> Contains(TakeOut, e) \/ Contains(Tell, e)
  BY <1>1, <1>4, TellLists, Joined DEF Performs, Shape
<1>8. \A i \in 1 .. Len(TakeOut \o Tell), j \in 1 .. Len(P) :
          TurnOf((TakeOut \o Tell)[i]) < TurnOf(P[j])
  <2>1. ASSUME NEW i \in 1 .. Len(TakeOut \o Tell)
        PROVE  (TakeOut \o Tell)[i] \in
                   {"unlist", "count", "find", "forget", "drop", "scan", "fetch", "send"}
    <3>1. Contains(TakeOut \o Tell, (TakeOut \o Tell)[i])
      BY <2>1 DEF Contains
    <3> QED
      BY <1>1, <1>7, <3>1, TellLists DEF Performs
  <2> QED
    BY <2>1 DEF TurnOf
<1>9. /\ TakeOut \o Tell \o P \in Seq(Commands) /\ InSequence(TakeOut \o Tell \o P)
      /\ \A e : Contains(TakeOut \o Tell \o P, e) <=>
             e \in {"unlist", "count", "find", "forget", "drop", "scan", "fetch", "send", "part"}
  <2> HIDE DEF P
  <2>1. /\ TakeOut \o Tell \o P \in Seq(Commands) /\ InSequence(TakeOut \o Tell \o P)
        /\ \A e : Contains(TakeOut \o Tell \o P, e) <=>
                      Contains(TakeOut \o Tell, e) \/ Contains(P, e)
    BY <1>2, <1>7, <1>8, Joined
  <2> QED
    BY <1>1, <1>2, <1>7, <2>1, TellLists DEF Performs
<1>10. Follows(TakeOut \o P)
  BY <1>6 DEF Follows, TurnOf, Commands
<1>11. Follows(TakeOut \o Tell \o P)
  <2> HIDE DEF P
  <2> QED
    BY <1>9 DEF Follows, TurnOf, Commands
<1> QED
  BY <1>5, <1>6, <1>9, <1>10, <1>11 DEF Performs, Shape

\* The last one out clears the keys next.
LEMMA ClearNext ==
    ASSUME NEW td, Shape(td), td # <<>>, Head(td) = "count"
    PROVE  /\ Shape(<<"clear">> \o Tail(td))
           /\ \A e : Contains(<<"clear">> \o Tail(td), e) <=> e = "clear" \/ Contains(Tail(td), e)
<1> DEFINE C == <<"clear">>
<1>1. /\ C \in Seq(Commands) /\ InSequence(C) /\ \A e : Contains(C, e) <=> e = "clear"
      /\ \A i \in 1 .. Len(C) : C[i] = "clear"
  BY DEF InSequence, Contains, Commands
<1>2. /\ Shape(Tail(td)) /\ Contains(td, "count")
      /\ \A e : Contains(Tail(td), e) <=> Contains(td, e) /\ e # "count"
      /\ \A e : Contains(td, e) => TurnOf("count") <= TurnOf(e) /\ e \in Commands
  BY Behead
<1>3. Tail(td) \in Seq(Commands) /\ InSequence(Tail(td)) /\ Follows(Tail(td))
  BY <1>2 DEF Shape
<1>4. \A i \in 1 .. Len(C), j \in 1 .. Len(Tail(td)) : TurnOf(C[i]) < TurnOf(Tail(td)[j])
  <2>1. ASSUME NEW j \in 1 .. Len(Tail(td)) PROVE TurnOf("clear") < TurnOf(Tail(td)[j])
    <3>1. PICK e : e = Tail(td)[j]
      OBVIOUS
    <3>2. Contains(Tail(td), e)
      BY <2>1, <3>1 DEF Contains
    <3>3. e \in Commands /\ e # "count" /\ TurnOf("count") <= TurnOf(e)
      BY <1>2, <3>2
    <3>4. e # "clear"
      BY <1>2, <3>2 DEF Shape, Follows, TurnOf, Commands
    <3> QED
      BY <3>1, <3>3, <3>4 DEF TurnOf, Commands
  <2> QED
    BY <1>1, <2>1
<1>5. /\ C \o Tail(td) \in Seq(Commands) /\ InSequence(C \o Tail(td))
      /\ \A e : Contains(C \o Tail(td), e) <=> Contains(C, e) \/ Contains(Tail(td), e)
  <2> HIDE DEF C
  <2> QED
    BY <1>1, <1>3, <1>4, Joined
<1>6. Follows(C \o Tail(td))
  <2>1. \A e : Contains(C \o Tail(td), e) <=> e = "clear" \/ Contains(Tail(td), e)
    BY <1>1, <1>5
  <2>2. /\ \A e \in Commands : Contains(C \o Tail(td), e) => TurnOf(e) >= 3
        /\ Contains(td, "send") => Contains(td, "scan")
        /\ ~Contains(td, "show") /\ ~Contains(td, "probe")
    BY <1>2, <1>4, <2>1 DEF Shape, Follows, TurnOf, Commands
  <2> HIDE DEF C
  <2> QED
    BY <1>2, <1>3, <2>1, <2>2 DEF Follows, TurnOf, Commands
<1> QED
  BY <1>1, <1>5, <1>6 DEF Shape

\* Without stale connections nothing is removed.
LEMMA SkipRemoval ==
    ASSUME NEW td, Shape(td), td # <<>>, Head(td) = "find"
    PROVE  /\ Shape(SubSeq(td, 4, Len(td)))
           /\ \A e : Contains(SubSeq(td, 4, Len(td)), e) <=>
                         Contains(td, e) /\ e \notin {"find", "forget", "drop"}
<1>1. PICK t1 : t1 = Tail(td)
  OBVIOUS
<1>2. /\ Shape(t1) /\ \A e : Contains(t1, e) <=> Contains(td, e) /\ e # "find"
      /\ \A e : Contains(td, e) => TurnOf("find") <= TurnOf(e) /\ e \in Commands
      /\ Contains(td, "find")
  BY <1>1, Behead
<1>3. Contains(t1, "forget")
  BY <1>2 DEF Shape, Follows
<1>4. t1 # <<>>
  BY <1>3, NothingToDo
<1>5. Head(t1) = "forget"
  <2>1. /\ Head(t1) \in Commands /\ Contains(t1, Head(t1)) /\ TurnOf(Head(t1)) <= TurnOf("forget")
    BY <1>2, <1>3, <1>4, Behead
  <2>2. Head(t1) # "find" /\ TurnOf("find") <= TurnOf(Head(t1))
    BY <1>2, <2>1
  <2> QED
    BY <2>1, <2>2 DEF TurnOf, Commands
<1>6. PICK t2 : t2 = Tail(t1)
  OBVIOUS
<1>7. /\ Shape(t2) /\ \A e : Contains(t2, e) <=> Contains(t1, e) /\ e # "forget"
  BY <1>2, <1>4, <1>5, <1>6, Behead
<1>8. Contains(t1, "drop") /\ Contains(t2, "drop")
  BY <1>2, <1>3, <1>7 DEF Shape, Follows
<1>9. t2 # <<>>
  BY <1>8, NothingToDo
<1>10. Head(t2) = "drop"
  <2>1. /\ Head(t2) \in Commands /\ Contains(t2, Head(t2)) /\ TurnOf(Head(t2)) <= TurnOf("drop")
    BY <1>7, <1>8, <1>9, Behead
  <2>2. Head(t2) # "find" /\ Head(t2) # "forget" /\ TurnOf("find") <= TurnOf(Head(t2))
    BY <1>2, <1>7, <2>1
  <2> QED
    BY <2>1, <2>2 DEF TurnOf, Commands
<1>11. PICK t3 : t3 = Tail(t2)
  OBVIOUS
<1>12. Shape(t3) /\ \A e : Contains(t3, e) <=> Contains(t2, e) /\ e # "drop"
  BY <1>7, <1>9, <1>10, <1>11, Behead
<1>13. SubSeq(td, 4, Len(td)) = t3
  <2>1. /\ td \in Seq(Commands) /\ t1 \in Seq(Commands) /\ t2 \in Seq(Commands)
        /\ t3 \in Seq(Commands)
    BY <1>2, <1>7, <1>12 DEF Shape
  <2>2. /\ Len(td) \in Nat /\ Len(t1) = Len(td) - 1 /\ \A i \in 1 .. Len(t1) : t1[i] = td[i + 1]
    BY <1>1, <2>1, HeadTailProperties, EmptySeq, LenProperties
  <2>3. Len(t2) = Len(t1) - 1 /\ \A i \in 1 .. Len(t2) : t2[i] = t1[i + 1]
    BY <1>4, <1>6, <2>1, HeadTailProperties, EmptySeq, LenProperties
  <2>4. Len(t3) = Len(t2) - 1 /\ \A i \in 1 .. Len(t3) : t3[i] = t2[i + 1]
    BY <1>9, <1>11, <2>1, HeadTailProperties, EmptySeq, LenProperties
  <2>5. Len(t3) \in Nat /\ Len(t3) = Len(td) - 3 /\ \A i \in 1 .. Len(t3) : t3[i] = td[i + 3]
    <3>1. Len(t3) \in Nat /\ Len(t3) = Len(td) - 3
      BY <2>1, <2>2, <2>3, <2>4, LenProperties
    <3>2. ASSUME NEW i \in 1 .. Len(t3) PROVE t3[i] = td[i + 3]
      <4>1. i + 1 \in 1 .. Len(t2) /\ i + 2 \in 1 .. Len(t1)
        BY <2>2, <2>3, <2>4, <3>1
      <4> QED
        BY <2>2, <2>3, <2>4, <4>1
    <3> QED
      BY <3>1, <3>2
  <2>6. PICK u : u = SubSeq(td, 4, Len(td))
    OBVIOUS
  <2>7. u \in Seq(Commands) /\ Len(u) = Len(t3) /\ \A i \in 1 .. Len(t3) : u[i] = td[i + 3]
    BY <2>1, <2>2, <2>5, <2>6, SubSeqProperties
  <2>8. u = t3
    BY <2>1, <2>5, <2>7, SeqEqual
  <2> QED
    BY <2>6, <2>8
<1> QED
  BY <1>2, <1>7, <1>12, <1>13

-----------------------------------------------------------------------------
(* Presence: the inductive invariant.                                       *)

\* How far a handler is and what that says about its connection.
TaskOf(c) ==
    /\ Shape(task[c].todo)
    /\ phase[c] = "out" => section[c] = Unset /\ view[c] = {} /\ task[c] = Quiet
    /\ section[c] = Unset => /\ listed[c] = "no" /\ record[c] = Unset
                             /\ ~ToDo(c, "record") /\ ~ToDo(c, "probe")
    /\ listed[c] = "stale" => c \in lapsed
    /\ ToDo(c, "clear") => task[c].seen = {}
    /\ ToDo(c, "unlist") => ToDo(c, "send") \/ section[c] = Unset
    /\ ToDo(c, "probe") /\ ~ToDo(c, "find") /\ task[c].found = {} => listed[c] # "stale"

\* LiveIsListed, but for what the handler is still going to write.
LiveOf(c) ==
    c \in InGroup \ lapsed /\ section[c] # Unset /\ ~ToDo(c, "part") =>
        /\ ToDo(c, "stamp") \/ listed[c] # "no"
        /\ ToDo(c, "record") \/ record[c] = section[c]

\* While nothing is missed, who is listed is listed with its section, and a
\* handler that tells nobody writes what is there already.
KeptOf(c) ==
    /\ listed[c] # "no" /\ ~ToDo(c, "record") => record[c] = section[c]
    /\ ToDo(c, "record") /\ ~ToDo(c, "stamp") => listed[c] = "fresh"
    /\ ToDo(c, "record") /\ ~ToDo(c, "send") => listed[c] = "fresh" /\ record[c] = section[c]

TaskInv == \A c \in Conns : TaskOf(c)
LiveInv == \A c \in Conns : LiveOf(c)
KeptInv == missed = {} => \A c \in Conns : KeptOf(c)

\* Those with a record.
Recorded(cs) == {c \in cs : record[c] # Unset}

\* What the handler has read, or is going to read, is what is stored now.
Current(c) ==
    \/ ToDo(c, "scan")
    \/ ToDo(c, "fetch") /\ Recorded(task[c].seen) = Recorded(Listed)
    \/ ~ToDo(c, "fetch") /\ task[c].state = Listing

WillTell(c) ==
    IF ToDo(c, "probe") THEN task[c].found # {} ELSE ToDo(c, "send") /\ Current(c)

\* The client shows what is stored, or is about to.
Told(c) == IF ToDo(c, "show") /\ view[c] = {} THEN Current(c) ELSE view[c] = {Listing}

Timely(c) == ToDo(c, "send") /\ ~task[c].late => Current(c)

\* Somebody is going to tell what is stored, or all have been told it and those
\* that are going to tell something else know that they are late.
AgreeInv ==
    missed = {} =>
        \/ \E c \in Conns : WillTell(c)
        \/ (\A c \in Conns : Timely(c)) /\ \A c \in InGroup : Told(c)

PresenceInv == PresenceTypeOK /\ TaskInv /\ LiveInv /\ KeptInv /\ AgreeInv

-----------------------------------------------------------------------------
(* Presence: steps.                                                         *)

\* The parts of the type invariant.
LEMMA PresenceTypes ==
    ASSUME PresenceTypeOK
    PROVE  /\ phase \in [Conns -> {"out", "in", "gone"}]
           /\ section \in [Conns -> Sections \cup {Unset}]
           /\ listed \in [Conns -> {"no", "fresh", "stale"}]
           /\ record \in [Conns -> Sections \cup {Unset}]
           /\ view \in [Conns -> SUBSET States]
           /\ task \in [Conns -> Tasks] /\ missed \subseteq Misses /\ lapsed \subseteq Conns
           /\ Listed \subseteq Conns /\ Stale \subseteq Conns
           /\ \A cs \in SUBSET Conns : Shows(cs) \in States
BY DEF PresenceTypeOK, Listed, Stale, Shows, States

LEMMA QuietTask ==
    /\ Quiet \in Tasks /\ Quiet.todo = <<>> /\ Quiet.found = {} /\ Quiet.seen = {}
    /\ \A td \in Seq(Commands) :
          /\ Fresh(td) \in Tasks /\ Fresh(td).todo = td /\ Fresh(td).found = {}
          /\ Fresh(td).seen = {} /\ ~Fresh(td).late
<1>1. <<>> \in Seq(Commands) /\ {} \in SUBSET Conns /\ {} \in States
  BY DEF States
<1> QED
  BY <1>1 DEF Quiet, Fresh, Tasks

\* Tasks with one field written.
Left(t, td)       == [t EXCEPT !.todo = td]
WithFound(t, cs)  == [t EXCEPT !.found = cs]
WithSeen(t, cs)   == [t EXCEPT !.seen = cs]
WithState(t, st)  == [t EXCEPT !.state = st]

\* A task but for what it has to do.
SameButTodo(u, t) == u.found = t.found /\ u.seen = t.seen /\ u.state = t.state /\ u.late = t.late

LEMMA TaskFields ==
    ASSUME NEW t \in Tasks
    PROVE  /\ t.todo \in Seq(Commands) /\ t.found \in SUBSET Conns /\ t.seen \in SUBSET Conns
           /\ t.state \in States /\ t.late \in BOOLEAN
BY DEF Tasks

LEMMA TaskWrites ==
    ASSUME NEW t \in Tasks
    PROVE  /\ \A td \in Seq(Commands) :
                  Left(t, td) \in Tasks /\ Left(t, td).todo = td /\ SameButTodo(Left(t, td), t)
           /\ \A cs \in SUBSET Conns :
                  /\ WithFound(t, cs) \in Tasks /\ WithFound(t, cs).todo = t.todo
                  /\ WithFound(t, cs).found = cs /\ WithFound(t, cs).seen = t.seen
           /\ \A cs \in SUBSET Conns :
                  /\ WithSeen(t, cs) \in Tasks /\ WithSeen(t, cs).todo = t.todo
                  /\ WithSeen(t, cs).seen = cs /\ WithSeen(t, cs).found = t.found
                  /\ WithSeen(t, cs).state = t.state /\ WithSeen(t, cs).late = t.late
           /\ \A st \in States :
                  /\ WithState(t, st) \in Tasks /\ WithState(t, st).todo = t.todo
                  /\ WithState(t, st).state = st /\ WithState(t, st).late = t.late
BY DEF Tasks, Left, WithFound, WithSeen, WithState, SameButTodo

\* The task after its first command.
LEMMA AfterIsTask ==
    ASSUME PresenceTypeOK, NEW c \in Conns, task[c].todo # <<>>
    PROVE  /\ task[c] \in Tasks /\ After(c) \in Tasks /\ After(c).todo = Tail(task[c].todo)
           /\ SameButTodo(After(c), task[c])
<1>1. task[c] \in Tasks
  BY DEF PresenceTypeOK
<1>2. Tail(task[c].todo) \in Seq(Commands)
  BY <1>1, TaskFields, HeadTailProperties, EmptySeq
<1>3. After(c) = Left(task[c], Tail(task[c].todo))
  BY DEF After, Left
<1>4. PICK td \in Seq(Commands) : td = Tail(task[c].todo)
  BY <1>2
<1>5. /\ Left(task[c], td) \in Tasks /\ Left(task[c], td).todo = td
      /\ SameButTodo(Left(task[c], td), task[c])
  BY <1>1, TaskWrites
<1> QED
  BY <1>1, <1>3, <1>4, <1>5 DEF SameButTodo

\* The others and the handler itself after a command.
LEMMA GoesTo ==
    ASSUME task \in [Conns -> Tasks], \A x \in Conns : Shape(task[x].todo),
           NEW c \in Conns, NEW t \in Tasks, Shape(t.todo), Goes(c, t)
    PROVE  /\ task' \in [Conns -> Tasks] /\ \A x \in Conns : Shape(task'[x].todo)
           /\ \A x \in Conns \ {c} : task'[x] = task[x]
           /\ task'[c].todo = t.todo /\ (t.todo # <<>> => task'[c] = t)
           /\ \A e : ToDo(c, e)' <=> Contains(t.todo, e)
           /\ \A e : ToDo(c, e)' => task'[c] = t
<1>1. PICK u \in Tasks : u = IF t.todo = <<>> THEN Quiet ELSE t
  BY QuietTask
<1>2. task' = [task EXCEPT ![c] = u]
  BY <1>1 DEF Goes
<1>3. task' \in [Conns -> Tasks] /\ task'[c] = u /\ \A x \in Conns \ {c} : task'[x] = task[x]
  BY <1>2
<1>4. u.todo = t.todo /\ (t.todo # <<>> => u = t)
  BY <1>1, QuietTask
<1>5. \A x \in Conns : Shape(task'[x].todo)
  BY <1>3, <1>4
<1>6. \A e : ToDo(c, e)' <=> Contains(t.todo, e)
  BY <1>3, <1>4 DEF ToDo
<1>7. \A e : ToDo(c, e)' => task'[c] = t
  BY <1>3, <1>4, <1>6, NothingToDo
<1> QED
  BY <1>3, <1>4, <1>5, <1>6, <1>7

\* A command is done and the next one is due.
LEMMA Advances ==
    ASSUME PresenceInv, NEW c \in Conns, NEW h, At(c, h),
           NEW t \in Tasks, t.todo = Tail(task[c].todo), Goes(c, t)
    PROVE  /\ task' \in [Conns -> Tasks] /\ \A x \in Conns : Shape(task'[x].todo)
           /\ \A x \in Conns \ {c} : task'[x] = task[x]
           /\ h \in Commands /\ ToDo(c, h) /\ phase[c] # "out"
           /\ \A e : ToDo(c, e)' <=> ToDo(c, e) /\ e # h
           /\ \A e : ToDo(c, e) => e \in Commands /\ TurnOf(h) <= TurnOf(e)
           /\ \A e : ToDo(c, e)' => task'[c] = t
           /\ Follows(task[c].todo)
<1>1. task \in [Conns -> Tasks] /\ \A x \in Conns : Shape(task[x].todo)
  BY PresenceTypes DEF PresenceInv, TaskInv, TaskOf
<1>2. /\ Shape(task[c].todo) /\ task[c].todo # <<>> /\ Head(task[c].todo) = h
  BY <1>1 DEF At
<1>3. /\ h \in Commands /\ Contains(task[c].todo, h) /\ Shape(t.todo)
      /\ \A e : Contains(task[c].todo, e) => e \in Commands
      /\ \A e : Contains(t.todo, e) <=> Contains(task[c].todo, e) /\ e # h
      /\ \A e : Contains(task[c].todo, e) => TurnOf(h) <= TurnOf(e)
  BY <1>2, Behead
<1>4. /\ task' \in [Conns -> Tasks] /\ \A x \in Conns : Shape(task'[x].todo)
      /\ \A x \in Conns \ {c} : task'[x] = task[x]
      /\ \A e : ToDo(c, e)' <=> Contains(t.todo, e)
      /\ \A e : ToDo(c, e)' => task'[c] = t
  BY <1>1, <1>3, GoesTo
<1>5. Follows(task[c].todo)
  BY <1>2 DEF Shape
<1>6. phase[c] # "out"
  BY <1>2, QuietTask DEF PresenceInv, TaskInv, TaskOf
<1> QED
  BY <1>3, <1>4, <1>5, <1>6 DEF ToDo

\* Nobody who reads the keys can tell the difference.
SameStored ==
    \A y \in Conns : /\ listed'[y] # "no" <=> listed[y] # "no"
                     /\ record'[y] = record[y] \/ (listed[y] = "no" /\ record'[y] = Unset)

LEMMA SameListing ==
    ASSUME PresenceTypeOK, SameStored
    PROVE  /\ Listing' = Listing
           /\ \A cs \in SUBSET Conns : Recorded(cs) = Recorded(Listed) =>
                  Recorded(cs)' = Recorded(Listed)'
<1>1. Listed' = Listed /\ Listed \subseteq Conns
  BY DEF SameStored, Listed
<1>2. \A y \in Listed : record'[y] = record[y]
  BY DEF SameStored, Listed
<1>3. Listing' = Listing
  BY <1>1, <1>2 DEF Listing, Shows
<1>4. ASSUME NEW cs \in SUBSET Conns, Recorded(cs) = Recorded(Listed)
      PROVE  Recorded(cs)' = Recorded(Listed)'
  <2>1. Recorded(Listed)' = {y \in Listed : record[y] # Unset}
    BY <1>1, <1>2 DEF Recorded
  <2>2. {y \in cs : record'[y] # Unset} = {y \in cs : record[y] # Unset}
    <3>1. ASSUME NEW y \in cs, record[y] # Unset PROVE record'[y] # Unset
      <4>1. y \in Listed
        BY <1>4, <3>1 DEF Recorded
      <4> QED
        BY <1>2, <3>1, <4>1
    <3>2. ASSUME NEW y \in cs, record'[y] # Unset PROVE record[y] # Unset
      BY <3>2 DEF SameStored
    <3> QED
      BY <3>1, <3>2
  <2> QED
    BY <1>4, <2>1, <2>2 DEF Recorded
<1> QED
  BY <1>3, <1>4

LEMMA CurrentStays ==
    ASSUME PresenceTypeOK, SameStored, NEW x \in Conns, task'[x] = task[x]
    PROVE  /\ Current(x) => Current(x)'
           /\ WillTell(x) => WillTell(x)'
           /\ Timely(x) => Timely(x)'
           /\ view'[x] = view[x] /\ Told(x) => Told(x)'
<1>1. task[x].seen \in SUBSET Conns
  BY PresenceTypes, TaskFields
<1>2. \A e : ToDo(x, e)' <=> ToDo(x, e)
  BY DEF ToDo
<1>3. Listing' = Listing
  BY SameListing
<1>4. Recorded(task[x].seen) = Recorded(Listed) => Recorded(task[x].seen)' = Recorded(Listed)'
  BY <1>1, SameListing DEF Recorded
<1>5. Current(x) => Current(x)'
  BY <1>2, <1>3, <1>4 DEF Current
<1> QED
  BY <1>2, <1>3, <1>5 DEF WillTell, Timely, Told

\* A step that does not change what is stored.
LEMMA AgreeKeeps ==
    ASSUME PresenceInv, NEW c \in Conns, missed \subseteq missed',
           missed' = {} => SameStored,
           \A x \in Conns \ {c} : task'[x] = task[x] /\ view'[x] = view[x],
           InGroup' \subseteq InGroup \cup {c},
           missed' = {} => /\ WillTell(c) => WillTell(c)'
                           /\ Timely(c) => Timely(c)'
                           /\ c \in InGroup' /\ (c \in InGroup => Told(c)) => Told(c)'
    PROVE  AgreeInv'
<1> SUFFICES ASSUME missed' = {}
             PROVE  \/ \E x \in Conns : WillTell(x)'
                    \/ (\A x \in Conns : Timely(x)') /\ \A x \in InGroup' : Told(x)'
  BY DEF AgreeInv
<1>1. PresenceTypeOK /\ SameStored /\ missed = {}
  BY DEF PresenceInv
<1>2. \A x \in Conns \ {c} : /\ WillTell(x) => WillTell(x)'
                             /\ Timely(x) => Timely(x)'
                             /\ Told(x) => Told(x)'
  BY <1>1, CurrentStays
<1>3. CASE \E x \in Conns : WillTell(x)
  BY <1>1, <1>2, <1>3
<1>4. CASE (\A x \in Conns : Timely(x)) /\ \A x \in InGroup : Told(x)
  <2>1. \A x \in Conns : Timely(x)'
    BY <1>2, <1>4
  <2>2. \A x \in InGroup' : Told(x)'
    <3>1. ASSUME NEW x \in InGroup', x # c PROVE Told(x)'
      <4>1. x \in InGroup /\ x \in Conns
        BY <3>1 DEF InGroup
      <4> QED
        BY <1>2, <1>4, <3>1, <4>1
    <3> QED
      BY <1>4, <3>1
  <2> QED
    BY <2>1, <2>2
<1> QED
  BY <1>1, <1>3, <1>4 DEF PresenceInv, AgreeInv

LEMMA AgreeIfTold ==
    ASSUME NEW c \in Conns, missed' = {} => WillTell(c)'
    PROVE  AgreeInv'
BY DEF AgreeInv

\* A command before the keys are read.
LEMMA EarlyCommand ==
    ASSUME PresenceTypeOK, SameStored, NEW c \in Conns, view'[c] = view[c],
           \A e \in {"probe", "scan", "send", "show"} : ToDo(c, e)' <=> ToDo(c, e),
           ToDo(c, "send") \/ ToDo(c, "show") => ToDo(c, "scan"),
           ToDo(c, "probe") /\ task[c].found # {} => task'[c].found # {}
    PROVE  /\ WillTell(c) => WillTell(c)'
           /\ Timely(c) => Timely(c)'
           /\ Told(c) => Told(c)'
<1>1. Listing' = Listing
  BY SameListing
<1>2. ToDo(c, "scan") => Current(c) /\ Current(c)'
  BY DEF Current
<1> QED
  BY <1>1, <1>2 DEF WillTell, Timely, Told

\* A step that concerns one connection only.
LEMMA OwnStep ==
    ASSUME PresenceInv, NEW c \in Conns, missed \subseteq missed',
           \A x \in Conns \ {c} :
               /\ task'[x] = task[x] /\ phase'[x] = phase[x] /\ section'[x] = section[x]
               /\ listed'[x] = listed[x] /\ record'[x] = record[x] /\ view'[x] = view[x]
               /\ x \in lapsed' <=> x \in lapsed,
           TaskOf(c)', LiveOf(c)', missed' = {} => KeptOf(c)'
    PROVE  TaskInv' /\ LiveInv' /\ KeptInv'
<1>1. ASSUME NEW x \in Conns \ {c} PROVE TaskOf(x)' /\ LiveOf(x)' /\ (missed' = {} => KeptOf(x)')
  <2>1. TaskOf(x) /\ LiveOf(x) /\ (missed' = {} => KeptOf(x))
    BY DEF PresenceInv, TaskInv, LiveInv, KeptInv
  <2>2. \A e : ToDo(x, e)' <=> ToDo(x, e)
    BY DEF ToDo
  <2>3. x \in InGroup' <=> x \in InGroup
    BY DEF InGroup
  <2>4. TaskOf(x)'
    BY <2>1, <2>2 DEF TaskOf
  <2>5. LiveOf(x)'
    BY <2>1, <2>2, <2>3 DEF LiveOf
  <2>6. missed' = {} => KeptOf(x)'
    BY <2>1, <2>2 DEF KeptOf
  <2> QED
    BY <2>4, <2>5, <2>6
<1> QED
  BY <1>1 DEF TaskInv, LiveInv, KeptInv

\* A handler begins.
LEMMA HandlerBegins ==
    ASSUME PresenceInv, NEW c \in Conns, NEW td, NEW cs, Performs(td, cs), Handle(c, td)
    PROVE  /\ task' \in [Conns -> Tasks] /\ \A x \in Conns \ {c} : task'[x] = task[x]
           /\ Shape(task'[c].todo) /\ task'[c] = Fresh(td) /\ task[c] = Quiet
           /\ \A e : ToDo(c, e)' <=> e \in cs
           /\ \A e : ~ToDo(c, e)
<1>1. task \in [Conns -> Tasks]
  BY PresenceTypes DEF PresenceInv
<1>2. Shape(td) /\ td \in Seq(Commands) /\ Fresh(td) \in Tasks /\ Fresh(td).todo = td
  BY QuietTask DEF Performs, Shape
<1>3. task[c] = Quiet /\ task' = [task EXCEPT ![c] = Fresh(td)]
  BY DEF Handle
<1>4. \A e : ~ToDo(c, e)
  BY <1>3, QuietTask, NothingToDo DEF ToDo
<1>5. /\ task' \in [Conns -> Tasks] /\ task'[c] = Fresh(td)
      /\ \A x \in Conns \ {c} : task'[x] = task[x]
  BY <1>1, <1>2, <1>3
<1> QED
  BY <1>2, <1>3, <1>4, <1>5 DEF ToDo, Performs

LEMMA Authenticate_Inv ==
    ASSUME PresenceInv, NEW c \in Conns, Authenticate(c)
    PROVE  PresenceInv'
<1>1. /\ task' \in [Conns -> Tasks] /\ \A x \in Conns \ {c} : task'[x] = task[x]
      /\ Shape(task'[c].todo) /\ \A e : ~ToDo(c, e)
      /\ \A e : ToDo(c, e)' <=> e \in {"find", "forget", "drop", "scan", "fetch", "show"}
  BY EnterLists, HandlerBegins DEF Authenticate
<1>2. /\ phase[c] = "out" /\ phase' = [phase EXCEPT ![c] = "in"]
      /\ UNCHANGED <<section, listed, record, view, events, lapsed, missed>>
  BY DEF Authenticate, stored, history
<1>3. TaskOf(c) /\ LiveOf(c) /\ (missed = {} => KeptOf(c)) /\ PresenceTypeOK
  BY DEF PresenceInv, TaskInv, LiveInv, KeptInv
<1>4. PresenceTypeOK'
  BY <1>1, <1>2, <1>3 DEF PresenceTypeOK
<1>5. phase'[c] = "in" /\ \A x \in Conns \ {c} : phase'[x] = phase[x]
  BY <1>2, <1>3 DEF PresenceTypeOK
<1>6. TaskOf(c)'
  BY <1>1, <1>2, <1>3, <1>5 DEF TaskOf
<1>7. LiveOf(c)'
  BY <1>2, <1>3 DEF TaskOf, LiveOf
<1>8. missed' = {} => KeptOf(c)'
  BY <1>1, <1>2, <1>3 DEF KeptOf
<1>9. TaskInv' /\ LiveInv' /\ KeptInv'
  BY <1>1, <1>2, <1>5, <1>6, <1>7, <1>8, OwnStep
<1>10. AgreeInv'
  <2>1. InGroup' \subseteq InGroup \cup {c}
    BY <1>5 DEF InGroup
  <2>2. SameStored
    BY <1>2 DEF SameStored
  <2>3. ~WillTell(c) /\ Timely(c)' /\ Told(c)'
    <3>1. ~WillTell(c)
      BY <1>1 DEF WillTell
    <3>2. Current(c)'
      BY <1>1 DEF Current
    <3>3. view'[c] = {} /\ ToDo(c, "show")'
      BY <1>1, <1>2, <1>3 DEF TaskOf
    <3> QED
      BY <3>1, <3>2, <3>3 DEF Timely, Told
  <2>4. missed \subseteq missed' /\ \A x \in Conns \ {c} : task'[x] = task[x] /\ view'[x] = view[x]
    BY <1>1, <1>2
  <2> QED
    BY <2>1, <2>2, <2>3, <2>4, AgreeKeeps
<1> QED
  BY <1>4, <1>9, <1>10 DEF PresenceInv

LEMMA PageChange_Inv ==
    ASSUME PresenceInv, NEW c \in Conns, NEW s \in Sections, PageChange(c, s)
    PROVE  PresenceInv'
<1>1. /\ task' \in [Conns -> Tasks] /\ \A x \in Conns \ {c} : task'[x] = task[x]
      /\ Shape(task'[c].todo) /\ \A e : ~ToDo(c, e)
      /\ \A e : ToDo(c, e)' <=>
             e \in {"stamp", "record", "find", "forget", "drop", "scan", "fetch", "send"}
  BY StoreTellLists, HandlerBegins DEF PageChange, Moving
<1>2. /\ phase[c] = "in" /\ section' = [section EXCEPT ![c] = s] /\ events' \in 0 .. MaxEvents
      /\ UNCHANGED <<phase, listed, record, view, lapsed, missed>>
  BY PresenceBoundsAssumption DEF PageChange, Happens, stored, history, PresenceInv, PresenceTypeOK
<1>3. TaskOf(c) /\ PresenceTypeOK
  BY DEF PresenceInv, TaskInv
<1>4. PresenceTypeOK'
  BY <1>1, <1>2, <1>3 DEF PresenceTypeOK
<1>5. section'[c] = s /\ s # Unset /\ \A x \in Conns \ {c} : section'[x] = section[x]
  BY <1>2, <1>3, UnsetAssumption DEF PresenceTypeOK
<1>6. TaskOf(c)'
  BY <1>1, <1>2, <1>3, <1>5 DEF TaskOf
<1>7. LiveOf(c)' /\ KeptOf(c)'
  BY <1>1 DEF LiveOf, KeptOf
<1>8. TaskInv' /\ LiveInv' /\ KeptInv'
  BY <1>1, <1>2, <1>5, <1>6, <1>7, OwnStep
<1>9. AgreeInv'
  BY <1>1, AgreeIfTold DEF WillTell, Current
<1> QED
  BY <1>4, <1>8, <1>9 DEF PresenceInv

LEMMA Ping_Inv ==
    ASSUME PresenceInv, NEW c \in Conns, Ping(c)
    PROVE  PresenceInv'
<1>1. /\ task' \in [Conns -> Tasks] /\ \A x \in Conns \ {c} : task'[x] = task[x]
      /\ Shape(task'[c].todo) /\ \A e : ~ToDo(c, e)
      /\ \A e : ToDo(c, e)' <=> e \in {"find", "forget", "drop", "probe"}
      /\ task'[c].found = {}
  <2>1. Refresh \in Seq(Commands)
    BY RefreshLists DEF Performs, Shape
  <2> QED
    BY <2>1, RefreshLists, HandlerBegins, QuietTask DEF Ping
<1>2. /\ phase[c] = "in" /\ section[c] # Unset /\ events' \in 0 .. MaxEvents
      /\ UNCHANGED <<phase, section, listed, record, view, lapsed, missed>>
  BY PresenceBoundsAssumption DEF Ping, Happens, stored, history, PresenceInv, PresenceTypeOK
<1>3. TaskOf(c) /\ LiveOf(c) /\ (missed = {} => KeptOf(c)) /\ PresenceTypeOK
  BY DEF PresenceInv, TaskInv, LiveInv, KeptInv
<1>4. PresenceTypeOK'
  BY <1>1, <1>2, <1>3 DEF PresenceTypeOK
<1>5. TaskOf(c)'
  BY <1>1, <1>2, <1>3 DEF TaskOf
<1>6. LiveOf(c)' /\ (missed' = {} => KeptOf(c)')
  BY <1>1, <1>2, <1>3 DEF LiveOf, KeptOf, InGroup
<1>7. TaskInv' /\ LiveInv' /\ KeptInv'
  BY <1>1, <1>2, <1>5, <1>6, OwnStep
<1>8. AgreeInv'
  <2>1. InGroup' \subseteq InGroup \cup {c} /\ SameStored /\ missed \subseteq missed'
    BY <1>2 DEF InGroup, SameStored
  <2>2. ~WillTell(c) /\ Timely(c)'
    BY <1>1 DEF WillTell, Timely
  <2>3. c \in InGroup' /\ (c \in InGroup => Told(c)) => Told(c)'
    <3>1. Listing' = Listing
      BY <1>3, <2>1, SameListing
    <3> QED
      BY <1>1, <1>2, <3>1 DEF Told, InGroup
  <2> QED
    BY <1>1, <1>2, <2>1, <2>2, <2>3, AgreeKeeps
<1> QED
  BY <1>4, <1>7, <1>8 DEF PresenceInv

LEMMA Disconnect_Inv ==
    ASSUME PresenceInv, NEW c \in Conns, Disconnect(c)
    PROVE  PresenceInv'
<1>1. /\ phase[c] = "in"
      /\ UNCHANGED <<phase, section, listed, record, view, events, lapsed, missed>>
  BY DEF Disconnect, stored, history
<1>2. TaskOf(c) /\ LiveOf(c) /\ (missed = {} => KeptOf(c)) /\ PresenceTypeOK
  BY DEF PresenceInv, TaskInv, LiveInv, KeptInv
<1>3. /\ task' \in [Conns -> Tasks] /\ \A x \in Conns \ {c} : task'[x] = task[x]
      /\ Shape(task'[c].todo) /\ \A e : ~ToDo(c, e)
      /\ ToDo(c, "part")' /\ ~ToDo(c, "record")' /\ ~ToDo(c, "clear")' /\ ~ToDo(c, "probe")'
      /\ ~ToDo(c, "show")' /\ (ToDo(c, "send")' => ToDo(c, "scan")')
      /\ ToDo(c, "send")' \/ section[c] = Unset
  <2>1. CASE section[c] = Unset
    <3>1. Handle(c, TakeOut \o <<>> \o <<"part">>)
      BY <2>1 DEF Disconnect
    <3>2. /\ task' \in [Conns -> Tasks] /\ \A x \in Conns \ {c} : task'[x] = task[x]
          /\ Shape(task'[c].todo) /\ \A e : ~ToDo(c, e)
          /\ \A e : ToDo(c, e)' <=> e \in {"unlist", "count", "part"}
      BY <3>1, LeaveLists, HandlerBegins
    <3> QED
      BY <2>1, <3>2
  <2>2. CASE section[c] # Unset
    <3>1. Handle(c, TakeOut \o Tell \o <<"part">>)
      BY <2>2 DEF Disconnect
    <3>2. /\ task' \in [Conns -> Tasks] /\ \A x \in Conns \ {c} : task'[x] = task[x]
          /\ Shape(task'[c].todo) /\ \A e : ~ToDo(c, e)
          /\ \A e : ToDo(c, e)' <=> e \in {"unlist", "count", "find", "forget", "drop",
                                           "scan", "fetch", "send", "part"}
      BY <3>1, LeaveLists, HandlerBegins
    <3> QED
      BY <3>2
  <2> QED
    BY <2>1, <2>2
<1>4. PresenceTypeOK'
  BY <1>1, <1>2, <1>3 DEF PresenceTypeOK
<1>5. TaskOf(c)' /\ LiveOf(c)' /\ (missed' = {} => KeptOf(c)')
  BY <1>1, <1>2, <1>3 DEF TaskOf, LiveOf, KeptOf
<1>6. TaskInv' /\ LiveInv' /\ KeptInv'
  BY <1>1, <1>3, <1>5, OwnStep
<1>7. AgreeInv'
  <2>1. InGroup' \subseteq InGroup \cup {c} /\ SameStored /\ missed \subseteq missed'
    BY <1>1 DEF InGroup, SameStored
  <2>2. ~WillTell(c) /\ Timely(c)'
    BY <1>3 DEF WillTell, Timely, Current
  <2>3. c \in InGroup' /\ (c \in InGroup => Told(c)) => Told(c)'
    <3>1. Listing' = Listing
      BY <1>2, <2>1, SameListing
    <3> QED
      BY <1>1, <1>3, <3>1 DEF Told, InGroup
  <2> QED
    BY <1>1, <1>3, <2>1, <2>2, <2>3, AgreeKeeps
<1> QED
  BY <1>4, <1>6, <1>7 DEF PresenceInv

\* A command that touches neither the keys nor what the client was shown.
LEMMA InwardCommand ==
    ASSUME PresenceInv, NEW c \in Conns,
           UNCHANGED <<phase, section, listed, record, view, events, lapsed, missed>>,
           task' \in [Conns -> Tasks], \A x \in Conns \ {c} : task'[x] = task[x],
           TaskOf(c)', LiveOf(c)', missed' = {} => KeptOf(c)',
           missed' = {} => /\ WillTell(c) => WillTell(c)'
                           /\ Timely(c) => Timely(c)'
                           /\ Told(c) => Told(c)'
    PROVE  PresenceInv'
<1>1. PresenceTypeOK'
  BY DEF PresenceInv, PresenceTypeOK
<1>2. TaskInv' /\ LiveInv' /\ KeptInv'
  BY OwnStep
<1>3. InGroup' = InGroup /\ SameStored /\ missed \subseteq missed'
  BY DEF InGroup, SameStored
<1>4. AgreeInv'
  BY <1>3, AgreeKeeps
<1> QED
  BY <1>1, <1>2, <1>4 DEF PresenceInv

LEMMA Find_Inv ==
    ASSUME PresenceInv, NEW c \in Conns, Find(c)
    PROVE  PresenceInv'
<1>1. /\ At(c, "find")
      /\ UNCHANGED <<phase, section, listed, record, view, events, lapsed, missed>>
  BY DEF Find, stored, history
<1>2. TaskOf(c) /\ LiveOf(c) /\ (missed = {} => KeptOf(c)) /\ PresenceTypeOK
  BY DEF PresenceInv, TaskInv, LiveInv, KeptInv
<1>3. /\ task \in [Conns -> Tasks] /\ task[c] \in Tasks /\ \A x \in Conns : Shape(task[x].todo)
      /\ Stale \in SUBSET Conns
  BY <1>2, PresenceTypes DEF PresenceInv, TaskInv, TaskOf
<1>4. /\ Shape(task[c].todo) /\ task[c].todo # <<>> /\ Head(task[c].todo) = "find"
      /\ Follows(task[c].todo)
  BY <1>1, <1>2 DEF At, TaskOf, Shape
<1>5. \A e : ToDo(c, e) => e \in Commands /\ TurnOf("find") <= TurnOf(e)
  BY <1>4, Behead DEF ToDo
<1>6. /\ task' \in [Conns -> Tasks] /\ \A x \in Conns \ {c} : task'[x] = task[x]
      /\ Shape(task'[c].todo)
      /\ \A e : e \notin {"find", "forget", "drop"} => (ToDo(c, e)' <=> ToDo(c, e))
      /\ ToDo(c, "probe")' =>
             IF Stale = {} THEN task'[c].found = task[c].found ELSE task'[c].found = Stale
  <2>1. CASE Stale = {}
    <3>1. PICK td : td = SubSeq(task[c].todo, 4, Len(task[c].todo))
      OBVIOUS
    <3>2. /\ Shape(td) /\ td \in Seq(Commands)
          /\ \A e : Contains(td, e) <=> ToDo(c, e) /\ e \notin {"find", "forget", "drop"}
      BY <1>4, <3>1, SkipRemoval DEF ToDo, Shape
    <3>3. PICK t \in Tasks : /\ t = Left(task[c], td)
                             /\ t.todo = td /\ t.found = task[c].found
      BY <1>3, <3>2, TaskWrites DEF SameButTodo
    <3>4. Goes(c, t)
      BY <2>1, <3>1, <3>3 DEF Find, Left
    <3>5. /\ task' \in [Conns -> Tasks] /\ \A x \in Conns : Shape(task'[x].todo)
          /\ \A x \in Conns \ {c} : task'[x] = task[x]
          /\ \A e : ToDo(c, e)' <=> Contains(t.todo, e)
          /\ \A e : ToDo(c, e)' => task'[c] = t
      BY <1>3, <3>2, <3>3, <3>4, GoesTo
    <3> QED
      BY <2>1, <3>2, <3>3, <3>5
  <2>2. CASE Stale # {}
    <3>1. /\ After(c) \in Tasks /\ After(c).todo = Tail(task[c].todo)
      BY <1>2, <1>4, AfterIsTask
    <3>2. PICK t \in Tasks : /\ t = WithFound(After(c), Stale)
                             /\ t.todo = Tail(task[c].todo) /\ t.found = Stale
      BY <1>3, <3>1, TaskWrites
    <3>3. Goes(c, t)
      BY <2>2, <3>2 DEF Find, WithFound
    <3>4. /\ task' \in [Conns -> Tasks] /\ \A x \in Conns : Shape(task'[x].todo)
          /\ \A x \in Conns \ {c} : task'[x] = task[x]
          /\ \A e : ToDo(c, e)' <=> ToDo(c, e) /\ e # "find"
          /\ \A e : ToDo(c, e)' => task'[c] = t
      BY <1>1, <3>2, <3>3, Advances
    <3> QED
      BY <2>2, <3>2, <3>4
  <2> QED
    BY <2>1, <2>2
<1>7. ~ToDo(c, "unlist") /\ ~ToDo(c, "clear") /\ ~ToDo(c, "stamp") /\ ~ToDo(c, "record")
  BY <1>5 DEF TurnOf
<1>8. ToDo(c, "send") \/ ToDo(c, "show") => ToDo(c, "scan")
  BY <1>4, Behead DEF ToDo, Follows, TurnOf, Commands
<1>9. TaskOf(c)'
  <2>1. phase[c] # "out"
    BY <1>2, <1>4, QuietTask DEF TaskOf
  <2>2. ToDo(c, "probe")' /\ task'[c].found = {} => listed[c] # "stale"
    BY <1>6 DEF Stale
  <2> QED
    BY <1>1, <1>2, <1>6, <1>7, <2>1, <2>2 DEF TaskOf
<1>10. LiveOf(c)' /\ (missed' = {} => KeptOf(c)')
  BY <1>1, <1>2, <1>6, <1>7 DEF LiveOf, KeptOf, InGroup
<1>11. /\ WillTell(c) => WillTell(c)'
       /\ Timely(c) => Timely(c)'
       /\ Told(c) => Told(c)'
  <2>1. SameStored
    BY <1>1 DEF SameStored
  <2> QED
    BY <1>1, <1>2, <1>6, <1>8, <2>1, EarlyCommand
<1> QED
  BY <1>1, <1>6, <1>9, <1>10, <1>11, InwardCommand

LEMMA Probe_Inv ==
    ASSUME PresenceInv, NEW c \in Conns, Probe(c)
    PROVE  PresenceInv'
<1> DEFINE todo == Store \o IF Tells(c) THEN Tell ELSE <<>>
<1>1. /\ At(c, "probe") /\ Goes(c, Fresh(todo))
      /\ UNCHANGED <<phase, section, listed, record, view, events, lapsed, missed>>
  BY DEF Probe, stored, history
<1>2. TaskOf(c) /\ LiveOf(c) /\ (missed = {} => KeptOf(c)) /\ PresenceTypeOK
  BY DEF PresenceInv, TaskInv, LiveInv, KeptInv
<1>3. /\ task \in [Conns -> Tasks] /\ \A x \in Conns : Shape(task[x].todo)
  BY <1>2, PresenceTypes DEF PresenceInv, TaskInv, TaskOf
<1>4. /\ ToDo(c, "probe") /\ \A e : ToDo(c, e) => e = "probe"
      /\ phase[c] # "out"
  <2>1. /\ Shape(task[c].todo) /\ task[c].todo # <<>> /\ Head(task[c].todo) = "probe"
    BY <1>1, <1>3 DEF At
  <2>2. /\ Contains(task[c].todo, "probe") /\ Follows(task[c].todo)
        /\ \A e : Contains(task[c].todo, e) => e \in Commands /\ TurnOf("probe") <= TurnOf(e)
    BY <2>1, Behead DEF Shape
  <2>3. \A e : Contains(task[c].todo, e) => e = "probe"
    BY <2>2 DEF Follows, TurnOf, Commands
  <2> QED
    BY <1>2, <2>1, <2>2, <2>3, QuietTask DEF ToDo, TaskOf
<1>5. /\ Shape(todo) /\ Contains(todo, "stamp") /\ Contains(todo, "record")
      /\ ~Contains(todo, "unlist") /\ ~Contains(todo, "clear") /\ ~Contains(todo, "probe")
      /\ ~Contains(todo, "show")
      /\ Tells(c) => Contains(todo, "send") /\ Contains(todo, "scan")
      /\ Contains(todo, "send") => Tells(c)
  <2>1. CASE Tells(c)
    BY <2>1, StoreTellLists DEF Performs
  <2>2. CASE ~Tells(c)
    <3>1. Store \o <<>> = Store
      BY StoreLists, ConcatEmptySeq DEF Performs, Shape
    <3> QED
      BY <2>2, <3>1, StoreLists DEF Performs
  <2> QED
    BY <2>1, <2>2
<1> HIDE DEF todo
<1>6. PICK t \in Tasks : t = Fresh(todo) /\ t.todo = todo
  BY <1>5, QuietTask DEF Shape
<1>7. /\ task' \in [Conns -> Tasks] /\ Shape(task'[c].todo)
      /\ \A x \in Conns \ {c} : task'[x] = task[x]
      /\ \A e : ToDo(c, e)' <=> Contains(todo, e)
  BY <1>1, <1>3, <1>5, <1>6, GoesTo
<1>8. TaskOf(c)'
  BY <1>1, <1>2, <1>4, <1>5, <1>7 DEF TaskOf
<1>9. LiveOf(c)'
  BY <1>5, <1>7 DEF LiveOf
<1>10. missed' = {} => KeptOf(c)'
  <2>1. ~Tells(c) => listed[c] # "no" /\ listed[c] # "stale"
    BY <1>2, <1>4 DEF Tells, TaskOf
  <2>2. listed[c] \in {"no", "fresh", "stale"}
    BY <1>2 DEF PresenceTypeOK
  <2>3. ~Tells(c) /\ missed = {} => record[c] = section[c]
    BY <1>2, <1>4, <2>1 DEF KeptOf
  <2> QED
    BY <1>1, <1>5, <1>7, <2>1, <2>2, <2>3 DEF KeptOf
<1>11. /\ WillTell(c) => WillTell(c)'
       /\ Timely(c) => Timely(c)'
       /\ Told(c) => Told(c)'
  <2>1. WillTell(c) => Tells(c)
    BY <1>4 DEF WillTell, Tells
  <2>2. SameStored
    BY <1>1 DEF SameStored
  <2>3. Listing' = Listing
    BY <1>2, <2>2, SameListing
  <2>4. ~ToDo(c, "show") /\ ~ToDo(c, "show")' /\ ~ToDo(c, "probe")'
    BY <1>4, <1>5, <1>7
  <2>5. ToDo(c, "send")' => Current(c)'
    BY <1>5, <1>7 DEF Current
  <2>6. Tells(c) => ToDo(c, "send")'
    BY <1>5, <1>7
  <2> QED
    BY <1>1, <2>1, <2>3, <2>4, <2>5, <2>6 DEF WillTell, Timely, Told
<1> QED
  BY <1>1, <1>7, <1>8, <1>9, <1>10, <1>11, InwardCommand

LEMMA Stamp_Inv ==
    ASSUME PresenceInv, NEW c \in Conns, Stamp(c)
    PROVE  PresenceInv'
<1>1. /\ At(c, "stamp") /\ Goes(c, After(c)) /\ listed' = [listed EXCEPT ![c] = "fresh"]
      /\ lapsed' = lapsed \ {c}
      /\ UNCHANGED <<phase, section, record, view, events, missed>>
  BY DEF Stamp
<1>2. TaskOf(c) /\ LiveOf(c) /\ (missed = {} => KeptOf(c)) /\ PresenceTypeOK
  BY DEF PresenceInv, TaskInv, LiveInv, KeptInv
<1>3. After(c) \in Tasks /\ After(c).todo = Tail(task[c].todo)
  BY <1>1, <1>2, AfterIsTask DEF At
<1>4. /\ task' \in [Conns -> Tasks] /\ \A x \in Conns : Shape(task'[x].todo)
      /\ \A x \in Conns \ {c} : task'[x] = task[x]
      /\ ToDo(c, "stamp") /\ phase[c] # "out"
      /\ \A e : ToDo(c, e)' <=> ToDo(c, e) /\ e # "stamp"
      /\ \A e : ToDo(c, e) => e \in Commands /\ TurnOf("stamp") <= TurnOf(e)
      /\ Follows(task[c].todo)
  BY <1>1, <1>3, Advances
<1>5. /\ ToDo(c, "record") /\ ~ToDo(c, "part") /\ ~ToDo(c, "probe") /\ ~ToDo(c, "show")
      /\ ~ToDo(c, "unlist") /\ ~ToDo(c, "clear") /\ (ToDo(c, "send") => ToDo(c, "scan"))
  BY <1>4 DEF Follows, ToDo, TurnOf, Commands
<1>6. /\ listed' \in [Conns -> {"no", "fresh", "stale"}] /\ listed'[c] = "fresh"
      /\ \A x \in Conns \ {c} : listed'[x] = listed[x]
  BY <1>1, <1>2 DEF PresenceTypeOK
<1>7. PresenceTypeOK'
  BY <1>1, <1>2, <1>4, <1>6 DEF PresenceTypeOK
<1>8. TaskOf(c)'
  BY <1>1, <1>2, <1>4, <1>5, <1>6 DEF TaskOf
<1>9. LiveOf(c)' /\ (missed' = {} => KeptOf(c)')
  BY <1>1, <1>2, <1>4, <1>5, <1>6 DEF LiveOf, KeptOf
<1>10. TaskInv' /\ LiveInv' /\ KeptInv'
  BY <1>1, <1>4, <1>6, <1>8, <1>9, OwnStep
<1>11. AgreeInv'
  <2>1. CASE ToDo(c, "send")
    BY <1>4, <1>5, <2>1, AgreeIfTold DEF WillTell, Current
  <2>2. CASE ~ToDo(c, "send")
    <3>1. missed' = {} => SameStored
      BY <1>1, <1>2, <1>5, <1>6, <2>2 DEF KeptOf, SameStored
    <3>2. missed' = {} => /\ WillTell(c) => WillTell(c)'
                          /\ Timely(c) => Timely(c)'
                          /\ Told(c) => Told(c)'
      BY <1>1, <1>2, <1>4, <1>5, <2>2, <3>1, EarlyCommand
    <3>3. InGroup' \subseteq InGroup
      BY <1>1 DEF InGroup
    <3> QED
      BY <1>1, <1>4, <3>1, <3>2, <3>3, AgreeKeeps
  <2> QED
    BY <2>1, <2>2
<1> QED
  BY <1>7, <1>10, <1>11 DEF PresenceInv

LEMMA Record_Inv ==
    ASSUME PresenceInv, NEW c \in Conns, Record(c)
    PROVE  PresenceInv'
<1>1. /\ At(c, "record") /\ Goes(c, After(c)) /\ record' = [record EXCEPT ![c] = section[c]]
      /\ UNCHANGED <<phase, section, listed, view, events, lapsed, missed>>
  BY DEF Record, history
<1>2. TaskOf(c) /\ LiveOf(c) /\ (missed = {} => KeptOf(c)) /\ PresenceTypeOK
  BY DEF PresenceInv, TaskInv, LiveInv, KeptInv
<1>3. After(c) \in Tasks /\ After(c).todo = Tail(task[c].todo)
  BY <1>1, <1>2, AfterIsTask DEF At
<1>4. /\ task' \in [Conns -> Tasks] /\ \A x \in Conns : Shape(task'[x].todo)
      /\ \A x \in Conns \ {c} : task'[x] = task[x]
      /\ ToDo(c, "record") /\ phase[c] # "out"
      /\ \A e : ToDo(c, e)' <=> ToDo(c, e) /\ e # "record"
      /\ \A e : ToDo(c, e) => e \in Commands /\ TurnOf("record") <= TurnOf(e)
      /\ Follows(task[c].todo)
  BY <1>1, <1>3, Advances
<1>5. /\ ~ToDo(c, "part") /\ ~ToDo(c, "probe") /\ ~ToDo(c, "show") /\ ~ToDo(c, "stamp")
      /\ ~ToDo(c, "unlist") /\ ~ToDo(c, "clear") /\ (ToDo(c, "send") => ToDo(c, "scan"))
  BY <1>4 DEF Follows, ToDo, TurnOf, Commands
<1>6. /\ record' \in [Conns -> Sections \cup {Unset}] /\ record'[c] = section[c]
      /\ \A x \in Conns \ {c} : record'[x] = record[x]
  BY <1>1, <1>2 DEF PresenceTypeOK
<1>7. PresenceTypeOK'
  BY <1>1, <1>2, <1>4, <1>6 DEF PresenceTypeOK
<1>8. TaskOf(c)'
  BY <1>1, <1>2, <1>4, <1>5, <1>6 DEF TaskOf
<1>9. LiveOf(c)' /\ (missed' = {} => KeptOf(c)')
  BY <1>1, <1>2, <1>4, <1>5, <1>6 DEF LiveOf, KeptOf, InGroup
<1>10. TaskInv' /\ LiveInv' /\ KeptInv'
  BY <1>1, <1>4, <1>6, <1>8, <1>9, OwnStep
<1>11. AgreeInv'
  <2>1. CASE ToDo(c, "send")
    BY <1>4, <1>5, <2>1, AgreeIfTold DEF WillTell, Current
  <2>2. CASE ~ToDo(c, "send")
    <3>1. missed' = {} => SameStored
      BY <1>1, <1>2, <1>4, <1>6, <2>2 DEF KeptOf, SameStored
    <3>2. missed' = {} => /\ WillTell(c) => WillTell(c)'
                          /\ Timely(c) => Timely(c)'
                          /\ Told(c) => Told(c)'
      BY <1>1, <1>2, <1>4, <1>5, <2>2, <3>1, EarlyCommand
    <3>3. InGroup' \subseteq InGroup
      BY <1>1 DEF InGroup
    <3> QED
      BY <1>1, <1>4, <3>1, <3>2, <3>3, AgreeKeeps
  <2> QED
    BY <2>1, <2>2
<1> QED
  BY <1>7, <1>10, <1>11 DEF PresenceInv

LEMMA Unlist_Inv ==
    ASSUME PresenceInv, NEW c \in Conns, Unlist(c)
    PROVE  PresenceInv'
<1>1. /\ At(c, "unlist") /\ Goes(c, After(c))
      /\ listed' = [listed EXCEPT ![c] = "no"] /\ record' = [record EXCEPT ![c] = Unset]
      /\ UNCHANGED <<phase, section, view, events, lapsed, missed>>
  BY DEF Unlist, history
<1>2. TaskOf(c) /\ LiveOf(c) /\ (missed = {} => KeptOf(c)) /\ PresenceTypeOK
  BY DEF PresenceInv, TaskInv, LiveInv, KeptInv
<1>3. After(c) \in Tasks /\ After(c).todo = Tail(task[c].todo)
  BY <1>1, <1>2, AfterIsTask DEF At
<1>4. /\ task' \in [Conns -> Tasks] /\ \A x \in Conns : Shape(task'[x].todo)
      /\ \A x \in Conns \ {c} : task'[x] = task[x]
      /\ ToDo(c, "unlist") /\ phase[c] # "out"
      /\ \A e : ToDo(c, e)' <=> ToDo(c, e) /\ e # "unlist"
      /\ Follows(task[c].todo)
  BY <1>1, <1>3, Advances
<1>5. /\ ToDo(c, "part") /\ ~ToDo(c, "probe") /\ ~ToDo(c, "show") /\ ~ToDo(c, "record")
      /\ ~ToDo(c, "clear") /\ (ToDo(c, "send") => ToDo(c, "scan"))
  BY <1>4 DEF Follows, ToDo, TurnOf, Commands
<1>6. /\ listed' \in [Conns -> {"no", "fresh", "stale"}] /\ listed'[c] = "no"
      /\ record' \in [Conns -> Sections \cup {Unset}] /\ record'[c] = Unset
      /\ \A x \in Conns \ {c} : listed'[x] = listed[x] /\ record'[x] = record[x]
  BY <1>1, <1>2 DEF PresenceTypeOK
<1>7. PresenceTypeOK'
  BY <1>1, <1>2, <1>4, <1>6 DEF PresenceTypeOK
<1>8. TaskOf(c)'
  BY <1>1, <1>2, <1>4, <1>5, <1>6 DEF TaskOf
<1>9. LiveOf(c)' /\ KeptOf(c)'
  BY <1>4, <1>5, <1>6 DEF LiveOf, KeptOf
<1>10. TaskInv' /\ LiveInv' /\ KeptInv'
  BY <1>1, <1>4, <1>6, <1>8, <1>9, OwnStep
<1>11. AgreeInv'
  <2>1. CASE ToDo(c, "send")
    BY <1>4, <1>5, <2>1, AgreeIfTold DEF WillTell, Current
  <2>2. CASE ~ToDo(c, "send")
    <3>1. SameStored
      BY <1>2, <1>4, <1>6, <2>2 DEF TaskOf, SameStored
    <3>2. /\ WillTell(c) => WillTell(c)'
          /\ Timely(c) => Timely(c)'
          /\ Told(c) => Told(c)'
      BY <1>1, <1>2, <1>4, <1>5, <2>2, <3>1, EarlyCommand
    <3>3. InGroup' \subseteq InGroup
      BY <1>1 DEF InGroup
    <3> QED
      BY <1>1, <1>4, <3>1, <3>2, <3>3, AgreeKeeps
  <2> QED
    BY <2>1, <2>2
<1> QED
  BY <1>7, <1>10, <1>11 DEF PresenceInv

LEMMA Count_Inv ==
    ASSUME PresenceInv, NEW c \in Conns, Count(c)
    PROVE  PresenceInv'
<1>1. /\ At(c, "count")
      /\ UNCHANGED <<phase, section, listed, record, view, events, lapsed, missed>>
  BY DEF Count, stored, history
<1>2. TaskOf(c) /\ LiveOf(c) /\ (missed = {} => KeptOf(c)) /\ PresenceTypeOK
  BY DEF PresenceInv, TaskInv, LiveInv, KeptInv
<1>3. /\ task \in [Conns -> Tasks] /\ \A x \in Conns : Shape(task[x].todo)
      /\ task[c].todo # <<>> /\ Head(task[c].todo) = "count"
  BY <1>1, <1>2, PresenceTypes DEF PresenceInv, TaskInv, TaskOf, At
<1>4. /\ After(c) \in Tasks /\ After(c).todo = Tail(task[c].todo)
      /\ SameButTodo(After(c), task[c]) /\ task[c] \in Tasks
  BY <1>2, <1>3, AfterIsTask
<1>5. /\ \A e : ToDo(c, e) => e \in Commands /\ TurnOf("count") <= TurnOf(e)
      /\ \A e : Contains(Tail(task[c].todo), e) <=> ToDo(c, e) /\ e # "count"
      /\ ToDo(c, "count") /\ Follows(task[c].todo)
  BY <1>3, Behead DEF ToDo, Shape
<1>6. /\ ~ToDo(c, "unlist") /\ ~ToDo(c, "probe") /\ ~ToDo(c, "clear")
      /\ ToDo(c, "send") \/ ToDo(c, "show") => ToDo(c, "scan")
  BY <1>5 DEF Follows, ToDo, TurnOf, Commands
<1>7. /\ task' \in [Conns -> Tasks] /\ \A x \in Conns \ {c} : task'[x] = task[x]
      /\ Shape(task'[c].todo)
      /\ \A e : e \notin {"count", "clear"} => (ToDo(c, e)' <=> ToDo(c, e))
      /\ ToDo(c, "clear")' => task'[c].seen = {}
  <2>1. CASE NobodyListed
    <3>1. PICK td : td = <<"clear">> \o Tail(task[c].todo)
      OBVIOUS
    <3>2. /\ Shape(td) /\ td \in Seq(Commands)
          /\ \A e : Contains(td, e) <=> e = "clear" \/ Contains(Tail(task[c].todo), e)
      BY <1>3, <3>1, ClearNext DEF Shape
    <3>3. Left(task[c], td) \in Tasks /\ Left(task[c], td).todo = td
      BY <1>4, <3>2, TaskWrites
    <3>4. PICK t \in Tasks : /\ t = WithSeen(Left(task[c], td), {})
                             /\ t.todo = td /\ t.seen = {}
      BY <3>3, TaskWrites
    <3>5. Goes(c, t)
      <4>1. Listed = {}
        BY <2>1 DEF NobodyListed
      <4>2. t = [task[c] EXCEPT !.todo = <<"clear">> \o Tail(@), !.seen = Listed]
        BY <1>4, <3>1, <3>4, <4>1 DEF WithSeen, Left, Tasks
      <4> QED
        BY <2>1, <4>2 DEF Count
    <3>6. /\ task' \in [Conns -> Tasks] /\ \A x \in Conns : Shape(task'[x].todo)
          /\ \A x \in Conns \ {c} : task'[x] = task[x]
          /\ \A e : ToDo(c, e)' <=> Contains(t.todo, e)
          /\ \A e : ToDo(c, e)' => task'[c] = t
      BY <1>3, <3>2, <3>4, <3>5, GoesTo
    <3> QED
      BY <1>5, <3>2, <3>4, <3>6
  <2>2. CASE ~NobodyListed
    <3>1. Goes(c, After(c))
      BY <2>2 DEF Count
    <3>2. /\ task' \in [Conns -> Tasks] /\ \A x \in Conns : Shape(task'[x].todo)
          /\ \A x \in Conns \ {c} : task'[x] = task[x]
          /\ \A e : ToDo(c, e)' <=> ToDo(c, e) /\ e # "count"
      BY <1>1, <1>4, <3>1, Advances
    <3> QED
      BY <1>6, <3>2
  <2> QED
    BY <2>1, <2>2
<1>8. phase[c] # "out"
  BY <1>2, <1>3, QuietTask DEF TaskOf
<1>9. TaskOf(c)'
  BY <1>1, <1>2, <1>6, <1>7, <1>8 DEF TaskOf
<1>10. LiveOf(c)' /\ (missed' = {} => KeptOf(c)')
  BY <1>1, <1>2, <1>7 DEF LiveOf, KeptOf, InGroup
<1>11. /\ WillTell(c) => WillTell(c)'
       /\ Timely(c) => Timely(c)'
       /\ Told(c) => Told(c)'
  <2>1. SameStored
    BY <1>1 DEF SameStored
  <2> QED
    BY <1>1, <1>2, <1>6, <1>7, <2>1, EarlyCommand
<1> QED
  BY <1>1, <1>7, <1>9, <1>10, <1>11, InwardCommand

LEMMA ScanListed_Inv ==
    ASSUME PresenceInv, NEW c \in Conns, ScanListed(c)
    PROVE  PresenceInv'
<1>1. /\ At(c, "scan") /\ Goes(c, WithSeen(After(c), Listed))
      /\ UNCHANGED <<phase, section, listed, record, view, events, lapsed, missed>>
  BY DEF ScanListed, WithSeen, stored, history
<1>2. TaskOf(c) /\ LiveOf(c) /\ (missed = {} => KeptOf(c)) /\ PresenceTypeOK
  BY DEF PresenceInv, TaskInv, LiveInv, KeptInv
<1>3. PICK t \in Tasks : /\ t = WithSeen(After(c), Listed) /\ t.todo = Tail(task[c].todo)
                         /\ t.seen = Listed
  <2>1. After(c) \in Tasks /\ After(c).todo = Tail(task[c].todo) /\ Listed \in SUBSET Conns
    BY <1>1, <1>2, AfterIsTask, PresenceTypes DEF At
  <2> QED
    BY <2>1, TaskWrites
<1>4. /\ task' \in [Conns -> Tasks] /\ \A x \in Conns : Shape(task'[x].todo)
      /\ \A x \in Conns \ {c} : task'[x] = task[x]
      /\ ToDo(c, "scan") /\ phase[c] # "out"
      /\ \A e : ToDo(c, e)' <=> ToDo(c, e) /\ e # "scan"
      /\ \A e : ToDo(c, e) => e \in Commands /\ TurnOf("scan") <= TurnOf(e)
      /\ \A e : ToDo(c, e)' => task'[c] = t
      /\ Follows(task[c].todo)
  BY <1>1, <1>3, Advances
<1>5. /\ ~ToDo(c, "record") /\ ~ToDo(c, "probe") /\ ~ToDo(c, "stamp")
      /\ ~ToDo(c, "unlist") /\ ~ToDo(c, "clear") /\ ToDo(c, "fetch")
  BY <1>4 DEF Follows, ToDo, TurnOf, Commands
<1>6. TaskOf(c)'
  BY <1>1, <1>2, <1>4, <1>5 DEF TaskOf
<1>7. LiveOf(c)' /\ (missed' = {} => KeptOf(c)')
  BY <1>1, <1>2, <1>4 DEF LiveOf, KeptOf, InGroup
<1>8. Current(c)'
  <2>1. ToDo(c, "fetch")' /\ task'[c].seen = Listed
    BY <1>3, <1>4, <1>5
  <2>2. Listed' = Listed
    BY <1>1 DEF Listed
  <2> QED
    BY <2>1, <2>2 DEF Current, Recorded
<1>9. /\ WillTell(c) => WillTell(c)'
      /\ Timely(c) => Timely(c)'
      /\ Told(c) => Told(c)'
  <2>1. Listing' = Listing
    BY <1>1 DEF Listing, Listed, Shows
  <2> QED
    BY <1>1, <1>4, <1>5, <1>8, <2>1 DEF WillTell, Timely, Told
<1> QED
  BY <1>1, <1>4, <1>6, <1>7, <1>9, InwardCommand

LEMMA Fetch_Inv ==
    ASSUME PresenceInv, NEW c \in Conns, Fetch(c)
    PROVE  PresenceInv'
<1>1. /\ At(c, "fetch") /\ Goes(c, [After(c) EXCEPT !.state = Shows(task[c].seen), !.seen = {}])
      /\ UNCHANGED <<phase, section, listed, record, view, events, lapsed, missed>>
  BY DEF Fetch, stored, history
<1>2. TaskOf(c) /\ LiveOf(c) /\ (missed = {} => KeptOf(c)) /\ PresenceTypeOK
  BY DEF PresenceInv, TaskInv, LiveInv, KeptInv
<1>3. PICK st \in States : st = Shows(task[c].seen)
  <2>1. task[c].seen \in SUBSET Conns
    BY <1>2, TaskFields DEF PresenceTypeOK
  <2> QED
    BY <1>2, <2>1, PresenceTypes
<1>4. PICK t \in Tasks : /\ Goes(c, t) /\ t.todo = Tail(task[c].todo) /\ t.state = st
                         /\ t.late = task[c].late
  <2>1. PICK u \in Tasks : /\ u = After(c) /\ u.todo = Tail(task[c].todo)
                           /\ u.late = task[c].late
    BY <1>1, <1>2, AfterIsTask DEF At, SameButTodo
  <2>2. /\ WithState(u, st) \in Tasks /\ WithState(u, st).todo = u.todo
        /\ WithState(u, st).state = st /\ WithState(u, st).late = u.late
    BY <2>1, TaskWrites
  <2>3. PICK w \in Tasks : /\ w = WithSeen(WithState(u, st), {}) /\ w.todo = u.todo
                           /\ w.state = st /\ w.late = u.late
    BY <2>2, {} \in SUBSET Conns, TaskWrites
  <2>4. w = [u EXCEPT !.state = st, !.seen = {}]
    BY <2>1, <2>3 DEF WithSeen, WithState, Tasks
  <2> QED
    BY <1>1, <1>3, <2>1, <2>3, <2>4
<1>5. /\ task' \in [Conns -> Tasks] /\ \A x \in Conns : Shape(task'[x].todo)
      /\ \A x \in Conns \ {c} : task'[x] = task[x]
      /\ ToDo(c, "fetch") /\ phase[c] # "out"
      /\ \A e : ToDo(c, e)' <=> ToDo(c, e) /\ e # "fetch"
      /\ \A e : ToDo(c, e) => e \in Commands /\ TurnOf("fetch") <= TurnOf(e)
      /\ \A e : ToDo(c, e)' => task'[c] = t
      /\ Follows(task[c].todo)
  BY <1>1, <1>4, Advances
<1>6. /\ ~ToDo(c, "record") /\ ~ToDo(c, "probe") /\ ~ToDo(c, "stamp") /\ ~ToDo(c, "scan")
      /\ ~ToDo(c, "unlist") /\ ~ToDo(c, "clear") /\ (ToDo(c, "send") \/ ToDo(c, "show"))
  BY <1>5 DEF Follows, ToDo, TurnOf, Commands
<1>7. TaskOf(c)'
  BY <1>1, <1>2, <1>5, <1>6 DEF TaskOf
<1>8. LiveOf(c)' /\ (missed' = {} => KeptOf(c)')
  BY <1>1, <1>2, <1>5 DEF LiveOf, KeptOf, InGroup
<1>9. Listing' = Listing
  BY <1>1 DEF Listing, Listed, Shows
<1>10. Current(c) => Current(c)'
  <2>1. SUFFICES ASSUME Recorded(task[c].seen) = Recorded(Listed) PROVE st = Listing
    <3>1. task'[c].state = st /\ ~ToDo(c, "fetch")'
      BY <1>4, <1>5, <1>6
    <3> QED
      BY <1>5, <1>6, <1>9, <3>1 DEF Current
  <2> QED
    BY <1>3, <2>1 DEF Listing, Shows, Recorded
<1>11. /\ WillTell(c) => WillTell(c)'
       /\ Timely(c) => Timely(c)'
       /\ Told(c) => Told(c)'
  <2>1. task'[c].late = task[c].late
    BY <1>4, <1>5, <1>6
  <2> QED
    BY <1>1, <1>5, <1>6, <1>9, <1>10, <2>1 DEF WillTell, Timely, Told
<1> QED
  BY <1>1, <1>5, <1>7, <1>8, <1>11, InwardCommand

\* The last command of a handler.
LEMMA LastCommand ==
    ASSUME PresenceInv, NEW c \in Conns, NEW h \in {"show", "part"}, At(c, h), Goes(c, After(c))
    PROVE  /\ task' \in [Conns -> Tasks] /\ \A x \in Conns : Shape(task'[x].todo)
           /\ \A x \in Conns \ {c} : task'[x] = task[x]
           /\ ToDo(c, h) /\ phase[c] # "out"
           /\ \A e : ToDo(c, e) => e = h
           /\ \A e : ~ToDo(c, e)'
<1>1. After(c) \in Tasks /\ After(c).todo = Tail(task[c].todo)
  BY AfterIsTask DEF At, PresenceInv
<1>2. /\ task' \in [Conns -> Tasks] /\ \A x \in Conns : Shape(task'[x].todo)
      /\ \A x \in Conns \ {c} : task'[x] = task[x]
      /\ ToDo(c, h) /\ phase[c] # "out"
      /\ \A e : ToDo(c, e)' <=> ToDo(c, e) /\ e # h
      /\ \A e : ToDo(c, e) => e \in Commands /\ TurnOf(h) <= TurnOf(e)
      /\ Follows(task[c].todo)
  BY <1>1, Advances
<1>3. \A e : ToDo(c, e) => e = h
  BY <1>2 DEF Follows, ToDo, TurnOf, Commands
<1> QED
  BY <1>2, <1>3

LEMMA Show_Inv ==
    ASSUME PresenceInv, NEW c \in Conns, Show(c)
    PROVE  PresenceInv'
<1>1. /\ At(c, "show") /\ Goes(c, After(c))
      /\ view' = [view EXCEPT ![c] = IF @ = {} THEN {task[c].state} ELSE @]
      /\ UNCHANGED <<phase, section, listed, record, events, lapsed, missed>>
  BY DEF Show, stored, history
<1>2. TaskOf(c) /\ LiveOf(c) /\ (missed = {} => KeptOf(c)) /\ PresenceTypeOK
  BY DEF PresenceInv, TaskInv, LiveInv, KeptInv
<1>3. /\ task' \in [Conns -> Tasks] /\ \A x \in Conns : Shape(task'[x].todo)
      /\ \A x \in Conns \ {c} : task'[x] = task[x]
      /\ ToDo(c, "show") /\ phase[c] # "out"
      /\ \A e : ToDo(c, e) => e = "show"
      /\ \A e : ~ToDo(c, e)'
  BY <1>1, LastCommand
<1>4. PICK v \in SUBSET States : v = IF view[c] = {} THEN {task[c].state} ELSE view[c]
  <2>1. task[c].state \in States /\ view[c] \in SUBSET States
    BY <1>2, TaskFields DEF PresenceTypeOK
  <2> QED
    BY <2>1
<1>5. view' \in [Conns -> SUBSET States] /\ view'[c] = v /\ \A x \in Conns \ {c} : view'[x] = view[x]
  <2>1. view \in [Conns -> SUBSET States] /\ view' = [view EXCEPT ![c] = v]
    BY <1>1, <1>2, <1>4 DEF PresenceTypeOK
  <2> QED
    BY <2>1
<1>6. PresenceTypeOK'
  BY <1>1, <1>2, <1>3, <1>5 DEF PresenceTypeOK
<1>7. TaskOf(c)'
  BY <1>1, <1>2, <1>3 DEF TaskOf
<1>8. LiveOf(c)' /\ (missed' = {} => KeptOf(c)')
  BY <1>1, <1>2, <1>3 DEF LiveOf, KeptOf, InGroup
<1>9. TaskInv' /\ LiveInv' /\ KeptInv'
  BY <1>1, <1>3, <1>5, <1>7, <1>8, OwnStep
<1>10. AgreeInv'
  <2>1. SameStored /\ InGroup' \subseteq InGroup /\ missed \subseteq missed'
    BY <1>1 DEF SameStored, InGroup
  <2>2. ~WillTell(c) /\ Timely(c)'
    BY <1>3 DEF WillTell, Timely
  <2>3. Told(c) => Told(c)'
    <3>1. Listing' = Listing
      BY <1>2, <2>1, SameListing
    <3>2. Told(c) => v = {Listing}
      BY <1>3, <1>4 DEF Told, Current
    <3> QED
      BY <1>3, <1>5, <3>1, <3>2 DEF Told
  <2> QED
    BY <1>3, <1>5, <2>1, <2>2, <2>3, AgreeKeeps
<1> QED
  BY <1>6, <1>9, <1>10 DEF PresenceInv

LEMMA Part_Inv ==
    ASSUME PresenceInv, NEW c \in Conns, Part(c)
    PROVE  PresenceInv'
<1>1. /\ At(c, "part") /\ Goes(c, After(c)) /\ phase' = [phase EXCEPT ![c] = "gone"]
      /\ UNCHANGED <<section, listed, record, view, events, lapsed, missed>>
  BY DEF Part, stored, history
<1>2. TaskOf(c) /\ LiveOf(c) /\ (missed = {} => KeptOf(c)) /\ PresenceTypeOK
  BY DEF PresenceInv, TaskInv, LiveInv, KeptInv
<1>3. /\ task' \in [Conns -> Tasks] /\ \A x \in Conns : Shape(task'[x].todo)
      /\ \A x \in Conns \ {c} : task'[x] = task[x]
      /\ ToDo(c, "part") /\ \A e : ToDo(c, e) => e = "part"
      /\ \A e : ~ToDo(c, e)'
  BY <1>1, LastCommand
<1>4. phase'[c] = "gone" /\ \A x \in Conns \ {c} : phase'[x] = phase[x]
  BY <1>1, <1>2 DEF PresenceTypeOK
<1>5. PresenceTypeOK'
  BY <1>1, <1>2, <1>3 DEF PresenceTypeOK
<1>6. TaskOf(c)'
  BY <1>1, <1>2, <1>3, <1>4 DEF TaskOf
<1>7. LiveOf(c)' /\ (missed' = {} => KeptOf(c)')
  BY <1>1, <1>2, <1>3, <1>4 DEF LiveOf, KeptOf, InGroup
<1>8. TaskInv' /\ LiveInv' /\ KeptInv'
  BY <1>1, <1>3, <1>4, <1>6, <1>7, OwnStep
<1>9. AgreeInv'
  <2>1. SameStored /\ InGroup' \subseteq InGroup /\ c \notin InGroup' /\ missed \subseteq missed'
    BY <1>1, <1>4 DEF SameStored, InGroup
  <2>2. ~WillTell(c) /\ Timely(c)'
    BY <1>3 DEF WillTell, Timely
  <2> QED
    BY <1>1, <1>3, <2>1, <2>2, AgreeKeeps
<1> QED
  BY <1>5, <1>8, <1>9 DEF PresenceInv

\* A handler ends, and its connection may.
LEMMA Ends ==
    ASSUME PresenceInv, NEW c \in Conns, task' = [task EXCEPT ![c] = Quiet]
    PROVE  /\ task' \in [Conns -> Tasks] /\ Shape(task'[c].todo) /\ task'[c] = Quiet
           /\ \A x \in Conns \ {c} : task'[x] = task[x]
           /\ \A e : ~ToDo(c, e)'
<1>1. task \in [Conns -> Tasks] /\ Quiet \in Tasks /\ Quiet.todo = <<>>
  BY QuietTask, PresenceTypes DEF PresenceInv
<1>2. /\ task' \in [Conns -> Tasks] /\ task'[c] = Quiet
      /\ \A x \in Conns \ {c} : task'[x] = task[x]
  BY <1>1
<1> QED
  BY <1>1, <1>2, NothingToDo DEF ToDo

LEMMA Raises_Inv ==
    ASSUME PresenceInv, NEW c \in Conns, Raises(c)
    PROVE  PresenceInv'
<1>1. /\ task[c] # Quiet /\ task' = [task EXCEPT ![c] = Quiet]
      /\ phase' = [phase EXCEPT ![c] = IF ToDo(c, "part") THEN "gone" ELSE @]
      /\ lapsed' = lapsed \cup {c} /\ missed' = missed \cup {"torn"}
      /\ events' \in 0 .. MaxEvents
      /\ UNCHANGED <<section, listed, record, view>>
  BY PresenceBoundsAssumption DEF Raises, Happens, stored, PresenceInv, PresenceTypeOK
<1>2. TaskOf(c) /\ PresenceTypeOK
  BY DEF PresenceInv, TaskInv
<1>3. /\ task' \in [Conns -> Tasks] /\ Shape(task'[c].todo) /\ \A e : ~ToDo(c, e)'
      /\ \A x \in Conns \ {c} : task'[x] = task[x]
  BY <1>1, Ends
<1>4. /\ phase' \in [Conns -> {"out", "in", "gone"}] /\ phase'[c] # "out"
      /\ \A x \in Conns \ {c} : phase'[x] = phase[x]
  BY <1>1, <1>2 DEF PresenceTypeOK, TaskOf
<1>5. PresenceTypeOK' /\ missed' # {}
  BY <1>1, <1>2, <1>3, <1>4 DEF PresenceTypeOK, Misses
<1>6. TaskOf(c)'
  BY <1>1, <1>2, <1>3, <1>4 DEF TaskOf
<1>7. LiveOf(c)' /\ missed \subseteq missed' /\ \A x \in Conns \ {c} : x \in lapsed' <=> x \in lapsed
  BY <1>1 DEF LiveOf
<1>8. TaskInv' /\ LiveInv' /\ KeptInv'
  BY <1>1, <1>3, <1>4, <1>5, <1>6, <1>7, OwnStep
<1>9. AgreeInv'
  BY <1>5 DEF AgreeInv
<1> QED
  BY <1>5, <1>8, <1>9 DEF PresenceInv

LEMMA Dies_Inv ==
    ASSUME PresenceInv, NEW c \in Conns, Dies(c)
    PROVE  PresenceInv'
<1>1. /\ phase[c] = "in" /\ task' = [task EXCEPT ![c] = Quiet]
      /\ phase' = [phase EXCEPT ![c] = "gone"] /\ events' \in 0 .. MaxEvents
      /\ missed' = missed \cup IF task[c] # Quiet THEN {"torn"} ELSE {}
      /\ UNCHANGED <<section, listed, record, view, lapsed>>
  BY PresenceBoundsAssumption DEF Dies, Note, Happens, stored, PresenceInv, PresenceTypeOK
<1>2. TaskOf(c) /\ (missed = {} => KeptOf(c)) /\ PresenceTypeOK
  BY DEF PresenceInv, TaskInv, KeptInv
<1>3. /\ task' \in [Conns -> Tasks] /\ Shape(task'[c].todo) /\ task'[c] = Quiet
      /\ \A e : ~ToDo(c, e)'
      /\ \A x \in Conns \ {c} : task'[x] = task[x]
  BY <1>1, Ends
<1>4. /\ phase' \in [Conns -> {"out", "in", "gone"}] /\ phase'[c] = "gone"
      /\ \A x \in Conns \ {c} : phase'[x] = phase[x]
  BY <1>1, <1>2 DEF PresenceTypeOK
<1>5. PresenceTypeOK' /\ missed \subseteq missed'
  BY <1>1, <1>2, <1>3, <1>4 DEF PresenceTypeOK, Misses
<1>6. TaskOf(c)' /\ LiveOf(c)'
  BY <1>1, <1>2, <1>3, <1>4 DEF TaskOf, LiveOf, InGroup
<1>7. missed' = {} => task[c] = Quiet /\ missed = {} /\ \A e : ~ToDo(c, e)
  <2>1. missed' = {} => task[c] = Quiet /\ missed = {}
    BY <1>1
  <2>2. Quiet.todo = <<>>
    BY QuietTask
  <2>3. task[c] = Quiet => \A e : ~ToDo(c, e)
    BY <2>2, NothingToDo DEF ToDo
  <2> QED
    BY <2>1, <2>3
<1>8. missed' = {} => KeptOf(c)'
  BY <1>1, <1>2, <1>3, <1>7 DEF KeptOf
<1>9. TaskInv' /\ LiveInv' /\ KeptInv'
  BY <1>1, <1>3, <1>4, <1>5, <1>6, <1>8, OwnStep
<1>10. AgreeInv'
  <2>1. SameStored /\ InGroup' \subseteq InGroup /\ c \notin InGroup'
    BY <1>1, <1>4 DEF SameStored, InGroup
  <2>2. (missed' = {} => ~WillTell(c)) /\ Timely(c)'
    BY <1>3, <1>7 DEF WillTell, Timely
  <2> QED
    BY <1>1, <1>3, <1>5, <2>1, <2>2, AgreeKeeps
<1> QED
  BY <1>5, <1>9, <1>10 DEF PresenceInv

LEMMA Age_Inv ==
    ASSUME PresenceInv, NEW c \in Conns, Age(c)
    PROVE  PresenceInv'
<1>1. /\ listed[c] = "fresh" /\ task[c] = Quiet
      /\ listed' = [listed EXCEPT ![c] = "stale"] /\ lapsed' = lapsed \cup {c}
      /\ UNCHANGED <<phase, section, record, view, task, events, missed>>
  BY DEF Age
<1>2. TaskOf(c) /\ LiveOf(c) /\ (missed = {} => KeptOf(c)) /\ PresenceTypeOK
  BY DEF PresenceInv, TaskInv, LiveInv, KeptInv
<1>3. \A e : ~ToDo(c, e) /\ ~ToDo(c, e)'
  BY <1>1, QuietTask, NothingToDo DEF ToDo
<1>4. /\ listed' \in [Conns -> {"no", "fresh", "stale"}] /\ listed'[c] = "stale"
      /\ \A x \in Conns \ {c} : listed'[x] = listed[x]
  BY <1>1, <1>2 DEF PresenceTypeOK
<1>5. PresenceTypeOK'
  BY <1>1, <1>2, <1>4 DEF PresenceTypeOK
<1>6. TaskOf(c)'
  BY <1>1, <1>2, <1>3, <1>4 DEF TaskOf
<1>7. LiveOf(c)' /\ (missed' = {} => KeptOf(c)')
  BY <1>1, <1>2, <1>3, <1>4 DEF LiveOf, KeptOf
<1>8. TaskInv' /\ LiveInv' /\ KeptInv'
  BY <1>1, <1>4, <1>6, <1>7, OwnStep
<1>9. AgreeInv'
  <2>1. SameStored /\ InGroup' \subseteq InGroup
    BY <1>1, <1>4 DEF SameStored, InGroup
  <2>2. /\ WillTell(c) => WillTell(c)'
        /\ Timely(c) => Timely(c)'
        /\ Told(c) => Told(c)'
    BY <1>1, <1>2, <2>1, CurrentStays
  <2> QED
    BY <1>1, <2>1, <2>2, AgreeKeeps
<1> QED
  BY <1>5, <1>8, <1>9 DEF PresenceInv

\* A command on the entries of others changes nobody's handler but its own.
LEMMA OthersToDo ==
    ASSUME NEW c \in Conns, NEW h, \A x \in Conns \ {c} : task'[x] = task[x],
           \A e : ToDo(c, e)' <=> ToDo(c, e) /\ e # h
    PROVE  \A x \in Conns : \A e : e # h => (ToDo(x, e)' <=> ToDo(x, e))
BY DEF ToDo

LEMMA Forget_Inv ==
    ASSUME PresenceInv, NEW c \in Conns, Forget(c)
    PROVE  PresenceInv'
<1> DEFINE found == task[c].found
           anew  == {x \in found : listed[x] = "fresh"}
<1>1. /\ At(c, "forget") /\ Goes(c, After(c))
      /\ listed' = [x \in Conns |-> IF x \in found THEN "no" ELSE listed[x]]
      /\ lapsed' = lapsed \cup anew
      /\ missed' = missed \cup (IF anew # {} THEN {"wiped"} ELSE {})
                          \cup (IF ToDo(c, "show") /\ found \cap Listed # {}
                                THEN {"quietly"} ELSE {})
      /\ UNCHANGED <<phase, section, record, view, events>>
  BY DEF Forget
<1>2. PresenceTypeOK /\ TaskInv /\ LiveInv /\ KeptInv
  BY DEF PresenceInv
<1>3. /\ After(c) \in Tasks /\ After(c).todo = Tail(task[c].todo)
      /\ SameButTodo(After(c), task[c]) /\ found \in SUBSET Conns
  BY <1>1, <1>2, AfterIsTask, TaskFields DEF At
<1>4. /\ task' \in [Conns -> Tasks] /\ \A x \in Conns : Shape(task'[x].todo)
      /\ \A x \in Conns \ {c} : task'[x] = task[x]
      /\ ToDo(c, "forget") /\ phase[c] # "out"
      /\ \A e : ToDo(c, e)' <=> ToDo(c, e) /\ e # "forget"
      /\ \A e : ToDo(c, e) => e \in Commands /\ TurnOf("forget") <= TurnOf(e)
      /\ \A e : ToDo(c, e)' => task'[c] = After(c)
      /\ Follows(task[c].todo)
  BY <1>1, <1>3, Advances
<1>5. /\ ~ToDo(c, "unlist") /\ ~ToDo(c, "clear") /\ ~ToDo(c, "record")
      /\ ToDo(c, "drop") /\ (ToDo(c, "send") \/ ToDo(c, "show") => ToDo(c, "scan"))
      /\ ToDo(c, "show") \/ ToDo(c, "probe") \/ (ToDo(c, "send") /\ ~ToDo(c, "probe"))
  BY <1>4 DEF Follows, ToDo, TurnOf, Commands
<1>6. \A x \in Conns : \A e : e # "forget" => (ToDo(x, e)' <=> ToDo(x, e))
  BY <1>4, OthersToDo
<1>7. task'[c].found = found
  BY <1>3, <1>4, <1>5 DEF SameButTodo
<1>8. /\ listed' \in [Conns -> {"no", "fresh", "stale"}]
      /\ \A x \in Conns : listed'[x] = IF x \in found THEN "no" ELSE listed[x]
      /\ anew \subseteq Conns
  BY <1>1, <1>2, <1>3 DEF PresenceTypeOK
<1>9. PresenceTypeOK' /\ missed \subseteq missed'
  BY <1>1, <1>2, <1>4, <1>8 DEF PresenceTypeOK, Misses
<1>10. ASSUME NEW x \in Conns PROVE TaskOf(x)'
  <2>1. TaskOf(x)
    BY <1>2 DEF TaskInv
  <2>2. task'[x].found = task[x].found
    BY <1>4, <1>7
  <2>3. ToDo(x, "clear") => task'[x] = task[x]
    BY <1>4, <1>5
  <2>4. phase[x] = "out" => task'[x] = task[x]
    BY <1>4
  <2> QED
    BY <1>1, <1>4, <1>6, <1>8, <2>1, <2>2, <2>3, <2>4 DEF TaskOf
<1>11. ASSUME NEW x \in Conns PROVE LiveOf(x)'
  <2>1. TaskOf(x) /\ LiveOf(x) /\ listed[x] \in {"no", "fresh", "stale"}
    BY <1>2 DEF TaskInv, LiveInv, PresenceTypeOK
  <2>2. x \in found /\ x \notin lapsed' => listed[x] = "no"
    BY <1>1, <2>1 DEF TaskOf
  <2> QED
    BY <1>1, <1>6, <1>8, <2>1, <2>2 DEF LiveOf, InGroup
<1>12. ASSUME missed' = {}, NEW x \in Conns PROVE KeptOf(x)'
  <2>1. KeptOf(x) /\ anew = {}
    BY <1>1, <1>2, <1>12 DEF KeptInv
  <2>2. listed[x] = "fresh" => x \notin found
    BY <2>1
  <2> QED
    BY <1>1, <1>6, <1>8, <2>1, <2>2 DEF KeptOf
<1>13. AgreeInv'
  <2>1. CASE ToDo(c, "show") \/ found = {}
    <3>1. missed' = {} => SameStored
      <4>1. missed' = {} => \A x \in found : listed[x] = "no"
        BY <1>1, <1>3, <2>1 DEF Listed
      <4> QED
        BY <1>1, <1>8, <4>1 DEF SameStored
    <3>2. missed' = {} => /\ WillTell(c) => WillTell(c)'
                          /\ Timely(c) => Timely(c)'
                          /\ Told(c) => Told(c)'
      BY <1>1, <1>2, <1>5, <1>6, <1>7, <3>1, EarlyCommand
    <3>3. InGroup' \subseteq InGroup
      BY <1>1 DEF InGroup
    <3> QED
      BY <1>1, <1>4, <1>9, <3>1, <3>2, <3>3, AgreeKeeps
  <2>2. CASE ~ToDo(c, "show") /\ found # {}
    <3>1. WillTell(c)'
      BY <1>5, <1>6, <1>7, <2>2 DEF WillTell, Current
    <3> QED
      BY <3>1, AgreeIfTold
  <2> QED
    BY <2>1, <2>2
<1> QED
  BY <1>9, <1>10, <1>11, <1>12, <1>13 DEF PresenceInv, TaskInv, LiveInv, KeptInv

LEMMA Drop_Inv ==
    ASSUME PresenceInv, NEW c \in Conns, Drop(c)
    PROVE  PresenceInv'
<1> DEFINE found == task[c].found
           anew  == {x \in found : listed[x] # "no" /\ ~ToDo(x, "record")}
           again == {x \in found : listed[x] # "no" /\ ~ToDo(x, "send")}
<1>1. /\ At(c, "drop")
      /\ Goes(c, WithFound(After(c), IF ToDo(c, "probe") THEN After(c).found ELSE {}))
      /\ record' = [x \in Conns |-> IF x \in found THEN Unset ELSE record[x]]
      /\ lapsed' = lapsed \cup anew
      /\ missed' = missed \cup IF anew \cup again # {} THEN {"wiped"} ELSE {}
      /\ UNCHANGED <<phase, section, listed, view, events>>
  BY DEF Drop, WithFound, Note
<1>2. PresenceTypeOK /\ TaskInv /\ LiveInv /\ KeptInv
  BY DEF PresenceInv
<1>3. /\ After(c) \in Tasks /\ After(c).todo = Tail(task[c].todo)
      /\ After(c).found = found /\ found \in SUBSET Conns
  BY <1>1, <1>2, AfterIsTask, TaskFields DEF At, SameButTodo
<1>4. PICK t \in Tasks : /\ Goes(c, t) /\ t.todo = Tail(task[c].todo)
                         /\ ToDo(c, "probe") => t.found = found
  <2>1. PICK fs \in SUBSET Conns : fs = IF ToDo(c, "probe") THEN found ELSE {}
    BY <1>3
  <2>2. /\ WithFound(After(c), fs) \in Tasks /\ WithFound(After(c), fs).found = fs
        /\ WithFound(After(c), fs).todo = After(c).todo
    BY <1>3, <2>1, TaskWrites
  <2> QED
    BY <1>1, <1>3, <2>1, <2>2
<1>5. /\ task' \in [Conns -> Tasks] /\ \A x \in Conns : Shape(task'[x].todo)
      /\ \A x \in Conns \ {c} : task'[x] = task[x]
      /\ ToDo(c, "drop") /\ phase[c] # "out"
      /\ \A e : ToDo(c, e)' <=> ToDo(c, e) /\ e # "drop"
      /\ \A e : ToDo(c, e) => e \in Commands /\ TurnOf("drop") <= TurnOf(e)
      /\ \A e : ToDo(c, e)' => task'[c] = t
      /\ Follows(task[c].todo)
  BY <1>1, <1>4, Advances
<1>6. /\ ~ToDo(c, "unlist") /\ ~ToDo(c, "clear") /\ ~ToDo(c, "record")
      /\ ToDo(c, "send") \/ ToDo(c, "show") => ToDo(c, "scan")
  BY <1>5 DEF Follows, ToDo, TurnOf, Commands
<1>7. \A x \in Conns : \A e : e # "drop" => (ToDo(x, e)' <=> ToDo(x, e))
  BY <1>5, OthersToDo
<1>8. ToDo(c, "probe") => task'[c].found = found
  BY <1>4, <1>5
<1>9. /\ record' \in [Conns -> Sections \cup {Unset}]
      /\ \A x \in Conns : record'[x] = IF x \in found THEN Unset ELSE record[x]
      /\ anew \subseteq Conns
  BY <1>1, <1>2, <1>3 DEF PresenceTypeOK
<1>10. PresenceTypeOK' /\ missed \subseteq missed'
  BY <1>1, <1>2, <1>5, <1>9 DEF PresenceTypeOK, Misses
<1>11. ASSUME NEW x \in Conns PROVE TaskOf(x)'
  <2>1. TaskOf(x)
    BY <1>2 DEF TaskInv
  <2>2. ToDo(x, "probe") => task'[x].found = task[x].found
    BY <1>5, <1>8
  <2>3. ToDo(x, "clear") => task'[x] = task[x]
    BY <1>5, <1>6
  <2>4. phase[x] = "out" => task'[x] = task[x]
    BY <1>5
  <2> QED
    BY <1>1, <1>5, <1>7, <1>9, <2>1, <2>2, <2>3, <2>4 DEF TaskOf
<1>12. ASSUME NEW x \in Conns PROVE LiveOf(x)'
  <2>1. TaskOf(x) /\ LiveOf(x)
    BY <1>2 DEF TaskInv, LiveInv
  <2>2. ToDo(x, "stamp") => ToDo(x, "record")
    BY <2>1 DEF TaskOf, Shape, Follows, ToDo
  <2>3. x \in found /\ x \notin lapsed' => ToDo(x, "record") \/ listed[x] = "no"
    BY <1>1
  <2>4. x \in InGroup' => x \in InGroup
    BY <1>1 DEF InGroup
  <2>5. x \notin lapsed' => x \notin lapsed
    BY <1>1
  <2> QED
    BY <1>1, <1>7, <1>9, <2>1, <2>2, <2>3, <2>4, <2>5 DEF LiveOf
<1>13. missed' = {} => \A x \in found : listed[x] # "no" => ToDo(x, "record") /\ ToDo(x, "send")
  BY <1>1
<1>14. ASSUME missed' = {}, NEW x \in Conns PROVE KeptOf(x)'
  <2>1. KeptOf(x)
    BY <1>1, <1>2, <1>14 DEF KeptInv
  <2> QED
    BY <1>1, <1>7, <1>9, <1>13, <1>14, <2>1 DEF KeptOf
<1>15. AgreeInv'
  <2>1. CASE \E x \in found : listed[x] # "no" /\ missed' = {}
    <3>1. PICK x \in Conns : x \in found /\ listed[x] # "no" /\ missed' = {}
      BY <1>3, <2>1
    <3>2. ToDo(x, "record") /\ ToDo(x, "send")
      BY <1>13, <3>1
    <3>3. ToDo(x, "scan") /\ ~ToDo(x, "probe")
      BY <1>2, <3>2 DEF TaskInv, TaskOf, Shape, Follows, ToDo, TurnOf, Commands
    <3>4. WillTell(x)'
      BY <1>7, <3>2, <3>3 DEF WillTell, Current
    <3> QED
      BY <3>4, AgreeIfTold
  <2>2. CASE ~\E x \in found : listed[x] # "no" /\ missed' = {}
    <3>1. missed' = {} => SameStored
      BY <1>1, <1>9, <2>2 DEF SameStored
    <3>2. missed' = {} => /\ WillTell(c) => WillTell(c)'
                          /\ Timely(c) => Timely(c)'
                          /\ Told(c) => Told(c)'
      BY <1>1, <1>2, <1>6, <1>7, <1>8, <3>1, EarlyCommand
    <3>3. InGroup' \subseteq InGroup
      BY <1>1 DEF InGroup
    <3> QED
      BY <1>1, <1>5, <1>10, <3>1, <3>2, <3>3, AgreeKeeps
  <2> QED
    BY <2>1, <2>2
<1> QED
  BY <1>10, <1>11, <1>12, <1>14, <1>15 DEF PresenceInv, TaskInv, LiveInv, KeptInv

LEMMA Clear_Inv ==
    ASSUME PresenceInv, NEW c \in Conns, Clear(c)
    PROVE  PresenceInv'
<1>1. /\ At(c, "clear") /\ Goes(c, WithSeen(After(c), {}))
      /\ listed' = [x \in Conns |-> "no"] /\ record' = [x \in Conns |-> Unset]
      /\ lapsed' = lapsed \cup (Listed \ task[c].seen)
      /\ missed' = missed \cup IF Listed \ task[c].seen # {} THEN {"wiped"} ELSE {}
      /\ UNCHANGED <<phase, section, view, events>>
  BY DEF Clear, WithSeen, Note
<1>2. PresenceTypeOK /\ TaskInv /\ LiveInv /\ KeptInv
  BY DEF PresenceInv
<1>3. PICK t \in Tasks : Goes(c, t) /\ t.todo = Tail(task[c].todo) /\ t.found = task[c].found
  <2>1. /\ After(c) \in Tasks /\ After(c).todo = Tail(task[c].todo)
        /\ SameButTodo(After(c), task[c])
    BY <1>1, <1>2, AfterIsTask DEF At
  <2>2. /\ WithSeen(After(c), {}) \in Tasks /\ WithSeen(After(c), {}).todo = After(c).todo
        /\ WithSeen(After(c), {}).found = After(c).found
    BY <2>1, {} \in SUBSET Conns, TaskWrites
  <2> QED
    BY <1>1, <2>1, <2>2 DEF SameButTodo
<1>4. /\ task' \in [Conns -> Tasks] /\ \A x \in Conns : Shape(task'[x].todo)
      /\ \A x \in Conns \ {c} : task'[x] = task[x]
      /\ ToDo(c, "clear") /\ phase[c] # "out"
      /\ \A e : ToDo(c, e)' <=> ToDo(c, e) /\ e # "clear"
      /\ \A e : ToDo(c, e) => e \in Commands /\ TurnOf("clear") <= TurnOf(e)
      /\ Follows(task[c].todo)
  BY <1>1, <1>3, Advances
<1>5. /\ ~ToDo(c, "unlist") /\ ~ToDo(c, "probe")
      /\ ToDo(c, "send") \/ ToDo(c, "show") => ToDo(c, "scan")
  BY <1>4 DEF Follows, ToDo, TurnOf, Commands
<1>6. \A x \in Conns : \A e : e # "clear" => (ToDo(x, e)' <=> ToDo(x, e))
  BY <1>4, OthersToDo
<1>7. task[c].seen = {} /\ lapsed' = lapsed \cup Listed
  BY <1>1, <1>2, <1>4 DEF TaskInv, TaskOf
<1>8. \A x \in Conns : listed'[x] = "no" /\ record'[x] = Unset
  BY <1>1
<1>9. PresenceTypeOK' /\ missed \subseteq missed'
  BY <1>1, <1>2, <1>4, <1>7 DEF PresenceTypeOK, Misses, Listed
<1>10. ASSUME NEW x \in Conns PROVE TaskOf(x)'
  <2>1. TaskOf(x)
    BY <1>2 DEF TaskInv
  <2>2. ~ToDo(c, "clear")'
    BY <1>4
  <2>3. x # c => task'[x] = task[x] /\ (ToDo(x, "clear")' => ToDo(x, "clear"))
    BY <1>4 DEF ToDo
  <2> QED
    BY <1>1, <1>4, <1>6, <1>8, <2>1, <2>2, <2>3 DEF TaskOf
<1>11. ASSUME NEW x \in Conns PROVE LiveOf(x)'
  <2>1. TaskOf(x) /\ LiveOf(x)
    BY <1>2 DEF TaskInv, LiveInv
  <2>2. ToDo(x, "stamp") => ToDo(x, "record")
    BY <2>1 DEF TaskOf, Shape, Follows, ToDo
  <2>3. x \notin lapsed' => x \notin lapsed /\ listed[x] = "no"
    BY <1>7 DEF Listed
  <2>4. x \in InGroup' => x \in InGroup
    BY <1>1 DEF InGroup
  <2> QED
    BY <1>1, <1>6, <2>1, <2>2, <2>3, <2>4 DEF LiveOf
<1>12. missed' = {} => missed = {} /\ \A x \in Conns : listed[x] = "no"
  BY <1>1, <1>7 DEF Listed
<1>13. ASSUME missed' = {}, NEW x \in Conns PROVE KeptOf(x)'
  <2>1. KeptOf(x)
    BY <1>2, <1>12, <1>13 DEF KeptInv
  <2> QED
    BY <1>6, <1>8, <1>12, <1>13, <2>1 DEF KeptOf
<1>14. AgreeInv'
  <2>1. missed' = {} => SameStored
    BY <1>8, <1>12 DEF SameStored
  <2>2. missed' = {} => /\ WillTell(c) => WillTell(c)'
                        /\ Timely(c) => Timely(c)'
                        /\ Told(c) => Told(c)'
    BY <1>1, <1>2, <1>5, <1>6, <2>1, EarlyCommand
  <2>3. InGroup' \subseteq InGroup
    BY <1>1 DEF InGroup
  <2> QED
    BY <1>1, <1>4, <1>9, <2>1, <2>2, <2>3, AgreeKeeps
<1> QED
  BY <1>9, <1>10, <1>11, <1>13, <1>14 DEF PresenceInv, TaskInv, LiveInv, KeptInv

LEMMA ExpireList_Inv ==
    ASSUME PresenceInv, ExpireList
    PROVE  PresenceInv'
<1>1. /\ listed' = [x \in Conns |-> "no"] /\ lapsed' = lapsed \cup Listed
      /\ missed' = missed \cup {"expired"}
      /\ UNCHANGED <<phase, section, record, view, task, events>>
  BY DEF ExpireList
<1>2. PresenceTypeOK /\ TaskInv /\ LiveInv
  BY DEF PresenceInv
<1>3. PresenceTypeOK' /\ missed' # {}
  BY <1>1, <1>2 DEF PresenceTypeOK, Misses, Listed
<1>4. \A x, e : ToDo(x, e)' <=> ToDo(x, e)
  BY <1>1 DEF ToDo
<1>5. TaskInv'
  BY <1>1, <1>2, <1>4 DEF TaskInv, TaskOf
<1>6. ASSUME NEW x \in Conns PROVE LiveOf(x)'
  <2>1. LiveOf(x) /\ (x \notin lapsed' => x \notin lapsed /\ listed[x] = "no")
    BY <1>1, <1>2 DEF LiveInv, Listed
  <2> QED
    BY <1>1, <1>4, <2>1 DEF LiveOf, InGroup
<1> QED
  BY <1>3, <1>5, <1>6 DEF PresenceInv, LiveInv, KeptInv, AgreeInv

LEMMA ExpireRecords_Inv ==
    ASSUME PresenceInv, ExpireRecords
    PROVE  PresenceInv'
<1> DEFINE lost == {x \in Conns : record[x] # Unset}
<1>1. /\ record' = [x \in Conns |-> Unset]
      /\ lapsed' = lapsed \cup {x \in lost : ~ToDo(x, "record")}
      /\ missed' = missed \cup {"expired"}
      /\ UNCHANGED <<phase, section, listed, view, task, events>>
  BY DEF ExpireRecords
<1>2. PresenceTypeOK /\ TaskInv /\ LiveInv
  BY DEF PresenceInv
<1>3. PresenceTypeOK' /\ missed' # {}
  BY <1>1, <1>2 DEF PresenceTypeOK, Misses
<1>4. \A x, e : ToDo(x, e)' <=> ToDo(x, e)
  BY <1>1 DEF ToDo
<1>5. TaskInv'
  BY <1>1, <1>2, <1>4 DEF TaskInv, TaskOf
<1>6. ASSUME NEW x \in Conns PROVE LiveOf(x)'
  <2>1. /\ LiveOf(x)
        /\ x \notin lapsed' => x \notin lapsed /\ (record[x] = Unset \/ ToDo(x, "record"))
    BY <1>1, <1>2 DEF LiveInv
  <2> QED
    BY <1>1, <1>4, <2>1 DEF LiveOf, InGroup
<1> QED
  BY <1>3, <1>5, <1>6 DEF PresenceInv, LiveInv, KeptInv, AgreeInv

\* What an update of the group does to the handlers.
LEMMA BroadcastTasks ==
    ASSUME PresenceInv, NEW c \in Conns, Broadcast(c)
    PROVE  /\ task' \in [Conns -> Tasks] /\ \A x \in Conns : Shape(task'[x].todo)
           /\ ToDo(c, "send") /\ phase[c] # "out"
           /\ \A x \in Conns \ {c} :
                 /\ task'[x].todo = task[x].todo /\ task'[x].found = task[x].found
                 /\ task'[x].seen = task[x].seen /\ task'[x].state = task[x].state
                 /\ ToDo(x, "send") /\ ~ToDo(x, "scan") => task'[x].late
                 /\ task[x].late => task'[x].late
                 /\ task[x] = Quiet => task'[x] = Quiet
           /\ \A e : ToDo(c, e)' <=> ToDo(c, e) /\ e # "send"
           /\ \A e : ToDo(c, e) => e \in {"send", "part"}
<1>1. /\ At(c, "send") /\ PresenceTypeOK
      /\ task' = [x \in Conns |->
             CASE x = c -> IF Len(task[c].todo) = 1 THEN Quiet ELSE Fresh(Tail(task[c].todo))
               [] x # c /\ ToDo(x, "send") /\ ~ToDo(x, "scan") ->
                      [task[x] EXCEPT !.late = TRUE]
               [] OTHER -> task[x]]
  BY DEF Broadcast, PresenceInv
<1>2. /\ task \in [Conns -> Tasks] /\ \A x \in Conns : Shape(task[x].todo)
      /\ task[c].todo # <<>> /\ Head(task[c].todo) = "send"
  BY <1>1, PresenceTypes DEF PresenceInv, TaskInv, TaskOf, At
<1>3. /\ Shape(Tail(task[c].todo)) /\ Contains(task[c].todo, "send") /\ Follows(task[c].todo)
      /\ \A e : Contains(task[c].todo, e) => e \in Commands /\ TurnOf("send") <= TurnOf(e)
      /\ \A e : Contains(Tail(task[c].todo), e) <=> Contains(task[c].todo, e) /\ e # "send"
  BY <1>2, Behead DEF Shape
<1>4. \A e : ToDo(c, e) => e \in {"send", "part"}
  BY <1>3 DEF Follows, ToDo, TurnOf, Commands
<1>5. PICK t \in Tasks : t = task'[c] /\ t.todo = Tail(task[c].todo)
  <2>1. Tail(task[c].todo) \in Seq(Commands) /\ task[c].todo \in Seq(Commands)
    BY <1>2, <1>3 DEF Shape
  <2>2. Len(task[c].todo) = 1 => Tail(task[c].todo) = <<>>
    <3>1. Len(Tail(task[c].todo)) = Len(task[c].todo) - 1
      BY <1>2, <2>1, HeadTailProperties
    <3>2. Len(Tail(task[c].todo)) = 0 => Tail(task[c].todo) = <<>>
      BY <2>1, EmptySeq
    <3> QED
      BY <3>1, <3>2
  <2>3. task'[c] = IF Len(task[c].todo) = 1 THEN Quiet ELSE Fresh(Tail(task[c].todo))
    BY <1>1
  <2> QED
    BY <2>1, <2>2, <2>3, QuietTask
<1>6. ASSUME NEW x \in Conns \ {c}
      PROVE  /\ task'[x] \in Tasks /\ task'[x].todo = task[x].todo
             /\ task'[x].found = task[x].found
             /\ task'[x].seen = task[x].seen /\ task'[x].state = task[x].state
             /\ ToDo(x, "send") /\ ~ToDo(x, "scan") => task'[x].late
             /\ task[x].late => task'[x].late
             /\ task[x] = Quiet => task'[x] = Quiet
  <2>1. PICK u \in Tasks : u = task[x]
    BY <1>2
  <2>2. CASE ToDo(x, "send") /\ ~ToDo(x, "scan")
    <3>1. task'[x] = [u EXCEPT !.late = TRUE]
      BY <1>1, <2>1, <2>2
    <3>2. /\ [u EXCEPT !.late = TRUE] \in Tasks /\ [u EXCEPT !.late = TRUE].late
          /\ [u EXCEPT !.late = TRUE].todo = u.todo /\ [u EXCEPT !.late = TRUE].found = u.found
          /\ [u EXCEPT !.late = TRUE].seen = u.seen /\ [u EXCEPT !.late = TRUE].state = u.state
      BY <2>1 DEF Tasks
    <3>3. task[x] # Quiet
      BY <2>2, QuietTask, NothingToDo DEF ToDo
    <3> QED
      BY <2>1, <3>1, <3>2, <3>3
  <2>3. CASE ~(ToDo(x, "send") /\ ~ToDo(x, "scan"))
    <3>1. task'[x] = task[x]
      BY <1>1, <2>3
    <3> QED
      BY <2>1, <2>3, <3>1
  <2> QED
    BY <2>2, <2>3
<1>7. task' \in [Conns -> Tasks]
  <2>1. \A x \in Conns : task'[x] \in Tasks
    BY <1>5, <1>6
  <2>2. DOMAIN task' = Conns /\ task' = [x \in Conns |-> task'[x]]
    BY <1>1
  <2> QED
    BY <2>1, <2>2
<1>8. \A x \in Conns : Shape(task'[x].todo)
  BY <1>2, <1>3, <1>5, <1>6
<1>9. phase[c] # "out"
  BY <1>2, QuietTask DEF PresenceInv, TaskInv, TaskOf
<1>10. \A e : ToDo(c, e)' <=> ToDo(c, e) /\ e # "send"
  BY <1>3, <1>5 DEF ToDo
<1>11. ToDo(c, "send")
  BY <1>3 DEF ToDo
<1> QED
  BY <1>4, <1>6, <1>7, <1>8, <1>9, <1>10, <1>11

LEMMA Broadcast_Inv ==
    ASSUME PresenceInv, NEW c \in Conns, Broadcast(c)
    PROVE  PresenceInv'
<1>1. /\ view' = [x \in Conns |-> IF x \in InGroup THEN {task[c].state} ELSE view[x]]
      /\ missed' = missed \cup IF task[c].late /\ task[c].state # Listing
                               THEN {"overtaken"} ELSE {}
      /\ UNCHANGED <<phase, section, listed, record, events, lapsed>>
  BY DEF Broadcast, Note, stored
<1>2. PresenceTypeOK /\ TaskInv /\ LiveInv /\ KeptInv
  BY DEF PresenceInv
<1>3. /\ task' \in [Conns -> Tasks] /\ \A x \in Conns : Shape(task'[x].todo)
      /\ ToDo(c, "send") /\ phase[c] # "out"
      /\ \A x \in Conns \ {c} :
            /\ task'[x].todo = task[x].todo /\ task'[x].found = task[x].found
            /\ task'[x].seen = task[x].seen /\ task'[x].state = task[x].state
            /\ ToDo(x, "send") /\ ~ToDo(x, "scan") => task'[x].late
            /\ task[x].late => task'[x].late
            /\ task[x] = Quiet => task'[x] = Quiet
      /\ \A e : ToDo(c, e)' <=> ToDo(c, e) /\ e # "send"
      /\ \A e : ToDo(c, e) => e \in {"send", "part"}
  BY BroadcastTasks
<1>4. \A x \in Conns \ {c} : \A e : ToDo(x, e)' <=> ToDo(x, e)
  BY <1>3 DEF ToDo
<1>5. InGroup' = InGroup /\ InGroup \subseteq Conns /\ Listing' = Listing /\ Listed' = Listed
  BY <1>1 DEF InGroup, Listing, Listed, Shows
<1>6. /\ view' \in [Conns -> SUBSET States]
      /\ \A x \in Conns : view'[x] = IF x \in InGroup THEN {task[c].state} ELSE view[x]
  <2>1. task[c].state \in States
    BY <1>2, TaskFields DEF PresenceTypeOK
  <2> QED
    BY <1>1, <1>2, <2>1 DEF PresenceTypeOK
<1>7. PresenceTypeOK' /\ missed \subseteq missed'
  BY <1>1, <1>2, <1>3, <1>6 DEF PresenceTypeOK, Misses
<1>8. ASSUME NEW x \in Conns PROVE TaskOf(x)' /\ LiveOf(x)' /\ (missed' = {} => KeptOf(x)')
  <2>1. TaskOf(x) /\ LiveOf(x) /\ (missed' = {} => KeptOf(x))
    BY <1>2, <1>7 DEF TaskInv, LiveInv, KeptInv
  <2>2. x \in InGroup => phase[x] # "out"
    BY DEF InGroup
  <2>3. CASE x = c
    <3>1. TaskOf(x)'
      BY <1>1, <1>3, <2>1, <2>3 DEF TaskOf
    <3>2. LiveOf(x)' /\ (missed' = {} => KeptOf(x)')
      BY <1>1, <1>3, <1>5, <2>1, <2>3 DEF LiveOf, KeptOf
    <3> QED
      BY <3>1, <3>2
  <2>4. CASE x # c
    <3>1. TaskOf(x)'
      BY <1>1, <1>3, <1>4, <1>6, <2>1, <2>2, <2>4 DEF TaskOf
    <3>2. LiveOf(x)' /\ (missed' = {} => KeptOf(x)')
      BY <1>1, <1>3, <1>4, <1>5, <2>1, <2>4 DEF LiveOf, KeptOf
    <3> QED
      BY <3>1, <3>2
  <2> QED
    BY <2>3, <2>4
<1>9. ASSUME missed' = {}
      PROVE  \/ \E x \in Conns : WillTell(x)'
             \/ (\A x \in Conns : Timely(x)') /\ \A x \in InGroup' : Told(x)'
  <2>1. missed = {} /\ (task[c].late => task[c].state = Listing)
    BY <1>1, <1>9
  <2>2. Current(c) <=> task[c].state = Listing
    BY <1>3 DEF Current
  <2>3. \A x \in Conns \ {c} : Current(x) => Current(x)'
    <3>1. ASSUME NEW x \in Conns \ {c}, Recorded(task[x].seen) = Recorded(Listed)
          PROVE  Recorded(task[x].seen)' = Recorded(Listed)'
      BY <1>1, <1>3, <1>5, <3>1 DEF Recorded
    <3> QED
      BY <1>3, <1>4, <1>5, <3>1 DEF Current
  <2>4. CASE \E x \in Conns \ {c} : WillTell(x)
    <3>1. PICK x \in Conns \ {c} : WillTell(x)
      BY <2>4
    <3>2. WillTell(x)'
      BY <1>3, <1>4, <2>3, <3>1 DEF WillTell
    <3> QED
      BY <3>2
  <2>5. CASE ~\E x \in Conns \ {c} : WillTell(x)
    <3>1. Current(c)
      <4>1. CASE WillTell(c)
        BY <1>3, <4>1 DEF WillTell
      <4>2. CASE ~WillTell(c)
        <5>1. Timely(c)
          BY <2>1, <2>5, <4>2 DEF PresenceInv, AgreeInv
        <5> QED
          BY <1>3, <2>1, <2>2, <5>1 DEF Timely
      <4> QED
        BY <4>1, <4>2
    <3>2. \A x \in InGroup' : Told(x)'
      <4>1. ASSUME NEW x \in InGroup' PROVE view'[x] = {Listing'}
        BY <1>5, <1>6, <2>2, <3>1, <4>1
      <4> QED
        BY <4>1 DEF Told
    <3>3. \A x \in Conns : Timely(x)'
      <4>1. ~ToDo(c, "send")'
        BY <1>3
      <4>2. ASSUME NEW x \in Conns \ {c}, ToDo(x, "send")', ~task'[x].late PROVE Current(x)'
        BY <1>3, <1>4, <4>2 DEF Current
      <4> QED
        BY <4>1, <4>2 DEF Timely
    <3> QED
      BY <3>2, <3>3
  <2> QED
    BY <2>4, <2>5
<1>10. AgreeInv'
  BY <1>9 DEF AgreeInv
<1> QED
  BY <1>7, <1>8, <1>10 DEF PresenceInv, TaskInv, LiveInv, KeptInv

LEMMA PresenceInit_Inv == PresenceInit => PresenceInv
<1> SUFFICES ASSUME PresenceInit PROVE PresenceInv
  OBVIOUS
<1>1. \A c \in Conns : task[c] = Quiet /\ task[c].todo = <<>> /\ \A e : ~ToDo(c, e)
  BY QuietTask, NothingToDo DEF PresenceInit, ToDo
<1>2. PresenceTypeOK
  BY QuietTask, PresenceBoundsAssumption DEF PresenceInit, PresenceTypeOK
<1>3. TaskInv
  BY <1>1, NothingToDo DEF PresenceInit, TaskInv, TaskOf
<1>4. LiveInv /\ KeptInv
  BY <1>1 DEF PresenceInit, LiveInv, LiveOf, KeptInv, KeptOf, InGroup
<1>5. AgreeInv
  <2>1. InGroup = {} /\ \A c \in Conns : Timely(c)
    BY <1>1 DEF PresenceInit, InGroup, Timely
  <2> QED
    BY <2>1 DEF AgreeInv
<1> QED
  BY <1>2, <1>3, <1>4, <1>5 DEF PresenceInv

LEMMA PresenceStep_Inv == PresenceInv /\ [PresenceNext]_presenceVars => PresenceInv'
<1> SUFFICES ASSUME PresenceInv, [PresenceNext]_presenceVars PROVE PresenceInv'
  OBVIOUS
<1>1. ASSUME NEW c \in Conns, Receives(c) PROVE PresenceInv'
  BY <1>1, Authenticate_Inv, Ping_Inv, Disconnect_Inv, PageChange_Inv DEF Receives
<1>2. ASSUME NEW c \in Conns, Works(c) PROVE PresenceInv'
  BY <1>2, Find_Inv, Forget_Inv, Drop_Inv, Probe_Inv, Stamp_Inv, Record_Inv, Unlist_Inv,
     Count_Inv, Clear_Inv, ScanListed_Inv, Fetch_Inv, Broadcast_Inv, Show_Inv, Part_Inv
  DEF Works
<1>3. ASSUME NEW c \in Conns, Raises(c) \/ Dies(c) \/ Age(c) PROVE PresenceInv'
  BY <1>3, Raises_Inv, Dies_Inv, Age_Inv
<1>4. CASE ExpireList \/ ExpireRecords
  BY <1>4, ExpireList_Inv, ExpireRecords_Inv
<1>5. CASE UNCHANGED presenceVars
  <2>1. UNCHANGED <<phase, section, listed, record, view, task, events, lapsed, missed>>
    BY <1>5 DEF presenceVars, stored, history
  <2>2. \A x, e : ToDo(x, e)' <=> ToDo(x, e)
    BY <2>1 DEF ToDo
  <2>3. Listing' = Listing /\ Listed' = Listed /\ InGroup' = InGroup
    BY <2>1 DEF Listing, Listed, Shows, InGroup
  <2>4. TaskInv' /\ LiveInv' /\ KeptInv' /\ PresenceTypeOK'
    BY <2>1, <2>2, <2>3 DEF PresenceInv, TaskInv, TaskOf, LiveInv, LiveOf, KeptInv, KeptOf,
                            PresenceTypeOK
  <2>5. SameStored
    BY <2>1 DEF SameStored
  <2>6. \A x \in Conns : /\ WillTell(x) => WillTell(x)'
                         /\ Timely(x) => Timely(x)'
                         /\ Told(x) => Told(x)'
    BY <2>1, <2>5, CurrentStays DEF PresenceInv
  <2>7. AgreeInv'
    <3>1. InGroup \subseteq Conns
      BY DEF InGroup
    <3> QED
      BY <2>1, <2>3, <2>6, <3>1 DEF PresenceInv, AgreeInv
  <2> QED
    BY <2>4, <2>7 DEF PresenceInv
<1> QED
  BY <1>1, <1>2, <1>3, <1>4, <1>5 DEF PresenceNext

-----------------------------------------------------------------------------
(* Presence: theorems.                                                      *)

\* What a handler has still to do makes up for what is not listed or not told:
\* the inductive invariant, for any number of connections and handlers at work.
THEOREM PresenceInvariance == PresenceSpec => []PresenceInv
<1>1. PresenceInit => PresenceInv
  BY PresenceInit_Inv
<1>2. PresenceInv /\ [PresenceNext]_presenceVars => PresenceInv'
  BY PresenceStep_Inv
<1> QED
  BY <1>1, <1>2, PTL DEF PresenceSpec

\* Every reachable state of connections, keys and handlers is well typed.
THEOREM PresenceTypesHold == PresenceSpec => []PresenceTypeOK
<1>1. PresenceInv => PresenceTypeOK
  BY DEF PresenceInv
<1> QED
  BY <1>1, PresenceInvariance, PTL

\* Who shows a section and was heard of in time is listed with it, whatever the
\* other consumers do at the same time, outside the recorded holes.
THEOREM LiveIsListedHolds == PresenceSpec => []LiveIsListed
<1>1. PresenceInv => LiveIsListed
  <2> SUFFICES ASSUME PresenceInv, NEW c \in InGroup \ lapsed,
                      task[c] = Quiet, section[c] # Unset
               PROVE  listed[c] # "no" /\ record[c] = section[c]
    BY DEF LiveIsListed
  <2>1. c \in Conns /\ LiveOf(c)
    BY DEF InGroup, PresenceInv, LiveInv
  <2>2. \A e : ~ToDo(c, e)
    BY QuietTask, NothingToDo DEF ToDo
  <2> QED
    BY <2>1, <2>2 DEF LiveOf
<1> QED
  BY <1>1, PresenceInvariance, PTL

\* When no handler is at work all clients show what is stored, in whatever order
\* the consumers read and sent it, outside the recorded holes.
THEOREM ViewsAgreeHolds == PresenceSpec => []ViewsAgree
<1>1. PresenceInv => ViewsAgree
  <2> SUFFICES ASSUME PresenceInv, missed = {}, \A c \in Conns : task[c] = Quiet,
                      NEW c \in InGroup
               PROVE  view[c] = {Listing}
    BY DEF ViewsAgree
  <2>1. c \in Conns /\ \A x \in Conns : \A e : ~ToDo(x, e)
    BY QuietTask, NothingToDo DEF ToDo, InGroup
  <2>2. ~\E x \in Conns : WillTell(x)
    BY <2>1 DEF WillTell
  <2>3. Told(c)
    BY <2>2 DEF PresenceInv, AgreeInv
  <2> QED
    BY <2>1, <2>3 DEF Told
<1> QED
  BY <1>1, PresenceInvariance, PTL
=============================================================================
