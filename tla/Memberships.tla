---------------------------- MODULE Memberships ----------------------------
(***************************************************************************)
(* Membership of one organisation (apps/organisations): joining, one       *)
(* acceptance code with a number of uses, invitations, verification by the *)
(* controllers and removal.  Rows are read without a lock and saved whole: *)
(* what was saved since is overwritten, what was deleted is inserted again.*)
(***************************************************************************)
EXTENDS Naturals, FiniteSets

CONSTANTS
    People,        \* the users
    Agents,        \* web processes
    MaxUses,       \* max_uses of the code at the start
    MaxOrders,     \* bound: requests of the controllers
    MaxCrashes     \* bound: requests that die half way

ASSUME MembershipBoundsAssumption ==
    MaxUses \in Nat \ {0} /\ {MaxOrders, MaxCrashes} \subseteq Nat

VARIABLES
    rules,         \* what the organisation requires: a code, manual verification
    member,        \* the membership of each user: the row, 0 without, and verified_at
    rows,          \* membership rows made so far
    code,          \* the acceptance code: uses, max_uses, is_active, expires_at gone by
    invited,       \* the invitation of each user
    agent,         \* what each process is in the middle of
    orders,        \* requests counted against MaxOrders so far
    crashes,       \* crashes counted against MaxCrashes so far
    admitted,      \* history: users verified by a use of the code
    overspent,     \* history: a use of the code was overwritten, or its limit lowered
    parted         \* history: users removed, or whose acceptance died or met another save

membershipTrace == <<admitted, overspent, parted>>
membershipVars ==
    <<rules, member, rows, code, invited, agent, orders, crashes, membershipTrace>>

NotInvited == [row |-> "unsent", accepted |-> FALSE, open |-> FALSE]
Invitation == [row : {"unsent", "there", "deleted"}, accepted : BOOLEAN, open : BOOLEAN]
Stranger   == [id |-> 0, verified |-> FALSE]
Codes      == [uses : Nat, limit : Nat \ {0}, open : BOOLEAN, expired : BOOLEAN]

Available == [at |-> "idle"]
AgentJobs ==
    {Available}
    \cup [at : {"insert", "settle"}, who : People]
    \cup [at : {"verify"}, who : People, id : Nat, by : {"code", "invite", "controller"}]
    \cup [at : {"spend"}, who : People, id : Nat, read : Codes]
    \cup [at : {"mark"}, who : People, id : Nat, verified : BOOLEAN]
    \cup [at : {"recode"}, read : Codes]
    \cup [at : {"reinvite"}, who : People, read : Invitation]

MembershipInit ==
    /\ rules \in SUBSET {"code", "manual"}
    /\ member = [u \in People |-> Stranger]
    /\ rows = 0
    /\ code = [uses |-> 0, limit |-> MaxUses, open |-> TRUE, expired |-> FALSE]
    /\ invited = [u \in People |-> NotInvited]
    /\ agent = [g \in Agents |-> Available]
    /\ orders = 0 /\ crashes = 0
    /\ admitted = {} /\ overspent = FALSE /\ parted = {}

Turns(g, job) == agent' = [agent EXCEPT ![g] = job]
Takes(g, job) == agent[g] = Available /\ Turns(g, job)
Orders == orders < MaxOrders /\ orders' = orders + 1 /\ UNCHANGED crashes

CodeIsValid   == code.open /\ code.uses < code.limit /\ ~code.expired
InviteIsValid(u) == invited[u].row = "there" /\ invited[u].open /\ ~invited[u].accepted

\* The row is made, if there is none yet.
Joins(u, verified) ==
    /\ rows' = rows + 1
    /\ member' = [member EXCEPT ![u] = [id |-> rows + 1, verified |-> verified]]

-----------------------------------------------------------------------------
(* Joining.                                                                 *)

\* POST checks that there is no membership and that the code would do.
Join(g, u) ==
    /\ member[u] = Stranger
    /\ "code" \in rules => CodeIsValid
    /\ Takes(g, [at |-> "insert", who |-> u])
    /\ UNCHANGED <<rules, member, rows, code, invited, orders, crashes, membershipTrace>>

\* The membership is verified at once if a code was required.  The code is not
\* used up.  A second row of the same user is refused.
Insert(g) ==
    LET u == agent[g].who IN
    /\ agent[g].at = "insert"
    /\ Turns(g, Available)
    /\ IF member[u] = Stranger THEN Joins(u, "code" \in rules) ELSE UNCHANGED <<member, rows>>
    /\ UNCHANGED <<rules, code, invited, orders, crashes, membershipTrace>>

-----------------------------------------------------------------------------
(* Verification.                                                            *)

\* The membership and the code are read, the code must be valid.
VerifyWithCode(g, u) ==
    /\ member[u] # Stranger /\ "code" \in rules /\ CodeIsValid
    /\ Takes(g, [at |-> "spend", who |-> u, id |-> member[u].id, read |-> code])
    /\ UNCHANGED <<rules, member, rows, code, invited, orders, crashes, membershipTrace>>

\* Mutation: the last use leaves the code active and is not counted.
UsedLate(c) == [c EXCEPT !.uses = IF @ + 1 < c.limit THEN @ + 1 ELSE @]

\* use_code: one use more, and inactive with the last.
Used(c) == [c EXCEPT !.uses = @ + 1, !.open = @ /\ c.uses + 1 < c.limit]

\* save() of the code as it was read, with one use more.
Spend(g) ==
    LET job == agent[g] IN
    /\ job.at = "spend"
    /\ Turns(g, [at |-> "verify", who |-> job.who, id |-> job.id, by |-> "code"])
    /\ code' = [Used(job.read) EXCEPT !.expired = code.expired]
    /\ overspent' = (overspent \/ job.read.uses # code.uses \/ job.read.open # code.open
                               \/ job.read.limit # code.limit)
    /\ UNCHANGED <<rules, member, rows, invited, orders, crashes, admitted, parted>>

\* verify_manually, where the organisation asks for it.
VerifyManually(g, u) ==
    /\ member[u] # Stranger /\ "manual" \in rules
    /\ Orders
    /\ Takes(g, [at |-> "verify", who |-> u, id |-> member[u].id, by |-> "controller"])
    /\ UNCHANGED <<rules, member, rows, code, invited, membershipTrace>>

\* save() of the membership: inserted again if it was deleted, refused if the
\* user has joined anew.
SaveMember(g) ==
    LET job == agent[g]
        u   == job.who
        fits == member[u].id \in {0, job.id}
    IN
    /\ job.at = "verify"
    /\ Turns(g, Available)
    /\ member' = [member EXCEPT ![u] = IF fits THEN [id |-> job.id, verified |-> TRUE] ELSE @]
    /\ admitted' = IF fits /\ job.by = "code" THEN admitted \cup {u} ELSE admitted
    /\ UNCHANGED <<rules, rows, code, invited, orders, crashes, overspent, parted>>

-----------------------------------------------------------------------------
(* Invitations.                                                             *)

\* Sent to those who are not members: once each, here.
Invite(u) ==
    /\ member[u] = Stranger /\ invited[u] = NotInvited
    /\ Orders
    /\ invited' = [invited EXCEPT ![u] = [row |-> "there", accepted |-> FALSE, open |-> TRUE]]
    /\ UNCHANGED <<rules, member, rows, code, agent, membershipTrace>>

\* The invitation is read and must be valid.
AcceptInvite(g, u) ==
    /\ InviteIsValid(u)
    /\ Takes(g, [at |-> "settle", who |-> u])
    /\ UNCHANGED <<rules, member, rows, code, invited, orders, crashes, membershipTrace>>

\* Mutation: only a new membership is verified.
NeedsNothingIfThere(u) == member[u] # Stranger

\* A membership that is verified already is left alone.
NeedsNothing(u) == member[u].verified

\* get_or_create of the membership.
Settle(g) ==
    LET u == agent[g].who IN
    /\ agent[g].at = "settle"
    /\ IF member[u] = Stranger THEN Joins(u, FALSE) ELSE UNCHANGED <<member, rows>>
    /\ Turns(g, [at |-> "mark", who |-> u, id |-> member'[u].id, verified |-> NeedsNothing(u)])
    /\ UNCHANGED <<rules, code, invited, orders, crashes, membershipTrace>>

\* The invitation is saved as accepted before the membership is verified.
MarkAccepted(g) ==
    LET job == agent[g] IN
    /\ job.at = "mark"
    /\ Turns(g, IF job.verified THEN Available
                ELSE [at |-> "verify", who |-> job.who, id |-> job.id, by |-> "invite"])
    /\ invited' = [invited EXCEPT ![job.who] =
                      [row |-> "there", accepted |-> TRUE, open |-> FALSE]]
    /\ UNCHANGED <<rules, member, rows, code, orders, crashes, membershipTrace>>

-----------------------------------------------------------------------------
(* The controllers.                                                         *)

\* PATCH of the code reads it, and saves it with another limit or another
\* is_active.  When expires_at has gone by, save() makes it inactive.
ReadCode(g) ==
    /\ Orders
    /\ \E n \in 1 .. MaxUses + 1, b \in BOOLEAN :
           Takes(g, [at |-> "recode", read |-> [code EXCEPT !.limit = n, !.open = b]])
    /\ UNCHANGED <<rules, member, rows, code, invited, membershipTrace>>

SaveCode(g) ==
    LET c == agent[g].read IN
    /\ agent[g].at = "recode"
    /\ Turns(g, Available)
    /\ code' = [c EXCEPT !.open = @ /\ ~code.expired, !.expired = code.expired]
    /\ overspent' = (overspent \/ c.uses # code.uses \/ c.limit < code.limit)
    /\ UNCHANGED <<rules, member, rows, invited, orders, crashes, admitted, parted>>

ExpireCode ==
    /\ ~code.expired
    /\ Orders
    /\ code' = [code EXCEPT !.expired = TRUE]
    /\ UNCHANGED <<rules, member, rows, invited, agent, membershipTrace>>

\* PATCH of an invitation: is_active.
ReadInvite(g, u) ==
    /\ invited[u].row = "there"
    /\ Orders
    /\ \E b \in BOOLEAN :
           Takes(g, [at |-> "reinvite", who |-> u, read |-> [invited[u] EXCEPT !.open = b]])
    /\ UNCHANGED <<rules, member, rows, code, invited, membershipTrace>>

SaveInvite(g) ==
    LET u == agent[g].who IN
    /\ agent[g].at = "reinvite"
    /\ Turns(g, Available)
    /\ invited' = [invited EXCEPT ![u] = agent[g].read]
    /\ UNCHANGED <<rules, member, rows, code, orders, crashes, membershipTrace>>

WithdrawInvite(u) ==
    /\ invited[u].row = "there"
    /\ Orders
    /\ invited' = [invited EXCEPT ![u].row = "deleted"]
    /\ UNCHANGED <<rules, member, rows, code, agent, membershipTrace>>

RemoveMember(u) ==
    /\ member[u] # Stranger
    /\ Orders
    /\ member' = [member EXCEPT ![u] = Stranger]
    /\ parted' = parted \cup {u}
    /\ UNCHANGED <<rules, rows, code, invited, agent, admitted, overspent>>

Crash(g) ==
    /\ agent[g] # Available
    /\ crashes < MaxCrashes /\ crashes' = crashes + 1
    /\ Turns(g, Available)
    /\ parted' = IF agent[g].at = "verify" /\ agent[g].by = "invite"
                 THEN parted \cup {agent[g].who} ELSE parted
    /\ UNCHANGED <<rules, member, rows, code, invited, orders, admitted, overspent>>

-----------------------------------------------------------------------------
MembershipNext ==
    \/ \E g \in Agents, u \in People :
          \/ Join(g, u) \/ VerifyWithCode(g, u) \/ VerifyManually(g, u)
          \/ AcceptInvite(g, u) \/ ReadInvite(g, u)
    \/ \E g \in Agents :
          \/ Insert(g) \/ Spend(g) \/ SaveMember(g) \/ Settle(g) \/ MarkAccepted(g)
          \/ ReadCode(g) \/ SaveCode(g) \/ SaveInvite(g) \/ Crash(g)
    \/ \E u \in People : Invite(u) \/ WithdrawInvite(u) \/ RemoveMember(u)
    \/ ExpireCode

MembershipSpec == MembershipInit /\ [][MembershipNext]_membershipVars

-----------------------------------------------------------------------------
(* Properties.                                                              *)

\* Type invariant.
MembershipTypeOK ==
    /\ rules \subseteq {"code", "manual"}
    /\ member \in [People -> [id : Nat, verified : BOOLEAN]] /\ rows \in Nat
    /\ code \in Codes
    /\ invited \in [People -> Invitation]
    /\ agent \in [Agents -> AgentJobs]
    /\ orders \in 0 .. MaxOrders /\ crashes \in 0 .. MaxCrashes
    /\ admitted \subseteq People /\ parted \subseteq People /\ overspent \in BOOLEAN

\* The code verifies no more members than it has uses.  Unless two saves of it
\* overlapped (organisation.py:268), or the controllers lowered the limit.  Those
\* who show it when they join are not counted (serializers/base.py:486).
CodeWithinLimit == ~overspent => Cardinality(admitted) <= code.limit

\* Who accepted an invitation is a verified member, also if they had joined
\* without being verified.  Until they are removed; and unless the acceptance
\* died between its two saves, which cannot be repeated (organisation.py:118).
InvitedIsVerified ==
    \A u \in People \ parted :
        invited[u].row = "there" /\ invited[u].accepted
        /\ (\A g \in Agents : agent[g].at # "verify" \/ agent[g].who # u) =>
            member[u].verified
=============================================================================
