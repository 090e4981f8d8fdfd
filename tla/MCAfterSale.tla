---------------------------- MODULE MCAfterSale ----------------------------
(***************************************************************************)
(* Instances of Refunds, PurchaseLimit, CheckIn, Workshops, Presence,      *)
(* Invitations and Memberships for TLC.  They share no state, so they are  *)
(* explored side by side: a behaviour picks one of them and the others     *)
(* stay as they began.                                                     *)
(***************************************************************************)
EXTENDS Refunds, PurchaseLimit, CheckIn, Workshops, Presence, Invitations,
        Memberships, TLC

CONSTANTS a, b, s1, s2, Scenarios

VARIABLE scenario

parts == <<refundVars, limitVars, checkInVars, workshopVars, presenceVars, inviteVars,
           membershipVars>>
vars  == <<scenario, parts>>

\* The buyer's ticket with the order, and another ticket with a unit of the line.
MCAsks == {[who |-> {a}, units |-> 0], [who |-> {b}, units |-> 1]}

\* Metadata of another attendee without a snapshot, and of units with a wrong one.
MCEdits ==
    {[names |-> [who |-> {a}, units |-> 0], wasPayment |-> "none", wasOrder |-> "none"],
     [names |-> [who |-> {b}, units |-> 1], wasPayment |-> "REFUNDED",
      wasOrder |-> "partially_refunded"]}

\* Of the small size one each, of the large one two, since the product allows no more.
MCVariantLimit == "small" :> 1 @@ "large" :> 3
MCBaskets == {<< <<"small", 1>>, <<"large", 1>> >>, << <<"large", 2>> >>}

MCCapacity  == [w \in Workshops |-> 1]
MCSubmitted == <<"m", "n", "o">>

Programme(x, y, xLine, yLine, m, n, o) ==
    [mode  |-> [x |-> x, y |-> y],
     line  |-> [x |-> xLine, y |-> yLine],
     ranks |-> [m |-> m, n |-> n, o |-> o]]

\* A full workshop with two waiting; interests that collide; draws.
MCProgrammes ==
    {Programme("FCFS", "INTEREST_RANKING", <<"m", "n", "o">>, <<>>,
            <<"y", "x">>, <<"y">>, <<"y", "x">>),
     Programme("FCFS", "INTEREST_RANKING", <<>>, <<"o", "m">>,
            <<"y">>, <<"y", "x">>, <<"x", "y">>),
     Programme("FCFS", "RANDOM", <<"m">>, <<"o", "m", "n">>, <<>>, <<>>, <<>>),
     Programme("INTEREST_RANKING", "RANDOM", <<"m">>, <<"n", "m">>,
            <<"x", "y">>, <<"x">>, <<"y">>)}

\* Everybody has one connection.
MCUserOf == [c \in Conns |-> c]

\* Web processes, desks, clerks and connections are the same two.
MCSymmetry ==
    {p @@ s : p \in Permutations(Workers \cup Shoppers \cup Desks \cup Clerks \cup Conns
                            \cup Hosts \cup Agents),
              s \in Permutations(Sections \cup People \cup Carts)}

\* A component that is not explored has a single start.
Still ==
    /\ scenario # "refunds" =>
           method = (CHOOSE x \in Methods : TRUE) /\ order.status = "completed"
    /\ scenario # "check-in"  => ticket = "active"
    /\ scenario # "workshops" => programme = CHOOSE p \in Programmes : TRUE
    /\ scenario # "invitations" => inviteKind = CHOOSE k \in InviteKinds : TRUE
    /\ scenario # "invitations" => ~template
    /\ scenario # "memberships" => rules = {}

Init ==
    /\ scenario \in Scenarios
    /\ RefundInit /\ LimitInit /\ CheckInInit /\ WorkshopInit
    /\ PresenceInit /\ InviteInit /\ MembershipInit
    /\ Still

Next ==
    /\ UNCHANGED scenario
    /\ \/ scenario = "refunds" /\ RefundNext
          /\ UNCHANGED <<limitVars, checkInVars, workshopVars, presenceVars,
                         inviteVars, membershipVars>>
       \/ scenario = "limits" /\ LimitNext
          /\ UNCHANGED <<refundVars, checkInVars, workshopVars, presenceVars,
                         inviteVars, membershipVars>>
       \/ scenario = "check-in" /\ CheckInNext
          /\ UNCHANGED <<refundVars, limitVars, workshopVars, presenceVars,
                         inviteVars, membershipVars>>
       \/ scenario = "workshops" /\ WorkshopNext
          /\ UNCHANGED <<refundVars, limitVars, checkInVars, presenceVars,
                         inviteVars, membershipVars>>
       \/ scenario = "presence" /\ PresenceNext
          /\ UNCHANGED <<refundVars, limitVars, checkInVars, workshopVars,
                         inviteVars, membershipVars>>
       \/ scenario = "invitations" /\ InviteNext
          /\ UNCHANGED <<refundVars, limitVars, checkInVars, workshopVars,
                         presenceVars, membershipVars>>
       \/ scenario = "memberships" /\ MembershipNext
          /\ UNCHANGED <<refundVars, limitVars, checkInVars, workshopVars,
                         presenceVars, inviteVars>>

\* Type invariant.
TypeOK ==
    /\ scenario = "refunds" => RefundTypeOK
    /\ scenario = "limits" => LimitTypeOK
    /\ scenario = "check-in" => CheckInTypeOK
    /\ scenario = "workshops" => WorkshopTypeOK
    /\ scenario = "presence" => PresenceTypeOK
    /\ scenario = "invitations" => InviteTypeOK
    /\ scenario = "memberships" => MembershipTypeOK

Spec == Init /\ [][Next]_vars
=============================================================================
