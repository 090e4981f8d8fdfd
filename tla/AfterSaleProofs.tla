-------------------------- MODULE AfterSaleProofs --------------------------
(***************************************************************************)
(* The components that are explored side by side behave as each of them    *)
(* does alone, so what is proved about one of them holds in their run too. *)
(***************************************************************************)
EXTENDS MCAfterSale, GoodsProofs, OnSiteProofs, AccessProofs

\* A step moves one component, by a step of its own, and no other.
LEMMA OneMoves ==
    ASSUME [Next]_vars
    PROVE  /\ [RefundNext]_refundVars /\ [LimitNext]_limitVars /\ [CheckInNext]_checkInVars
           /\ [WorkshopNext]_workshopVars /\ [PresenceNext]_presenceVars
           /\ [InviteNext]_inviteVars /\ [MembershipNext]_membershipVars
BY DEF Next, vars, parts

\* Every behaviour of the seven side by side is one of each of them.
THEOREM SideBySide ==
    Spec => /\ RefundSpec /\ LimitSpec /\ CheckInSpec /\ WorkshopSpec
            /\ PresenceSpec /\ InviteSpec /\ MembershipSpec
<1>1. Init => /\ RefundInit /\ LimitInit /\ CheckInInit /\ WorkshopInit
              /\ PresenceInit /\ InviteInit /\ MembershipInit
  BY DEF Init
<1>2. [Next]_vars => /\ [RefundNext]_refundVars /\ [LimitNext]_limitVars
                     /\ [CheckInNext]_checkInVars /\ [WorkshopNext]_workshopVars
                     /\ [PresenceNext]_presenceVars /\ [InviteNext]_inviteVars
                     /\ [MembershipNext]_membershipVars
  BY OneMoves
<1> QED
  BY <1>1, <1>2, PTL
  DEF Spec, RefundSpec, LimitSpec, CheckInSpec, WorkshopSpec, PresenceSpec, InviteSpec,
      MembershipSpec

\* Whichever component is explored, its variables keep their shape.
THEOREM AllTypesHold == Spec => []TypeOK
<1>1. /\ RefundTypeOK /\ LimitTypeOK /\ CheckInTypeOK /\ WorkshopTypeOK
      /\ PresenceTypeOK /\ InviteTypeOK /\ MembershipTypeOK
      => TypeOK
  BY DEF TypeOK
<1> QED
  BY <1>1, SideBySide, RefundTypesHold, LimitTypesHold, CheckInTypesHold, WorkshopTypesHold,
     PresenceTypesHold, InviteTypesHold, MembershipTypesHold, PTL

\* The runs refunds and after_sale check what is proved here for every value of the
\* constants: all of its invariants, its action property and the refinement.
THEOREM AfterSaleIsSafe ==
    Spec =>
        /\ [](PaidBackOnce /\ PendingIsDecidable /\ UnitsBalance /\ RefundedIsReturned
              /\ TakenIsReturned)
        /\ KeepsContract
        /\ []KeptWithinLimit
        /\ [](AdmittedOnce /\ RecordsAgree /\ CancelledStaysOut)
        /\ [](NeverOverfull /\ NoIdlePlace /\ FirstComeFirstServed)
        /\ PlacesAreKept
        /\ [](LiveIsListed /\ ViewsAgree)
        /\ [](AdmitsOnce /\ NoStrayPermissions /\ AcceptedIsIn)
        /\ [](CodeWithinLimit /\ InvitedIsVerified)
<1>1. RefundSpec => [](PaidBackOnce /\ PendingIsDecidable /\ UnitsBalance
                       /\ RefundedIsReturned /\ TakenIsReturned)
  BY PaidBackOnceHolds, PendingIsDecidableHolds, UnitsBalanceHolds, RefundedIsReturnedHolds,
     TakenIsReturnedHolds, PTL
<1>2. CheckInSpec => [](AdmittedOnce /\ RecordsAgree /\ CancelledStaysOut)
  BY AdmittedOnceHolds, RecordsAgreeHolds, CancelledStaysOutHolds, PTL
<1>3. WorkshopSpec => [](NeverOverfull /\ NoIdlePlace /\ FirstComeFirstServed)
  BY NeverOverfullHolds, NoIdlePlaceHolds, FirstComeFirstServedHolds, PTL
<1>4. PresenceSpec => [](LiveIsListed /\ ViewsAgree)
  BY LiveIsListedHolds, ViewsAgreeHolds, PTL
<1>5. InviteSpec => [](AdmitsOnce /\ NoStrayPermissions /\ AcceptedIsIn)
  BY AdmitsOnceHolds, NoStrayPermissionsHolds, AcceptedIsInHolds, PTL
<1>6. MembershipSpec => [](CodeWithinLimit /\ InvitedIsVerified)
  BY CodeWithinLimitHolds, InvitedIsVerifiedHolds, PTL
<1> QED
  BY <1>1, <1>2, <1>3, <1>4, <1>5, <1>6, SideBySide, RefundsKeepContract,
     KeptWithinLimitHolds, PlacesAreKeptHolds
=============================================================================
