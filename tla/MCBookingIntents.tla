-------------------------- MODULE MCBookingIntents --------------------------
(***************************************************************************)
(* Instances of BookingIntents for TLC: of three intents, two are made by  *)
(* the same customer.                                                      *)
(***************************************************************************)
EXTENDS BookingIntents, TLC

CONSTANTS i1, i2, i3

MCOwnerOf == [i \in Intents |-> IF i = i2 THEN "ann" ELSE "ben"]

MCSymmetry == Permutations(Workers) \cup Permutations(Payments)
=============================================================================
