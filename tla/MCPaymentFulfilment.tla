------------------------ MODULE MCPaymentFulfilment ------------------------
(***************************************************************************)
(* Instances of PaymentFulfilment for TLC.  Workers are interchangeable,   *)
(* and so are payments; symmetry is used where no liveness is checked.     *)
(***************************************************************************)
EXTENDS PaymentFulfilment, TLC

Symmetric == Permutations(Workers) \cup Permutations(Payments)
=============================================================================
