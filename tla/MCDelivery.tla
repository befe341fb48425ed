----------------------------- MODULE MCDelivery ------------------------------
(* Delivery on small sets: the values of its constants and a symmetry. *)
EXTENDS Delivery, TLC

\* Only for safety runs: symmetry is not sound under fairness.
DeliverySymmetry ==
  Permutations(Proc) \cup Permutations(Message) \cup Permutations(Reservation)
=============================================================================
