----------------------------- MODULE MCDelivery -----------------------------
(* Instances of Delivery: senders of three events, without a consumer, for  *)
(* their order; one event and two deliveries at work, for its effects.      *)
EXTENDS Delivery, TLC

EventSymmetry == Permutations(Events)
=============================================================================
