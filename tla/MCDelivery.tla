----------------------------- MODULE MCDelivery -----------------------------
(* A small instance of Delivery. *)
EXTENDS Delivery

CONSTANTS j1, c1, m1, m2
=============================================================================
