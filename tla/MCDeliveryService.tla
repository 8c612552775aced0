------------------------- MODULE MCDeliveryService -------------------------
(* Small instances of DeliveryService, one cfg per delivery mode. *)
EXTENDS DeliveryService, TLC

Symmetry == Permutations(Clients)
=============================================================================
