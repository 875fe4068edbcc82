----------------------------- MODULE MCRegBridge -----------------------------
(* RegBridge with a master that offers writes in both ways, for TLC. *)
EXTENDS RegBridge

MCOrders == {"together", "address first"}
=============================================================================
