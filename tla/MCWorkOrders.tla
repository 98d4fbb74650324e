---------------------------- MODULE MCWorkOrders ----------------------------
(* Small instances of WorkOrders for TLC. *)
EXTENDS WorkOrders, TLC

TechnicianSymmetry == Permutations(Technician)
=============================================================================
