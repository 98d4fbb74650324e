------------------------------ MODULE MCStock ------------------------------
(* Small instances of Stock for TLC. *)
EXTENDS Stock
=============================================================================
