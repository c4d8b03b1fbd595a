----------------------------- MODULE MCTenancy -----------------------------
(* The instance of Tenancy for TLC. *)
EXTENDS Tenancy, TLC
=============================================================================
