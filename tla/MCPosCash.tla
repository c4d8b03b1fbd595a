----------------------------- MODULE MCPosCash -----------------------------
(* A small store for PosCash: two cashiers and one business date. *)
EXTENDS PosCash

CONSTANTS ana, bob, monday, r1, r2
=============================================================================
