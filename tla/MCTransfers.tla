---------------------------- MODULE MCTransfers ----------------------------
(***************************************************************************)
(* Small tenants for Transfers: row 1 carries an EPC, the others are units *)
(* of one SKU, of one variant or with one unit of another variant.         *)
(***************************************************************************)
EXTENDS Transfers, TLC

CONSTANTS sku, north, south

MCSkuOf == [b \in Bulk |-> sku]

MCOneVariant == [i \in Items |-> "blue"]
MCTwoVariants == [i \in Items |-> IF i = 3 THEN "red" ELSE "blue"]

\* The EPC row was imported without a store.
MCHome == [i \in Items |-> IF i \in Tags THEN NoStore ELSE north]

MCSymmetry == Permutations(Transfers)
=============================================================================
