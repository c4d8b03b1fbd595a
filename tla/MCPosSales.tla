----------------------------- MODULE MCPosSales -----------------------------
(* PosSales on a small instance: identifiers of the same kind are alike.    *)
EXTENDS PosSales, TLC

Symmetric == Permutations(Sales) \cup Permutations(Requests)

\* A SKU line of two units, an EPC line with a SKU line, and two SKU lines.
Tag(t)  == [epc |-> t, qty |-> 1]
Sku(k)  == [epc |-> NoTag, qty |-> k]
MCPayloads == {<<Sku(2)>>, <<Tag(2), Sku(1)>>, <<Sku(1), Sku(1)>>}
=============================================================================
