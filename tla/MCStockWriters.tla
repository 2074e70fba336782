--------------------------- MODULE MCStockWriters ---------------------------
(***************************************************************************)
(* One stock key under all its writers: HTTP requests, pushed adjustments, *)
(* GRN patches and MRP levels.                                             *)
(***************************************************************************)
EXTENDS StockWriters

CONSTANTS i1, main, g1, r1, r2, p1, p2

MCGrnLocation == (g1 :> main)

MCGrnLines == (g1 :> {[id |-> 1, item |-> i1, qty |-> 1, acceptedQty |-> NoQty]})

OneInStock == [k \in Keys |-> 1]
NoStock == [k \in Keys |-> 0]

MCLevels == {[onHand |-> 2, allocated |-> 1, onOrder |-> 1]}
NoLevels == {}

WriterSymmetry == Permutations(Requests) \cup Permutations(Mutations)

WriterKinds == {"adjust", "postGrn", "rebuild"}

=============================================================================
