---------------------------- MODULE MCInventory -----------------------------
(***************************************************************************)
(* Instances of Inventory for TLC: two items in two locations, one note    *)
(* with three postable lines (two of the same item, one inspected and one  *)
(* not) and a line whose accepted quantity is zero, and one note that has  *)
(* nothing to post.                                                        *)
(***************************************************************************)
EXTENDS Inventory

CONSTANTS i1, i2, main, store, g1, g2, r1, r2, r3

MCGrnLocation == (g1 :> main) @@ (g2 :> store)

MCGrnLines ==
    (g1 :> {[id |-> 1, item |-> i1, qty |-> 1, acceptedQty |-> NoQty],
            [id |-> 2, item |-> i1, qty |-> 2, acceptedQty |-> 1],
            [id |-> 3, item |-> i2, qty |-> 1, acceptedQty |-> NoQty],
            [id |-> 4, item |-> i2, qty |-> 2, acceptedQty |-> 0]})
    @@ (g2 :> {[id |-> 5, item |-> i1, qty |-> 0, acceptedQty |-> NoQty]})

\* Two lines suffice for two posters to lock them in opposite orders.
MCTwoLines ==
    (g1 :> {[id |-> 1, item |-> i1, qty |-> 1, acceptedQty |-> NoQty],
            [id |-> 2, item |-> i2, qty |-> 1, acceptedQty |-> NoQty]})
    @@ (g2 :> {})

\* One piece of i1 in the main store, none of i2.
MCOpening == [k \in Keys |-> IF k = <<i1, main>> THEN 1 ELSE 0]

RequestSymmetry == Permutations(Requests)

AllKinds == {"adjust", "issue", "return", "opening", "transfer", "postGrn", "rebuild"}

\* What these book, issues, returns and openings book too: one leg, of one sign.
MovementKinds == {"adjust", "transfer", "postGrn", "rebuild"}

ContendingKinds == {"issue", "transfer", "postGrn"}

GrnKinds == {"postGrn"}

=============================================================================
