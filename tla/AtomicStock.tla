---------------------------- MODULE AtomicStock -----------------------------
(***************************************************************************)
(* What callers of the inventory service may count on: the stock of a key  *)
(* is one number, each request applies all its movements in one step, and  *)
(* no movement leaves a negative stock.  Inventory is shown to implement   *)
(* this when its transactions do not overlap.                              *)
(***************************************************************************)
EXTENDS StockTypes

CONSTANTS Requests, Opening

VARIABLES
    stock,          \* [Keys -> Nat]
    applied         \* the requests whose movements took effect

Init ==
    /\ stock = Opening
    /\ applied = {}

Apply(r) ==
    /\ r \notin applied
    /\ \E legs \in OperationLegs :
         /\ stock' = [k \in Keys |-> stock[k] + LegsQty(legs, k)]
         /\ \A k \in Keys : stock'[k] >= 0
    /\ applied' = applied \cup {r}

Next == \E r \in Requests : Apply(r)

Spec == Init /\ [][Next]_<<stock, applied>>

=============================================================================
