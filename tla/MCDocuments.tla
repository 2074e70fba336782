----------------------------- MODULE MCDocuments -----------------------------
(***************************************************************************)
(* Orders with their planning, purchase orders, production and accounts    *)
(* for TLC.                                                                *)
(***************************************************************************)
EXTENDS Documents, TLC

CONSTANTS o1, p1, p2, c1, c2, l1, w1, x, y, u1, u2

SignedIn == [tenant |-> x, email |-> x, password |-> x]

=============================================================================
