------------------------------ MODULE Documents ------------------------------
(***************************************************************************)
(* Orders with their planning, purchase orders, production and accounts.   *)
(* They write no table of one another, so that a behaviour of all of them  *)
(* is a shuffle of theirs: a behaviour exercises one of them.              *)
(***************************************************************************)
EXTENDS OrderPlanning, PurchaseOrders, Production, Auth

CONSTANT Exercised  \* services a behaviour may exercise

VARIABLE service    \* the service the requests go to

vars == <<service, request, orderVars, queueVars, po, productionVars, authVars>>

NoOrders == order = [o \in Orders |-> NoOrder] /\ revisions = {} /\ topic = <<>>
            /\ history = [o \in Orders |-> <<>>]

NoAccounts ==
    /\ user = [u \in Users |-> NoUser] /\ tally = [u \in Users |-> NoTally] /\ code = {}
    /\ token = [n \in Rows |-> NoRow] /\ link = [n \in Rows |-> NoLink]

Init ==
    /\ HandlersInit /\ QueueInit
    /\ service \in Exercised
    /\ IF service = "orders" THEN OrdersInit ELSE NoOrders
    /\ IF service = "suppliers" THEN PosInit ELSE po = [p \in Pos |-> NoPo]
    /\ ProductionInit
    /\ IF service = "auth" THEN AuthInit ELSE NoAccounts
    /\ service # "production" => work = [d \in Cuts \cup Plans |-> NoWork]

Next ==
    /\ UNCHANGED service
    /\ \/ /\ service = "orders" /\ PlanningNext
          /\ UNCHANGED <<po, productionVars, authVars>>
       \/ /\ service = "suppliers" /\ PosNext
          /\ UNCHANGED <<orderVars, queueVars, productionVars, authVars>>
       \/ /\ service = "production" /\ WorkNext
          /\ UNCHANGED <<orderVars, queueVars, po, authVars>>
       \/ /\ service = "wip" /\ WipNext
          /\ UNCHANGED <<orderVars, queueVars, po, authVars>>
       \/ /\ service = "auth" /\ AuthNext
          /\ UNCHANGED <<orderVars, queueVars, po, productionVars>>

Spec == Init /\ [][Next]_vars /\ QueueFairness

-----------------------------------------------------------------------------
\* The handlers of the three services move every document along the life cycle of
\* its kind, except by a request that holds an old copy of it, and but that the line
\* of a purchase order is edited by whoever names it in an edit of another draft
\* (suppliers.repository.ts:205).
LifeCycles == OrderLifeCycle /\ PoLifeCycle /\ ProductionLifeCycle

\* Totals of orders and amounts of purchase orders agree with the lines that are
\* stored beside them.
DerivedFromLines == TotalsOfLines /\ AmountsOfLines

\* Numbers counted before an insert: kept apart by a key within a year for cut
\* orders, and only by the absence of overlaps for purchase orders.
CountedNumbers == CutNumbersContiguous /\ PoNumbersDistinct

=============================================================================
