------------------------------- MODULE Orders -------------------------------
(***************************************************************************)
(* OrdersService.  The service names relations and columns as in           *)
(* (prisma as any).order: lines and revision stand for what the schema     *)
(* calls orderLines and revisionNo.  A set of lines is one value; totalQty *)
(* and totalStyles are represented by the lines they were summed from.     *)
(* Nothing in the code sets IN_PRODUCTION or QC_PASSED: orders are loaded  *)
(* with them.  The offline sync writes a client's body over an order       *)
(* (sync.service.ts:219-223), any status and any figure: that writer is    *)
(* none of OrdersService's and is not here.                                *)
(***************************************************************************)
EXTENDS Handlers

CONSTANTS
    Orders,         \* orders, by their PO number, unique in the tenant
    LineSets,       \* what the lines of an order may be
    LoadedOrders    \* the statuses in which orders are found at the start

VARIABLES
    order,          \* orders with their lines
    revisions,      \* order_revisions
    topic,          \* the topic order.confirmed
    history         \* auxiliary: the lines of each order, revision by revision

orderVars == <<order, revisions, topic, history>>

-----------------------------------------------------------------------------
OrderStatuses ==
    {"DRAFT", "CONFIRMED", "IN_PRODUCTION", "QC_PASSED", "DISPATCHED", "CANCELLED"}

ASSUME OrdersAssumption ==
    None \notin Orders \cup LineSets \cup OrderStatuses /\ LoadedOrders \subseteq OrderStatuses

\* late (auxiliary): a request that held an old copy has written the order.
NoOrder == [status |-> None, revision |-> 0, lines |-> None, totals |-> None,
            linesJson |-> None, late |-> FALSE]

\* What a client may send: lines are required of a new order only.
CreateOrderDto == [lines : LineSets]
UpdateOrderDto == [lines : LineSets \cup {None}]

NewOrder(status, lines) ==
    [status |-> status, revision |-> 1, lines |-> lines, totals |-> lines,
     linesJson |-> lines, late |-> FALSE]

OrdersInit ==
    /\ order \in [Orders -> {NoOrder} \cup
                            {NewOrder(s, l) : s \in LoadedOrders, l \in LineSets}]
    /\ revisions = {}
    /\ topic = <<>>
    /\ history = [o \in Orders |-> IF order[o] = NoOrder THEN <<>> ELSE <<order[o].lines>>]

-----------------------------------------------------------------------------
\* createOrder(): one nested insert.
CreateOrder(r, o, dto) ==
    /\ Arrives(r)
    /\ order[o] = NoOrder
    /\ order' = [order EXCEPT ![o] = NewOrder("DRAFT", dto.lines)]
    /\ history' = [history EXCEPT ![o] = <<dto.lines>>]
    /\ request' = [request EXCEPT ![r] = Served]
    /\ UNCHANGED <<revisions, topic>>

-----------------------------------------------------------------------------
(* updateOrder(): the row, its lines and a revision in one nested update.   *)

ReadToUpdate(r, o, dto) ==
    /\ order[o].status \notin {None, "CANCELLED", "DISPATCHED"}
    /\ Read(r, "update", o, dto.lines, order[o])
    /\ UNCHANGED orderVars

\* @@unique([orderId, revisionNo])
RevisionFree(r) ==
    ~ \E x \in revisions : x.order = request[r].doc /\ x.revision = request[r].was.revision

\* Mutant: the revision keeps the lines that replace those it should keep.
BugSnapshot(r) ==
    [order |-> request[r].doc, revision |-> request[r].was.revision,
     lines |-> IF request[r].dto # None THEN request[r].dto ELSE request[r].was.lines]

\* The revision keeps the number and the lines that were read.
Snapshot(r) ==
    [order |-> request[r].doc, revision |-> request[r].was.revision,
     lines |-> request[r].was.lines]

\* The lines stay as they are when none are sent; the totals and linesJson are
\* then written back as they were read.
UpdateOrder(r) ==
    LET o     == request[r].doc
        sent  == request[r].dto # None
        lines == IF sent THEN request[r].dto ELSE order[o].lines
    IN  /\ AtWrite(r, "update")
        /\ RevisionFree(r)
        /\ order' = [order EXCEPT
             ![o].revision  = @ + 1,
             ![o].lines     = lines,
             ![o].totals    = IF sent THEN lines ELSE request[r].was.totals,
             ![o].linesJson = IF sent THEN lines ELSE request[r].was.linesJson,
             ![o].late      = @ \/ request[r].late]
        /\ revisions' = revisions \cup {Snapshot(r)}
        /\ history' = [history EXCEPT ![o] = Append(@, lines)]
        /\ Written(r, Served)
        /\ UNCHANGED topic

\* The revision is taken: the whole update fails.
RefuseUpdate(r) ==
    /\ AtWrite(r, "update")
    /\ ~ RevisionFree(r)
    /\ Refuse(r)
    /\ UNCHANGED orderVars

-----------------------------------------------------------------------------
(* confirmOrder(), cancelOrder(), dispatchOrder(): the status checked is    *)
(* the one read, the update has no condition.                               *)

ReadToConfirm(r, o) ==
    /\ order[o].status = "DRAFT"
    /\ Read(r, "confirm", o, None, order[o])
    /\ UNCHANGED orderVars

\* Mutant: the totals that were read are written back with the status.
BugConfirmOrder(r) ==
    LET o == request[r].doc IN
    /\ AtWrite(r, "confirm")
    /\ order' = [order EXCEPT ![o].status = "CONFIRMED", ![o].totals = request[r].was.totals,
                              ![o].linesJson = request[r].was.lines,
                              ![o].late = @ \/ request[r].late]
    /\ Written(r, [request[r] EXCEPT !.pc = "emit"])
    /\ UNCHANGED <<revisions, topic, history>>

ConfirmOrder(r) ==
    LET o == request[r].doc IN
    /\ AtWrite(r, "confirm")
    /\ order' = [order EXCEPT ![o].status = "CONFIRMED", ![o].linesJson = request[r].was.lines,
                              ![o].late = @ \/ request[r].late]
    /\ Written(r, [request[r] EXCEPT !.pc = "emit"])
    /\ UNCHANGED <<revisions, topic, history>>

\* The event names its user triggeredBy.
EmitConfirmed(r) ==
    /\ request[r].pc = "emit"
    /\ topic' = Append(topic, [orderId |-> request[r].doc, triggeredBy |-> "user"])
    /\ request' = [request EXCEPT ![r] = Served]
    /\ UNCHANGED <<order, revisions, history>>

\* Kafka is down or refuses, or the process ends: emit() swallows it and nothing
\* sends the event again.
LoseConfirmed(r) ==
    /\ request[r].pc = "emit"
    /\ request' = [request EXCEPT ![r] = Served]
    /\ UNCHANGED orderVars

\* Mutant: a dispatched order may be cancelled.
BugReadToCancel(r, o) ==
    /\ order[o].status \notin {None, "CANCELLED"}
    /\ Read(r, "cancel", o, None, order[o])
    /\ UNCHANGED orderVars

ReadToCancel(r, o) ==
    /\ order[o].status \notin {None, "CANCELLED", "DISPATCHED"}
    /\ Read(r, "cancel", o, None, order[o])
    /\ UNCHANGED orderVars

CancelOrder(r) ==
    LET o == request[r].doc IN
    /\ AtWrite(r, "cancel")
    /\ order' = [order EXCEPT ![o].status = "CANCELLED", ![o].late = @ \/ request[r].late]
    /\ Written(r, Served)
    /\ UNCHANGED <<revisions, topic, history>>

ReadToDispatch(r, o) ==
    /\ order[o].status = "QC_PASSED"
    /\ Read(r, "dispatch", o, None, order[o])
    /\ UNCHANGED orderVars

DispatchOrder(r) ==
    LET o == request[r].doc IN
    /\ AtWrite(r, "dispatch")
    /\ order' = [order EXCEPT ![o].status = "DISPATCHED", ![o].late = @ \/ request[r].late]
    /\ Written(r, Served)
    /\ UNCHANGED <<revisions, topic, history>>

-----------------------------------------------------------------------------
OrdersNext ==
    \E r \in Requests :
      \/ \E o \in Orders :
           \/ \E dto \in CreateOrderDto : CreateOrder(r, o, dto)
           \/ \E dto \in UpdateOrderDto : ReadToUpdate(r, o, dto)
           \/ ReadToConfirm(r, o)
           \/ ReadToCancel(r, o)
           \/ ReadToDispatch(r, o)
      \/ UpdateOrder(r)
      \/ RefuseUpdate(r)
      \/ ConfirmOrder(r)
      \/ EmitConfirmed(r)
      \/ LoseConfirmed(r)
      \/ CancelOrder(r)
      \/ DispatchOrder(r)

-----------------------------------------------------------------------------
(* Properties.                                                             *)

\* The revisions of an order are numbered without a gap up to the one before the
\* current, each once, and each keeps the lines the order had then, although its
\* number and lines were read before the update: the unique key of the revisions
\* refuses an update that another one has overtaken.
RevisionsAreHistory ==
    \A o \in Orders :
      LET kept == {x \in revisions : x.order = o}
      IN  /\ Cardinality(kept) = Cardinality({x.revision : x \in kept})
          /\ {x.revision : x \in kept} = 1 .. (order[o].revision - 1)
          /\ \A x \in kept : x.lines = history[o][x.revision]

\* The totals shown in lists are those of the lines the order has, also when an
\* update without lines writes back the totals it read; the JSON copy of the lines
\* agrees unless the order was changed between a confirmation's read and write.
TotalsOfLines ==
    \A o \in Orders :
      /\ order[o].totals = order[o].lines
      /\ ~ order[o].late => order[o].linesJson = order[o].lines

OrderMoves ==
    ({"DRAFT"} \X {"CONFIRMED", "CANCELLED"}) \cup
    ({"CONFIRMED", "IN_PRODUCTION"} \X {"CANCELLED"}) \cup
    ({"QC_PASSED"} \X {"DISPATCHED", "CANCELLED"})

\* OrdersService moves an order along its life cycle, out of CANCELLED or DISPATCHED
\* only by a request that read it before it got there.
OrderLifeCycle ==
    [][\A o \in Orders :
         (order[o] # NoOrder /\ order'[o].status # order[o].status) =>
           <<order[o].status, order'[o].status>> \in OrderMoves \/ LateWrite(o)
      ]_orderVars

=============================================================================
